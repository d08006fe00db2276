---------------------------- MODULE MCServerInit ----------------------------
(* Instances of ServerInit for TLC.                                        *)
EXTENDS ServerInit

CONSTANTS h3

Own(n) == [own |-> n, gen |-> 0, put |-> 0]

\* An empty folder, one whose .gitattributes has the block, one with files of
\* the author, one in use.
MCFirstDisk == {
  [p \in Path |-> Blank],
  [p \in Path |-> IF p = "attributes" THEN [own |-> 1, gen |-> 1, put |-> 0]
                  ELSE Blank],
  [p \in Path |-> IF p \in {"design", "agents", "ignore"} THEN Own(1) ELSE Blank],
  [p \in Path |-> IF p = "scan" THEN Blank
                  ELSE IF p \in {"agents", "ignore", "attributes"}
                  THEN [own |-> 1, gen |-> 1, put |-> 0] ELSE Own(1)]}
=============================================================================
