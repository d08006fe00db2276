----------------------------- MODULE AtomicStore -----------------------------
(***************************************************************************)
(* What the specification transaction promises its callers: a store of     *)
(* files that changes by whole transactions.  A transaction is opened over *)
(* the store as it is, and then every file it names changes at once or     *)
(* none does.                                                              *)
(***************************************************************************)
CONSTANTS File, Content

VARIABLES store,  \* the content of every managed file
          open    \* the transaction under way; its "files" are empty if none is

vars == <<store, open>>

Init ==
  /\ store \in [File -> Content]
  /\ open.files = {}

Open ==
  /\ open.files = {}
  /\ open'.files \in SUBSET File
  /\ \A f \in open'.files : open'.before[f] = store[f]
  /\ UNCHANGED store

Commit ==
  /\ open.files # {}
  /\ store' = [f \in File |-> IF f \in open.files
                              THEN open.after[f] ELSE store[f]]
  /\ open'.files = {}

Abort ==
  /\ open.files # {}
  /\ open'.files = {}
  /\ UNCHANGED store

Next == Open \/ Commit \/ Abort

Spec == Init /\ [][Next]_vars
=============================================================================
