---------------------------- MODULE MCSharedStore ----------------------------
(***************************************************************************)
(* Who else uses the files of a transaction, in one run: a reader that     *)
(* takes no lock, or processes that ignore the lock and edit.  An instance *)
(* picks its scene; the scenes differ in their bounds.                     *)
(***************************************************************************)
EXTENDS StableSnapshot, TLC

CONSTANTS Writer,         \* the processes, and
          ForeignContent  \* what a file can hold, where files are edited

VARIABLE scene

\* The transactions beside those who ignore the lock.
Foreign == INSTANCE SpecTransaction
  WITH Proc <- Writer, Content <- ForeignContent,
       MaxPlans <- 1, MaxErrors <- 1, MaxForeign <- 3

SceneInit ==
  /\ scene \in {"reader", "foreign"}
  /\ IF scene = "reader" THEN SnapshotInit
     ELSE /\ Foreign!Init
          /\ rpc = "pending"
          /\ left = {} /\ epoch = Nothing /\ view = Nothing
          /\ journalMark = 0 /\ lockMark = "none" /\ same = TRUE
          /\ stores = {} /\ held = [f \in File |-> {}] /\ reverted = FALSE

SceneNext ==
  /\ \/ scene = "reader" /\ SnapshotNext
     \/ /\ scene = "foreign" /\ Foreign!Next
        /\ UNCHANGED <<rpc, readerRegisters, attempt>>
  /\ UNCHANGED scene

SceneSpec == SceneInit /\ [][SceneNext]_<<snapshotVars, scene>>

\* Files are interchangeable: each of them may be read and replaced first.
FileSymmetry == Permutations(File)
=============================================================================
