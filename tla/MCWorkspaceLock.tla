--------------------------- MODULE MCWorkspaceLock ---------------------------
(* Instances of WorkspaceLock for TLC.                                      *)
EXTENDS WorkspaceLock, TLC

\* Processes are interchangeable: used by the runs that check safety only.
ProcSymmetry == Permutations(Proc)
=============================================================================
