-------------------------- MODULE MCSpecTransaction --------------------------
(* Instances of SpecTransaction for TLC.                                    *)
EXTENDS SpecTransaction, TLC

\* Processes are interchangeable, and so are files.
TransactionSymmetry == Permutations(Proc) \cup Permutations(File)
=============================================================================
