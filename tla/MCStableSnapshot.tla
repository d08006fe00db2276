--------------------------- MODULE MCStableSnapshot ---------------------------
(* Instances of StableSnapshot for TLC.                                     *)
EXTENDS StableSnapshot, TLC

\* Files are interchangeable: each of them may be read and replaced first.
FileSymmetry == Permutations(File)
=============================================================================
