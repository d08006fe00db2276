SPECIFICATION Spec
CONSTANTS
  Proc = {p1, p2, p3, p4}
  NoProc = NoProc
  MaxCrashes = 2
  Suspends = FALSE
SYMMETRY ProcSymmetry
PROPERTY RetiresOnlyDemonstrablyDead
