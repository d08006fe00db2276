SPECIFICATION SnapshotSpec
CONSTANTS
  Proc = {w, r}
  NoProc = NoProc
  Reader = r
  File = {f1, f2}
  Content = {absent, a}
  Absent = absent
  NoFile = NoFile
  MaxPlans = 1
  MaxCrashes = 0
  MaxErrors = 0
  MaxForeign = 0
SYMMETRY FileSymmetry
INVARIANT PublishesCoherent
