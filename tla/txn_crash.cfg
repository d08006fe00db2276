SPECIFICATION FairSpec
CONSTANTS
  Proc = {p1, p2, p3}
  NoProc = NoProc
  File = {f1, f2}
  Content = {absent, a}
  Absent = absent
  NoFile = NoFile
  MaxPlans = 2
  MaxCrashes = 2
  MaxErrors = 1
  MaxForeign = 1
PROPERTIES ImplementsAtomicStore PendingResolved
