SPECIFICATION FairSceneSpec
CONSTANTS
  Proc = {p1, p2, p3}
  NoProc = NoProc
  MaxCrashes = 2
  Suspends = FALSE
  Gate = {g1}
  Session = {s1, s2}
  Failure = {f1, f2}
  Clean = Clean
  Evidence = {v1}
  RotateAt = 1
  MaxEvents = 1
  MaxChanges = 2
  MaxFaults = 1
PROPERTIES DeadOwnerRetired NobodyIsTrapped
CHECK_DEADLOCK FALSE
