SPECIFICATION ServerInitSpec
CONSTANTS
  h3 = h3
  Challenge = {h3}
  Caller = {c1, c2}
  Touched = {"design", "state"}
  FirstDisk <- MCFirstDisk
  NoRequest = NoRequest
  NoInit = NoInit
  MaxApplies = 2
  MaxTouches = 1
PROPERTY FailureLeavesNothing
CHECK_DEADLOCK FALSE
