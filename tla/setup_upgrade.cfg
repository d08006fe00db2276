SPECIFICATION HostSetupSpec
CONSTANTS
  d1 = d1
  d2 = d2
  Engine = {d1, d2}
  HomeRoot = d1
  Host = {"codex", "antigravity"}
  FirstFiles <- MCFirstFiles
  Edited = {"codex", "bridge", "runtime"}
  NoSetup = NoSetup
  NoReport = NoReport
  MaxSetups = 2
  MaxMoves = 1
  MaxOwnEdits = 1
INVARIANT UpgradeNeedsNoCleanup
CHECK_DEADLOCK FALSE
