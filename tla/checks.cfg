SPECIFICATION FairSceneSpec
CONSTANTS
  a1 = a1
  a2 = a2
  Attempt = {a1, a2}
  Status = {"planned", "in_progress", "done"}
  Text = {"t1", "t2"}
  None = None
  MaxEdits = 3
  MaxFaults = 1
  z1 = z1
  z2 = z2
  Criterion = {z1, z2}
  Selector = "t"
  TestFile <- MCTestFile
  FirstFiles <- MCFirstFiles
  Setup <- MCSetup
  Unlisted = Unlisted
  NoReport = NoReport
  NoCheck = NoCheck
  NoRun = NoRun
  NoProof = NoProof
  MaxChecks = 2
  MaxMeddled = 2
INVARIANTS DoneStands VerifiedWasRun StagesTellTheirRuns
PROPERTIES SuiteReportSurvives OthersWorkSurvives ProvisionalSettles
CHECK_DEADLOCK FALSE
