SPECIFICATION SceneSpec
CONSTANTS
  a1 = a1
  a2 = a2
  a3 = a3
  p1 = p1
  p2 = p2
  Attempt <- MCAttempt
  NoAttempt = NoAttempt
  None = None
  Process <- MCProcess
  ProcessOf <- MCProcessOf
  Text = {t1, t2}
  Code = {bad, good}
  GoodCode = {good}
  MaxEdits = 3
  MaxCrashes = 1
  Gate = {g1, g2}
  Session = {s1}
  Failure = {f1, f2}
  Clean = Clean
  Evidence = {v1}
  RotateAt = 2
  MaxEvents = 4
  MaxChanges = 1
  MaxFaults = 1
SYMMETRY RecordSymmetry
INVARIANTS ReceiptIsTrue StatusIsEarned JournalStaysRecoverable
PROPERTIES CompletesOnItsGate OnlyRepetitionsAreLeftOut
CHECK_DEADLOCK FALSE
