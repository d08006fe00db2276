SPECIFICATION SceneSpec
CONSTANTS
  f1 = f1
  f2 = f2
  f3 = f3
  s1 = s1
  k1 = k1
  r1 = r1
  t1 = t1
  t2 = t2
  c1 = c1
  c2 = c2
  None = None
  Feature = {f1, f2, f3}
  Scenario = {s1}
  Capability = {k1}
  Rule = {r1}
  Text = {t1, t2}
  Client = {c1, c2}
  Batch <- MCBatch
  FirstSpec <- MCFirstSpec
  HandWritten <- MCHandWritten
  Import <- MCImport
  MaxCommits = 2
  MaxHands = 1
  x1 = x1
  x2 = x2
  v1 = v1
  v2 = v2
  Absent = Absent
  NoTarget = NoTarget
  NoRow = NoRow
  Subject = {x1, x2}
  Tested = {x1, x2}
  OracleDemanded = {x1}
  Baselined = {x2}
  HasDeliverable = FALSE
  Level = 2
  Registry = {"drift", "arch", "unit", "conformance"}
  Content = {v1, v2}
  Linked = {}
  Outcome <- MCOutcome
  Request <- MCRequest
  FirstState <- MCFirstState
  MaxRuns = 2
  MaxEdits = 2
  Hook = {h1, h2}
  Session = {a}
  NoId = NoId
  Fingerprint = {p1, p2}
  NoLedger = NoLedger
  NoLoad = NoLoad
  FreshCost = 2
  RepeatCost = 1
  Budget = 3
  MaxCalls = 4
  MaxWindows = 1
  User = {u1, u2, u3}
  Nobody = Nobody
  Gone = Gone
  Inode = {0, 1}
  MaxTakes = 3
  g1 = g1
  g2 = g2
  e1 = e1
  e2 = e2
  i1 = i1
  i2 = i2
  y1 = y1
  y2 = y2
  y3 = y3
  n1 = n1
  n2 = n2
  Shipped = {g1, g2}
  Clause = {e1, e2}
  Owner <- MCOwner
  Signer = {c1, c2}
  Issuer = {i1, i2}
  SigningKey = {y1, y2, y3}
  Statement <- MCStatement
  Choice <- MCChoice
  FirstWorld <- MCFirstWorld
  FirstRegistry <- MCFirstRegistry
  Removed = Removed
  Anonymous = Anonymous
  NoKey = NoKey
  NoDesk = NoDesk
  Unresolved = Unresolved
  MaxSignings = 2
  MaxDisturbances = 2
SYMMETRY ProcessSymmetry
INVARIANTS DerivedIsCurrent GreenStands GovernorHolds DirectoryOutlivesItsUsers SignOffStands
PROPERTIES CommitsAreCoherent NoBlindOverwrite BatchIsSerial RowsDescribeTheCode ExemptionReattests
CHECK_DEADLOCK FALSE
