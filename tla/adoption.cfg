SPECIFICATION SceneSpec
CONSTANTS
  c1 = c1
  c2 = c2
  q1 = q1
  q2 = q2
  context = context
  catalog = catalog
  Command = {c1, c2}
  Artifact = {context, catalog}
  Context = context
  Question = {q1, q2}
  FirstQuestions <- MCFirstQuestions
  NextQuestions <- MCNextQuestions
  Missing = Missing
  NoSession = NoSession
  NoJob = NoJob
  MaxBegun = 4
  MaxMixed = 2
  MaxRewrites = 2
  m1 = m1
  m2 = m2
  w1 = w1
  w2 = w2
  b1 = b1
  b2 = b2
  Legacy = {m1, m2}
  Operator = {o1}
  Wording = {w1, w2}
  Unclear = {w2}
  Rest = {b1, b2}
  Historic = {m1}
  Pinned = {m1}
  Blind = {m2}
  FirstShards <- MCFirstShards
  NoReview = NoReview
  NoTrial = NoTrial
  NoApply = NoApply
  NoBaseline = NoBaseline
  MaxAlone = 2
  h3 = h3
  Challenge = {h3}
  Caller = {c1, c2}
  Touched = {"design", "state"}
  FirstDisk <- MCFirstDisk
  NoRequest = NoRequest
  NoInit = NoInit
  MaxApplies = 3
  MaxTouches = 1
  d1 = d1
  d2 = d2
  Engine = {d1, d2}
  HomeRoot = d1
  Host = {"codex", "antigravity"}
  FirstFiles <- MCFirstFiles
  Edited = {"codex", "bridge", "runtime"}
  NoSetup = NoSetup
  NoReport = NoReport
  MaxSetups = 2
  MaxMoves = 1
  MaxOwnEdits = 1
SYMMETRY ProcessSymmetry
INVARIANTS DoneReflectsAnswers StandsInForTheEarned HostsStartTheEngine
PROPERTIES AuthorIsNotOverwritten ConvertsWhatWasReviewed DoneKeepsItsProof
PROPERTIES ReplaysDoNotWrite NothingIsLost UsersEntriesStay
CHECK_DEADLOCK FALSE
