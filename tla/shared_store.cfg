SPECIFICATION SceneSpec
CONSTANTS
  Proc = {w, r}
  NoProc = NoProc
  Reader = r
  File = {f1, f2}
  Content = {absent, a}
  Absent = absent
  NoFile = NoFile
  MaxPlans = 2
  MaxCrashes = 1
  MaxErrors = 0
  MaxForeign = 0
  Writer = {w, x}
  ForeignContent = {absent, a, b}
SYMMETRY FileSymmetry
INVARIANTS CoherentUnlessEpochHidden JournalIsUsable
PROPERTIES ReadingDoesNotWrite NoSilentOverwrite
CHECK_DEADLOCK FALSE
