CONSTANTS
  Node = {n1, n2}
  TermHandler = {}
  SpotHandler = {s1, s2}
  MaxBatch = 2
  Poller = poller
  Free = free
  Joining = {n1, n2}
  MayAllocate = FALSE
  CanFail = TRUE
  CanCrash = TRUE
SPECIFICATION Spec
SYMMETRY SpotSymmetry
INVARIANTS SettingsExclusive
PROPERTIES NoLostExclusion
