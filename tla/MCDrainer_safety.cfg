CONSTANTS
  Node = {n1, n2}
  TermHandler = {t1}
  SpotHandler = {s1}
  MaxBatch = 1
  Poller = poller
  Free = free
  Joining = {}
  MayAllocate = TRUE
  CanFail = TRUE
  CanCrash = TRUE
SPECIFICATION Spec
SYMMETRY NodeSymmetry
INVARIANTS TypeOK AwaitedIsExcluded ReleasedOnEvidence
PROPERTIES ImplementsExclusions
