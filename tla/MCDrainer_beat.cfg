CONSTANTS
  Node = {n1}
  TermHandler = {t1}
  SpotHandler = {}
  MaxBatch = 1
  Poller = poller
  Free = free
  Joining = {}
  MayAllocate = FALSE
  CanFail = FALSE
  CanCrash = FALSE
SPECIFICATION Spec
INVARIANTS OnlyFailuresStop
