CONSTANTS
  Node = {n1}
  TermHandler = {t1}
  SpotHandler = {}
  MaxBatch = 1
  Poller = poller
  Free = free
  Joining = {}
  MayAllocate = FALSE
  CanFail = TRUE
  CanCrash = FALSE
SPECIFICATION Spec
INVARIANTS CompletedOnEvent
