CONSTANTS
  Node = {n1, n2}
  TermHandler = {}
  SpotHandler = {s1}
  MaxBatch = 2
  Poller = poller
  Free = free
  Joining = {}
  MayAllocate = FALSE
  CanFail = FALSE
  CanCrash = FALSE
SPECIFICATION Spec
PROPERTIES SpotBatchDrained
