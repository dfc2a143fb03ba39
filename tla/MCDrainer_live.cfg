CONSTANTS
  Node = {n1}
  TermHandler = {t1}
  SpotHandler = {s1}
  MaxBatch = 1
  Poller = poller
  Free = free
  Joining = {}
  MayAllocate = TRUE
  CanFail = FALSE
  CanCrash = FALSE
SPECIFICATION FairSpec
PROPERTIES DrainedIsReleased ShutdownCompletes ExclusionsCleanedUp
CHECK_DEADLOCK FALSE
