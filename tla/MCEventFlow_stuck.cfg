CONSTANTS
  Term = {t1, t2}
  Spot = {s1}
  Junk = {}
  ReceiveMax = 1
  Cap = 1
  BatchMax = 2
  CanFail = TRUE
  CanCrash = FALSE
SPECIFICATION FairSpec
PROPERTIES RunStops
