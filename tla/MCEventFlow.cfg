CONSTANTS
  Term = {t1}
  Spot = {s1}
  Junk = {}
  ReceiveMax = 2
  Cap = 1
  BatchMax = 2
  CanFail = TRUE
  CanCrash = TRUE
SPECIFICATION FairSpec
INVARIANTS DeletedIsEmitted
PROPERTIES NothingVanishes EventsFlow
