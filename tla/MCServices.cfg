CONSTANTS
  Timeout = 6
  Longest = 8
  Global = 24
  Delay = 1
  Lag = 2
  Node = {n1, n2}
  Launches = {{}, {n1, n2}}
  Master = {n1, n2}
  Handler = {h1, h2}
  Free = free
  MaxBeats = 1
  MaxSent = 3
  MaxFaults = 1
  Tries = 2
  HeartbeatTimeout = 9
  CommBuffer = 3
  MaxCount = 3
  Width <- WidthTwo
  Policy <- PolicyAny
  History <- HistoryAny
  Start = 13
  Horizon = 17
  MaxFailures = 1
  Window <- WindowsTwo
  MaxLate = 3
  MaxJobs = 2
  Size = 2
  Cluster <- Clusters
  Round = {r1, r2}
  BatchSize = 20
  Request = {q1, q2}
SPECIFICATION ServicesSpec
SYMMETRY Symmetry
INVARIANTS TypesOK TimeoutIsReal VotingKept ShardsAreTold KeptUntilCheck WantedAreKept
PROPERTIES ExpiresAtHeartbeat VotingCleared NeverForgotten NewestSurvives RecentSurvive NoGapOpens NothingSkipped OldSnapshotsGo PairingHolds PushedFigures
CHECK_DEADLOCK FALSE
