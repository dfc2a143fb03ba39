SPECIFICATION UndisturbedSpec
CONSTANTS
  Width <- WidthTwo
  Policy <- PolicyTwo
  History <- HistoryHourly
  Start = 48
  Horizon = 120
  MaxFailures = 0
INVARIANTS KeepReturns
CHECK_DEADLOCK FALSE
