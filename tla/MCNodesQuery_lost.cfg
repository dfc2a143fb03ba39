CONSTANTS
  Node = {n1, n2}
  Tries = 2
SPECIFICATION Spec
INVARIANTS DrainedIsEmpty
CHECK_DEADLOCK FALSE
