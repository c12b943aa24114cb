SPECIFICATION Spec
CONSTANTS
  Steps = {1, 2, 3}
  Plans <- MCAsking
  Policies = {"Fifo"}
  Priorities = {2}
  Capacity = 3
  Unbounded = Unbounded
  Custom = FALSE
  MaxUnits = 99
  MaxParallel = 2
  Outcomes = {"Completed", "Failed"}
  Budget <- MCOneRunTwoTakes
INVARIANTS WithinLimits AllocationsSound
PROPERTIES NoEarlyEnd
CHECK_DEADLOCK FALSE
