SPECIFICATION Spec
CONSTANTS
  Steps = {1, 2, 3}
  Plans <- MCControlled
  Policies = {"Fifo"}
  Priorities = {2}
  Capacity = Unbounded
  Unbounded = Unbounded
  Custom = FALSE
  MaxUnits = 99
  MaxParallel = 2
  Outcomes = {"Completed", "Failed"}
  Budget <- MCOneRunOnePause
PROPERTIES SucceededIsSuccess
CHECK_DEADLOCK FALSE
