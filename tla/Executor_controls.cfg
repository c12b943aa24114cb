SPECIFICATION FairSpec
CONSTANTS
  Steps = {1, 2, 3}
  Plans <- MCControlled
  Policies = {"Fifo"}
  Priorities = {2}
  Capacity = Unbounded
  Unbounded = Unbounded
  Custom = FALSE
  MaxUnits = 99
  MaxParallel = 2
  Outcomes = {"Completed", "Skipped", "Failed"}
  Budget <- MCControls
PROPERTIES RunEnds StopHonoured TrialResultsSound
CHECK_DEADLOCK FALSE
