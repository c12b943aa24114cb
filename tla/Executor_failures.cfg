SPECIFICATION Spec
CONSTANTS
  Steps = {1, 2, 3}
  Plans <- MCFailures
  Policies = {"Fifo"}
  Priorities = {2}
  Capacity = Unbounded
  Unbounded = Unbounded
  Custom = FALSE
  MaxUnits = 99
  MaxParallel = 2
  Outcomes = {"Completed", "Failed", "Error"}
  Budget <- MCTwoRunsOneCrash
INVARIANTS TypeOK BooksAgree JournalSound ResumesSound
PROPERTIES ImplementsLifecycle SuccessMeansDone
CONSTRAINT SamePlan
CHECK_DEADLOCK FALSE
