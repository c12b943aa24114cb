SPECIFICATION Spec
CONSTANTS
  Steps = {1, 2, 3}
  Plans <- MCAllGraphs
  Policies = {"Fifo"}
  Priorities = {2}
  MaxParallel = 2
  Capacity = 0
INVARIANTS TypeOK OneStage RunsAfterDependencies NeverStranded
PROPERTIES ImplementsLifecycle
CONSTRAINT SamePlan
