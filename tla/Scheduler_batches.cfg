SPECIFICATION Spec
CONSTANTS
  Steps = {1, 2, 3, 4}
  Plans <- MCBatches
  Policies = {"Priority", "Fair", "ResourceAware"}
  Priorities = {1, 2, 3}
  MaxParallel = 3
  Capacity = 4
CONSTRAINT BatchesOnly
PROPERTIES FairShare BatchesSound
