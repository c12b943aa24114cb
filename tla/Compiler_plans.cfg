SPECIFICATION Spec
CONSTANTS
  Elements = {1, 2, 3}
  Plans <- MCPlans
INVARIANTS
  EveryCombinationOnce
  ConsistentCompiles
  StepsOrdered
  InstancesSound
PROPERTIES
  OrderSurvives
CHECK_DEADLOCK FALSE
