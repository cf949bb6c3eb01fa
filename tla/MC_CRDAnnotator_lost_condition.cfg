SPECIFICATION Spec
CONSTANTS
  CRDs <- OneCRD
  MaxStale = 0
  MaxDisturbances = 1
INVARIANTS
  ConditionsCurrent
CHECK_DEADLOCK FALSE
