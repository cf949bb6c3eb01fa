SPECIFICATION FairSpec
CONSTANTS
  CRDs <- OneCRD
  MaxStale = 1
  MaxDisturbances = 1
PROPERTIES
  EventuallyAnnotated
CHECK_DEADLOCK FALSE
