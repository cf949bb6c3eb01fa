SPECIFICATION FairSpec
CONSTANTS
  Entries <- SameName
  Rules <- TwoRules
  Proxies <- AnyProxy
  OLM <- Environment
  MaxChanges = 2
  MaxFailures = 1
INVARIANTS
  TypeOK
  PoliciesInPlace
  EgressInPlace
PROPERTIES
  DoneMeansClean
  ComesToRest
CHECK_DEADLOCK FALSE
