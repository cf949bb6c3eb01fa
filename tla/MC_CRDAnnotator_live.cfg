SPECIFICATION FairSpec
CONSTANTS
  CRDs <- TwoCRDs
  MaxStale = 1
  MaxDisturbances = 2
INVARIANTS
  TypeOK
  RestsWhenAnnotated
PROPERTIES
  AnnotatedUnlessMissed
  Quiesces
CHECK_DEADLOCK FALSE
