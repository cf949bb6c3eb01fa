SPECIFICATION FairSpec
CONSTANTS
  Configs <- RefOrBundle
  Foreign = TRUE
  MaxChanges = 2
  MaxFaults = 1
INVARIANTS
  TypeOK
  StatusTruthful
  BundleProblemAnnounced
PROPERTIES
  FinalizerGuards
  EventuallyReady
  DeletionCompletes
CHECK_DEADLOCK FALSE
