SPECIFICATION FairSpec
CONSTANTS
  Types <- ConditionTypes
  Values <- ConditionValues
  None = None
  MaxChanges = 4
  MaxFailures = 1
INVARIANTS
  TypeOK
  MirrorComplete
PROPERTIES
  FinalizerGuards
  MirrorRests
  DeletionCompletes
CHECK_DEADLOCK FALSE
