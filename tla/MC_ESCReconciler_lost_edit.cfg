SPECIFICATION Spec
CONSTANTS
  Configs <- PlainOrRef
  Foreign = FALSE
  MaxChanges = 1
  MaxFaults = 0
PROPERTIES
  UserSpecKept
CHECK_DEADLOCK FALSE
