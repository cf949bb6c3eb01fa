SPECIFICATION Spec
CONSTANTS
  Text <- SomeText
  Configured <- None
  Patches <- NoPatches
  Environments <- NoEnvironments
  EnvVars <- NoEnvVars
  Placements <- NoPlacements
  MaxChanges = 2
  MaxFailures = 0
INVARIANTS
  BundleKeyMounted
CHECK_DEADLOCK FALSE
