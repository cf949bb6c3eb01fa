SPECIFICATION FairSpec
CONSTANTS
  Text <- SomeText
  Configured <- JustWebhook
  Patches <- SomePatches
  Environments <- SomeEnvironments
  EnvVars <- SomeEnvVars
  Placements <- SomePlacements
  MaxChanges = 2
  MaxFailures = 1
INVARIANTS
  TypeOK
  ArgumentsEffective
  EnvironmentEffective
  PlacementEffective
PROPERTIES
  ProfileFollowed
  ComesToRest
CHECK_DEADLOCK FALSE
