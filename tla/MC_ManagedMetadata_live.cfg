SPECIFICATION FairSpec
CONSTANTS
  a = a
  b = b
  v = v
  empty = empty
  absent = absent
  N = 2
  Optional <- LastOptional
  Keys <- TwoKeys
  Values <- NonEmpty
  Empty = empty
  Absent = absent
  MaxEdits = 1
  MaxFailures = 1
  MaxDrift = 1
  MaxStale = 1
INVARIANTS
  TypeOK
  DesiredApplied
  TrackingMatchesSpec
PROPERTIES
  TrackedUntilRemoved
  TrackedRemovalHappens
  Converges
CHECK_DEADLOCK FALSE
