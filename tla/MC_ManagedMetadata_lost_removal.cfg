SPECIFICATION Spec
CONSTANTS
  a = a
  b = b
  v = v
  empty = empty
  absent = absent
  N = 2
  Optional <- NoOptional
  Keys <- OneKey
  Values <- NonEmpty
  Empty = empty
  Absent = absent
  MaxStale = 0
  MaxEdits = 1
  MaxFailures = 1
  MaxDrift = 0
INVARIANTS
  NoRemovalLost
CHECK_DEADLOCK FALSE
