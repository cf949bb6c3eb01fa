SPECIFICATION Spec
CONSTANTS
  a = a
  b = b
  v = v
  empty = empty
  absent = absent
  N = 2
  Optional <- NoOptional
  Keys <- OneKey
  Values <- NonEmpty
  Empty = empty
  Absent = absent
  MaxEdits = 1
  MaxFailures = 0
  MaxDrift = 0
  MaxStale = 1

PROPERTIES
  TrackingNeverAhead
CHECK_DEADLOCK FALSE
