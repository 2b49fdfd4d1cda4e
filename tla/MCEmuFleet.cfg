CONSTANTS
  d1 = d1
  d2 = d2
  Addresses = {d1, d2}
  Refused = Refused
  Lists <- MCLists
  Callers = {s1, s2, s3}
SPECIFICATION FleetSpec
INVARIANTS AllLaunched StopMeansStopped
PROPERTIES StopEnds
CHECK_DEADLOCK FALSE
