SPECIFICATION Spec
CONSTANTS
  Process = {p1, p2}
  Id = {c1, c2}
  MaxCalls = 2
  MaxSteps = 3
  MaxRecovery = 1
  MaxFaults = 1
  MaxRevision = 3
INVARIANTS CallsAreAccountedFor
PROPERTIES CommitsAreKept EveryRunStops
CHECK_DEADLOCK FALSE
