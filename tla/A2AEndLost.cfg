INIT A2AInit
NEXT A2ANext
CONSTANTS
  Canceller = {k1}
  MaxCrashes = 0
INVARIANT EndIsKept
CHECK_DEADLOCK FALSE
