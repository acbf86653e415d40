SPECIFICATION Spec
CONSTANTS
  Child = {c1, c2, c3}
  MaxParallel = 1
  MaxChildRuns = 2
  MaxLostEvents = 1
  Canceller = {k1, k2}
  MaxCrashes = 1
  Turn = {t1, t2}
  Selected = {t1, t2}
  WindowSize = 5
  MinRuns = 2
  ConsecutiveFailures = 2
  Cooldown = 2
  RateOver = 2
  MaxFailures = 2
  Calls = 2
  Pieces = 2
  Inlines = 2
  MaxPosts = 5
  NoReason = NoReason
  Asker = {a1, a2}
  MaxOutput = 2
  MaxKept = 0
  Unasked = Unasked
  j1 = j1
  j2 = j2
  j3 = j3
  p1 = p1
  p2 = p2
  Linked = {j2}
  Job = {j1, j2, j3}
  Process = {p1, p2}
  Host <- HostOf
  Shard = {s1, s2}
  MaxRestarts = 1
  MaxExits = 4
INVARIANTS ChildrenAreAccountedFor TaskTellsItsEnd StreamTellsItsCalls CommandsEndAsTold
  EditsAreExclusive PoolKeepsItsWorkers
PROPERTIES CallersAreReleased
CHECK_DEADLOCK FALSE
