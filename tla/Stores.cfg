SPECIFICATION MCSpec
CONSTANTS
  Call = {c1, c2, c3}
  MaxFaults = 2
  t1 = t1
  t2 = t2
  a = a
  b = b
  Keeps = {2}
  MaxAsides = 2
  MaxLines = 3
  FirstLines = 1
  LastLines = 1
  Fits = {1, 3}
  MaxBegin = 4
  Writer = {w1, w2, w3}
  Compaction = {w1, w2}
  MaxStops = 1
  Source = {s1, s2}
  Model = {m1, m2}
  Other = Other
  Retention = 0
  MaxFile = 1
  MaxEvents = 3
  MaxDay = 1
  MaxDays = 2
  MaxTroubles = 1
INVARIANTS PromptsTellTheThread RevisionsAgree UsageIsReportedOnce
PROPERTIES ThreadIsListedAsStored
CHECK_DEADLOCK FALSE
