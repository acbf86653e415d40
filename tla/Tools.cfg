SPECIFICATION Spec
CONSTANTS
  MaxFaults = 2
  Caller = {k1, k2}
  Refresher = {r1}
  MaxVersion = 2
  MaxLines = 2
  MaxBytes = 2
  Undecided = 2
  MaxLength = 10
  MaxChunk = 3
  Thread = {t1, t2}
  MaxInline = 2
  MaxTurn = 2
  MaxHits = 2
  Limit = {1, 2}
  ScanFactor = 1
  MaxChanges = 2
  Slot = {s1, s2}
  MaxRequests = 3
INVARIANTS AnswersAreTrue SkillsAreAsTold
PROPERTIES CallsAndConnectionsAgree EditsDoAsTold
CHECK_DEADLOCK FALSE
