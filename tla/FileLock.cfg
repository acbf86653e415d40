SPECIFICATION Spec
CONSTANTS
  server = server
  worker = worker
  Client = {c1, c2, c3}
  ServerClient = {c1, c2}
  Process <- MCProcess
  ProcessOf <- MCProcessOf
  PidReused = FALSE
  NoDir = NoDir
  NoOwner = NoOwner
  MaxRestarts = 1
INVARIANTS ExclusiveUnlessReclaimRaced OrderlyWithoutCrash
PROPERTIES LockComesFree
CHECK_DEADLOCK FALSE
