SPECIFICATION MCSpec
CONSTANTS
  Agent = {"Manager", "Specialist"}
  Condition = {"handoff", "accepted", "completed", "failed", "retry", "exhausted", "joined"}
  StartNode = "manager"
  Node <- DefaultNode
  Kind <- DefaultKind
  AgentAt <- DefaultAgentAt
  Edge <- DefaultEdge
  MaxAttempts <- NoAttempts
  Branching = {}
  NoNode = "none"
  Runtime = {"server", "remote"}
  Worker = {"inServer", "elsewhere"}
  RuntimeOf <- MCRuntimeOf
  Task <- OneTask
  Outcome <- AnyOutcome
  Direct <- None
  External <- None
  ClaimLeases = TRUE
  Token = {1, 2, 3, 4, 5, 6}
  Fault = {"crash", "leaseLapse", "claimLapse", "handler"}
  MaxFaults = 3
  NoLease = NoLease
  NoClaim = NoClaim
  NoTask = NoTask
  Dead = Dead
INVARIANTS RunAndMailboxAgree
PROPERTIES RunsEndForGood ProgressIsLostAsTold
CHECK_DEADLOCK FALSE
