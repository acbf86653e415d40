SPECIFICATION Spec
CONSTANTS
  Runtime = {r1, r2}
  Node <- LoopNode
  StartNode = "model"
  Edge <- LoopEdge
  TerminalNode = {"done"}
  SavesBefore = {"tools"}
  SavesAfter = {"tools"}
  Outcome = {"completed", "degraded", "failed"}
  HookOutcome = {"degraded"}
  HookJump = {"model"}
  MaxSteps = 2
  Fault = {"crash", "leaseLapse", "renewal", "handler", "hook"}
  MaxFaults = 2
  NoNode = NoNode
  NoOutcome = NoOutcome
  NoLease = NoLease
  Dead = Dead
INVARIANTS LogTellsTheRun
PROPERTIES FinalUnlessOvertaken ProcessesRunAsOne
SYMMETRY Symmetry
