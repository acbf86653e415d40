SPECIFICATION MCSpec
CONSTANTS
  Turn = {t1, t2}
  Editor = {e1}
  Interrupt = {i1}
  Mode = {"classic", "evented", "kernel"}
  MaxSteers = 1
  CanDelete = TRUE
  Second = t2
INVARIANTS QuietThreadIsSettled
PROPERTIES EndedStaysEnded EveryTurnEnds
