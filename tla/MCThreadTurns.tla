---------------------------- MODULE MCThreadTurns ----------------------------
(***************************************************************************)
(* ThreadTurns for TLC, in three environments: one turn in a thread that   *)
(* is edited and deleted and asks a person, two turns of the classic       *)
(* runner of which one is steered, and two of the kernel runner of which   *)
(* one is interrupted: which of the two is all the same.                   *)
(***************************************************************************)
EXTENDS ThreadTurns

CONSTANT Second  \* the turn that an edited thread does not have, and that is left alone in the others

VARIABLE environment

NotEdited == thread # NoThread /\ \A w \in Editor : direct[w].pc = "idle"
NotAsked == \A t \in Turn : ~WaitsForPerson(t)
RunBy(mode) == \A t \in Turn : run[t].mode \in {"none", mode}

Allowed ==
  \/ environment = "edited" /\ start[Second] = "none" /\ steers = 0
  \/ environment = "steered" /\ NotEdited /\ NotAsked /\ RunBy("classic")
       /\ buffer[Second] # "text" /\ \A i \in Interrupt : intr[i].pc = "idle"
  \/ environment = "interrupted" /\ NotEdited /\ NotAsked /\ RunBy("kernel") /\ steers = 0
       /\ \A i \in Interrupt : intr[i].turn # Second

MCInit == Init /\ environment \in {"edited", "steered", "interrupted"}
MCNext == Next /\ environment' = environment /\ Allowed'
MCSpec == MCInit /\ [][MCNext]_<<vars, environment>> /\ Fairness
=============================================================================
