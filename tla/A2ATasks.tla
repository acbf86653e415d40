------------------------------ MODULE A2ATasks ------------------------------
(***************************************************************************)
(* One task of the agent-to-agent routes: a2aSubmitTask and the background *)
(* completeA2ATask, calls of a2aCancelTask, a subscriber of the task, and  *)
(* FileA2ATaskStore, whose upsert reads the record, keeps a terminal one   *)
(* (preserveTerminal) and writes the file in place.                        *)
(*                                                                         *)
(* The file is opened, which empties it, and then filled; a read between   *)
(* the two finds no task, and two writers can leave a text no one parses.  *)
(* The turn is the turn service's; only whether it runs matters here.      *)
(*                                                                         *)
(* NextWins and NeverCloses are ways to get the next definition wrong.     *)
(***************************************************************************)
EXTENDS Naturals, FiniteSets

CONSTANTS Canceller, MaxCrashes

VARIABLES
  file,      \* the task's file: a record, or a text that is no record
  writer,    \* each request: where it is, the record it writes, the one it read
  turn,      \* the turn of the task
  asked,     \* the turn was asked to stop
  listener,  \* the subscriber of the task
  downs,     \* restarts so far
  collided,  \* history: two upserts were at work at once
  ended,     \* history: the first end the task's file told
  early      \* history: a cancel read the task before its turn was in it

a2aVars == <<file, writer, turn, asked, listener, downs, collided, ended, early>>

Request == {"submit"} \cup Canceller
Torn == [status |-> "torn", turn |-> FALSE]
NoTask == [status |-> "none", turn |-> FALSE]
Terminal == {"completed", "failed", "cancelled"}
Readable(r) == r.status \notin {"torn", "none"}
Writing == {"reading", "opening", "filling"}
InUpsert == {r \in Request : writer[r].at \in Writing}
Working == {r \in Request : writer[r].at \notin {"idle", "done", "gone"}}

A2AInit ==
  /\ file = NoTask /\ turn = "none" /\ asked = FALSE /\ listener = "none" /\ downs = 0
  /\ writer = [r \in Request |-> [at |-> "idle", next |-> NoTask, over |-> FALSE, after |-> "done"]]
  /\ collided = FALSE /\ ended = "none" /\ early = FALSE

\* upsert(record), to go on at after.
Upsert(r, record, after) ==
  /\ writer' = [writer EXCEPT ![r] = [at |-> "reading", next |-> record, over |-> FALSE, after |-> after]]
  /\ collided' = (collided \/ InUpsert # {})

Goto(r, at) == writer' = [writer EXCEPT ![r].at = at] /\ collided' = collided

NextWins(current, next) == next

PreserveTerminal(current, next) ==
  IF current.status \in Terminal /\ current.status # next.status THEN current ELSE next

UpsertRead(r) ==
  /\ writer[r].at = "reading"
  /\ writer' = [writer EXCEPT ![r].at = "opening",
                              ![r].next = IF Readable(file) THEN PreserveTerminal(file, @) ELSE @]
  /\ UNCHANGED <<file, turn, asked, listener, downs, collided, ended, early>>

UpsertOpen(r) ==
  /\ writer[r].at = "opening"
  /\ Goto(r, "filling") /\ file' = Torn
  /\ UNCHANGED <<turn, asked, listener, downs, ended, early>>

\* Over what another one wrote since the file was opened, a shorter text leaves its end.
UpsertFill(r) ==
  /\ writer[r].at = "filling"
  /\ file' \in {writer[r].next} \cup (IF writer[r].over THEN {Torn} ELSE {})
  /\ writer' = [q \in Request |->
       IF q = r THEN [writer[r] EXCEPT !.at = writer[r].after]
       ELSE [writer[q] EXCEPT !.over = @ \/ writer[q].at = "filling"]]
  /\ ended' = IF ended = "none" /\ file'.status \in Terminal THEN file'.status ELSE ended
  /\ UNCHANGED <<turn, asked, listener, downs, collided, early>>

Submit ==
  LET at == writer["submit"].at IN
  \/ at = "idle" /\ Upsert("submit", [status |-> "submitted", turn |-> FALSE], "stored") /\ turn' = turn
  \/ at = "stored" /\ Upsert("submit", [status |-> "working", turn |-> FALSE], "starting") /\ turn' = turn
  \/ at = "starting" /\ turn' = "running" /\ Goto("submit", "started")
  \/ at = "starting" /\ turn' = turn /\ Upsert("submit", [status |-> "failed", turn |-> FALSE], "done")
  \/ at = "started" /\ Upsert("submit", [status |-> "working", turn |-> TRUE], "running") /\ turn' = turn

SubmitTask == Submit /\ UNCHANGED <<file, asked, listener, downs, ended, early>>

RunTurn ==
  /\ writer["submit"].at = "running" /\ turn = "running"
  /\ \E s \in {"completed", "failed"} : turn' = s
  /\ Goto("submit", "ran")
  /\ UNCHANGED <<file, asked, listener, downs, ended, early>>

EndOf(s) == s

\* Cancelled meanwhile, the task is left alone; a turn that threw is not looked after.
Complete ==
  /\ writer["submit"].at = "ran"
  /\ \/ file.status = "cancelled" /\ Goto("submit", "done")
     \/ /\ file.status # "cancelled" \/ turn = "failed"
        /\ Upsert("submit", [status |-> EndOf(turn), turn |-> TRUE], "done")
  /\ UNCHANGED <<file, turn, asked, listener, downs, ended, early>>

InterruptTurn(c) == asked' = (asked \/ turn = "running")

\* The record read here is the one written later, after the turn was asked to stop.
CancelTask(c) ==
  /\ writer[c].at = "idle" /\ Readable(file)
  /\ file.status \notin {"completed", "failed"}
  /\ writer' = [writer EXCEPT ![c].at = "asking", ![c].next = [file EXCEPT !.status = "cancelled"]]
  /\ early' = (early \/ ~file.turn)
  /\ IF file.turn THEN InterruptTurn(c) ELSE asked' = asked
  /\ UNCHANGED <<file, turn, listener, downs, collided, ended>>

StoreCancelled(c) ==
  /\ writer[c].at = "asking"
  /\ Upsert(c, writer[c].next, "done")
  /\ UNCHANGED <<file, turn, asked, listener, downs, ended, early>>

\* Only a task that has its thread is followed; the others are told once, and left.
Subscribe ==
  /\ listener = "none" /\ file # NoTask
  /\ listener' = IF Readable(file) /\ file.status \notin Terminal /\ file.turn THEN "polling" ELSE "left"
  /\ UNCHANGED <<file, writer, turn, asked, downs, collided, ended, early>>

NeverCloses == FALSE

SeesTheEnd == file.status \in Terminal

Poll ==
  /\ listener = "polling" /\ SeesTheEnd /\ listener' = "left"
  /\ UNCHANGED <<file, writer, turn, asked, downs, collided, ended, early>>

\* Nothing reads the task files at the next start.
A2ARestart ==
  /\ downs < MaxCrashes /\ downs' = downs + 1 /\ Working # {}
  /\ writer' = [r \in Request |-> [writer[r] EXCEPT !.at = IF r \in Working THEN "gone" ELSE @]]
  /\ listener' = "left" /\ turn' = IF turn = "running" THEN "none" ELSE turn
  /\ UNCHANGED <<file, asked, collided, ended, early>>

Step ==
  \/ \E r \in Request : UpsertRead(r) \/ UpsertOpen(r) \/ UpsertFill(r)
  \/ SubmitTask \/ RunTurn \/ Complete \/ Poll
  \/ \E c \in Canceller : StoreCancelled(c)

A2ANext == Step \/ (\E c \in Canceller : CancelTask(c)) \/ Subscribe \/ A2ARestart

A2ASpec == A2AInit /\ [][A2ANext]_a2aVars
-----------------------------------------------------------------------------
A2ATypeOK ==
  /\ file \in [status : Terminal \cup {"torn", "none", "submitted", "working"}, turn : BOOLEAN]
  /\ listener \in {"none", "polling", "left"} /\ turn \in {"none", "running", "completed", "failed"}

\* The file of a task that has ended keeps its end, unless two upserts were at work at
\* once: the record a late one must not overwrite is the one it read before.
EndIsKeptOneByOne == ended # "none" /\ Readable(file) => file.status = ended \/ collided

\* A task that has ended keeps its end, whatever late update races with it.
EndIsKept == ended # "none" /\ Readable(file) => file.status = ended

\* A task that reads as cancelled has a turn that was asked to stop, unless the cancel
\* came before the task knew its turn; then the turn runs to its end.
CancelledTurnIsAsked == file.status = "cancelled" /\ turn = "running" => asked \/ early

\* When its turn is over, the task ends, and so does its subscriber, unless two upserts
\* were at work at once, or the process restarted.
TaskEnds == writer["submit"].at = "ran" ~> file.status \in Terminal \/ collided \/ downs > 0
SubscriberIsReleased == listener = "polling" ~> listener = "left" \/ collided \/ downs > 0

\* One at a time, the upserts of a task keep its end, and a cancelled one stops its turn.
TaskTellsItsEnd == A2ATypeOK /\ EndIsKeptOneByOne /\ CancelledTurnIsAsked
=============================================================================
