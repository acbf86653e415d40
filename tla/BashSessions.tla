---------------------------- MODULE BashSessions ----------------------------
(***************************************************************************)
(* One session of the bash tool: the call that runs a command, the shell   *)
(* it spawns, and the calls that poll it, write to it or stop it once the  *)
(* first one has returned with the command still running. The timers of    *)
(* the calls may fire at any moment; what the shell writes travels through *)
(* a pipe and may arrive after its exit.                                   *)
(*                                                                         *)
(* A turn that is aborted stops only a command whose first call is still   *)
(* under way, and the timeout is over with that call, too.                 *)
(*                                                                         *)
(* The answer for a session that is over closes its output: finish() first *)
(* and, when the output is so long that it went to a file, the end of that *)
(* file. Only then is the session finalized: a piece of output that comes  *)
(* in between is added to an accumulator that is finished, and what that   *)
(* throws in an event of the child ends the process (threw).               *)
(*                                                                         *)
(* TakesAll is a way to get the next definition wrong.                     *)
(***************************************************************************)
EXTENDS Naturals

CONSTANTS
  Asker,     \* later calls for the session: poll, write, stop
  MaxOutput, \* bound: pieces of output
  MaxKept,   \* pieces of output that are kept in memory; more of them go to a file
  Unasked

VARIABLES
  run,           \* where the first call is
  ending,        \* how it ended
  short,         \* timeoutMs <= yieldMs
  abortedTurn, listening, \* the signal of the turn, and whether onAbort hears it
  shell,         \* the spawned shell
  deaf,          \* it ignores SIGTERM
  termed,        \* it was sent SIGTERM
  status, stopRequested, finalized, \* of the session
  finished,      \* finish() was called on its output
  threw,         \* an event of the child threw: the process is gone
  listed,        \* the session is in bashSessions
  written, got,  \* pieces of output written by the shell, taken by the session
  missed,        \* pieces that arrived after the output was finalized
  updateDirty,   \* output that the first call has not shown while it waits
  asker, told    \* where each later call is, and the showing; what each was answered

sessionVars == <<run, ending, short, abortedTurn, listening, shell, deaf, termed, status,
                 stopRequested, finalized, finished, threw, listed, written, got, missed,
                 updateDirty, asker, told>>

fixed == <<short, deaf>>
stopFlags == <<termed, stopRequested>>
pieces == <<written, got, missed, updateDirty>>
output == <<finalized, finished, threw, pieces>>

\* emitUpdate shows what a call would be answered now.
Later == Asker \cup {"update"}
Teller == Later \cup {"run"}
At(k) == IF k = "run" THEN run ELSE asker[k]

SessionInit ==
  /\ run = "mkdir" /\ ending = "none" /\ short \in BOOLEAN
  /\ abortedTurn = FALSE /\ listening = FALSE
  /\ shell = "none" /\ deaf \in BOOLEAN /\ termed = FALSE
  /\ status = "running" /\ stopRequested = FALSE /\ listed = FALSE
  /\ finalized = FALSE /\ finished = FALSE /\ threw = FALSE
  /\ written = 0 /\ got = 0 /\ missed = 0 /\ updateDirty = FALSE
  /\ asker = [k \in Later |-> "idle"]
  /\ told = [k \in Teller |-> Unasked]

\* stopSession: a session that is over is not stopped any more.
StopSession ==
  IF status = "running" THEN stopRequested' = TRUE /\ termed' = TRUE ELSE UNCHANGED stopFlags

Shifts(k, where) ==
  IF k = "run" THEN run' = where /\ UNCHANGED asker
  ELSE asker' = [asker EXCEPT ![k] = where] /\ UNCHANGED run
-----------------------------------------------------------------------------
\* startBashSession: the shell may fail to start, of which an event tells later.
Spawn ==
  /\ run = "mkdir" /\ run' = "waiting" /\ listening' = TRUE /\ listed' = TRUE
  /\ shell' \in {"up", "unspawned"}
  /\ UNCHANGED <<ending, abortedTurn, fixed, stopFlags, status, output, asker, told>>

TurnAborts ==
  /\ ~abortedTurn /\ abortedTurn' = TRUE
  /\ IF listening THEN StopSession ELSE UNCHANGED stopFlags
  /\ UNCHANGED <<run, ending, fixed, listening, shell, status, output, listed, asker, told>>

\* The wait is over: the session has ended or the yield time has passed.
RunAborted ==
  /\ run = "waiting" /\ abortedTurn /\ listening' = FALSE
  /\ StopSession /\ run' = "over" /\ ending' = "aborted"
  /\ UNCHANGED <<abortedTurn, fixed, shell, status, output, listed, asker, told>>
RunTimesOut ==
  /\ run = "waiting" /\ ~abortedTurn /\ status = "running" /\ short /\ listening' = FALSE
  /\ StopSession /\ run' = "grace"
  /\ UNCHANGED <<ending, abortedTurn, fixed, shell, status, output, listed, asker, told>>
GraceIsOver ==
  /\ run = "grace" /\ run' = "over" /\ ending' = "timedOut"
  /\ UNCHANGED <<abortedTurn, fixed, listening, shell, stopFlags, status, output, listed, asker, told>>
RunGoesOn ==
  /\ run = "waiting" /\ ~abortedTurn /\ (status # "running" \/ ~short) /\ listening' = FALSE
  /\ run' = "telling"
  /\ UNCHANGED <<ending, abortedTurn, fixed, shell, stopFlags, status, output, listed, asker, told>>

\* action "poll", "write" and "stop"; the id of the session is known from the first answer.
Ask(k, action) ==
  /\ asker[k] = "idle" /\ ending = "yielded"
  /\ Shifts(k, IF ~listed THEN "over"
           ELSE IF action = "write" /\ status # "running" THEN "telling" ELSE "waiting")
  /\ IF listed /\ action = "stop" THEN StopSession ELSE UNCHANGED stopFlags
  /\ UNCHANGED <<ending, abortedTurn, fixed, listening, shell, status, output, listed, told>>

AskerGoesOn(k) ==
  /\ asker[k] = "waiting" /\ Shifts(k, "telling")
  /\ UNCHANGED <<ending, abortedTurn, fixed, listening, shell, stopFlags, status, output, listed, told>>

\* emitUpdate, at once or from its timer, as long as the first call has not its answer.
Update ==
  /\ updateDirty /\ updateDirty' = FALSE
  /\ run \in {"waiting", "telling", "flushing", "closing"} /\ asker["update"] \in {"idle", "over"}
  /\ Shifts("update", "telling")
  /\ UNCHANGED <<ending, abortedTurn, fixed, listening, shell, stopFlags, status, finalized, finished, threw,
                 written, got, missed, listed, told>>

\* sessionPayload: the output of a session that is over is finalized after a short sleep.
Told(k) ==
  /\ Shifts(k, "over") /\ told' = [told EXCEPT ![k] = [status |-> status, got |-> got]]
  /\ ending' = IF k # "run" THEN ending ELSE IF status = "running" THEN "yielded" ELSE "ended"
Tell(k) ==
  /\ At(k) = "telling" /\ (status = "running" \/ finalized)
  /\ Told(k)
  /\ UNCHANGED <<abortedTurn, fixed, listening, shell, stopFlags, status, output, listed>>
Flush(k) ==
  /\ At(k) = "telling" /\ status # "running" /\ ~finalized /\ Shifts(k, "flushing")
  /\ UNCHANGED <<ending, abortedTurn, fixed, listening, shell, stopFlags, status, output, listed, told>>
\* finish(), and closeTempFile() for the first who comes: it waits for the end of the file.
Finish(k) ==
  /\ At(k) = "flushing" /\ finished' = TRUE
  /\ IF ~finished /\ got > MaxKept THEN Shifts(k, "closing") /\ UNCHANGED <<finalized, ending, told>>
     ELSE finalized' = TRUE /\ Told(k)
  /\ UNCHANGED <<abortedTurn, fixed, listening, shell, stopFlags, status, threw, pieces, listed>>
Finalize(k) ==
  /\ At(k) = "closing" /\ finalized' = TRUE /\ Told(k)
  /\ UNCHANGED <<abortedTurn, fixed, listening, shell, stopFlags, status, finished, threw, pieces, listed>>

\* A finished session is forgotten after ten minutes.
Forget ==
  /\ listed /\ status # "running" /\ listed' = FALSE
  /\ UNCHANGED <<run, ending, abortedTurn, fixed, listening, shell, stopFlags, status, output, asker, told>>
-----------------------------------------------------------------------------
\* The shell writes and dies, of its own accord or by the signal.
Writes ==
  /\ shell = "up" /\ written < MaxOutput /\ written' = written + 1
  /\ UNCHANGED <<run, ending, abortedTurn, fixed, listening, shell, stopFlags, status, finalized, finished, threw, got,
                 missed, updateDirty, listed, asker, told>>
Dies ==
  /\ shell = "up" /\ shell' = "dead"
  /\ UNCHANGED <<run, ending, abortedTurn, fixed, listening, stopFlags, status, output, listed, asker, told>>

TakesAll == TRUE
TakesOutput == ~finalized

\* The events of the child: data, exit and error. append() throws once finish() was called.
Data ==
  /\ got + missed < written
  /\ IF ~TakesOutput THEN missed' = missed + 1 /\ UNCHANGED <<got, threw, updateDirty>>
     ELSE IF finished THEN threw' = TRUE /\ UNCHANGED <<got, missed, updateDirty>>
     ELSE got' = got + 1 /\ updateDirty' = TRUE /\ UNCHANGED <<missed, threw>>
  /\ UNCHANGED <<run, ending, abortedTurn, fixed, listening, shell, stopFlags, status, finalized, finished,
                 written, listed, asker, told>>

Settles(how) ==
  /\ shell' = "reaped" /\ status' = (IF status = "running" THEN how ELSE status)
  /\ UNCHANGED <<run, ending, abortedTurn, fixed, listening, stopFlags, output, listed, asker, told>>
Exit == shell = "dead" /\ Settles(IF stopRequested THEN "stopped" ELSE "completed")
SpawnError == shell = "unspawned" /\ Settles("failed")

\* What goes on by itself while the process lives: the code's own steps and the events; and a shell
\* that was told to stop.
Works(k) ==
  /\ ~threw
  /\ \/ k = "run" /\ (Spawn \/ RunAborted \/ RunTimesOut \/ GraceIsOver \/ RunGoesOn)
     \/ k \in Asker /\ AskerGoesOn(k)
     \/ Tell(k) \/ Flush(k) \/ Finish(k) \/ Finalize(k)
Happens == ~threw /\ (Data \/ Exit \/ SpawnError)
Obeys == termed /\ ~deaf /\ Dies

SessionNext ==
  \/ \E k \in Teller : Works(k)
  \/ \E k \in Asker, action \in {"poll", "write", "stop"} : ~threw /\ Ask(k, action)
  \/ ~threw /\ (Update \/ TurnAborts \/ Forget)
  \/ Happens \/ Dies \/ Writes

SessionSpec ==
  /\ SessionInit /\ [][SessionNext]_sessionVars
  /\ \A k \in Teller : WF_sessionVars(Works(k))
  /\ WF_sessionVars(Happens) /\ WF_sessionVars(Obeys)
-----------------------------------------------------------------------------
\* The status of a session says what became of its shell.
StatusIsTrue ==
  /\ status # "running" <=> shell = "reaped"
  /\ status = "stopped" => stopRequested

\* A first call that was aborted or timed out has told the shell to stop, unless it was over.
CutOffIsStopped == ending \in {"aborted", "timedOut"} => termed \/ status \in {"completed", "failed"}

\* Answers that say that the command is over say the same, and nothing is added later.
LastWordsAgree ==
  \A k \in Teller : told[k] # Unasked /\ told[k].status # "running" =>
    told[k] = [status |-> status, got |-> got]

\* What the shell writes ends the process at one moment only: while the file of a long output whose
\* session is over is being closed.
OnlyTheCloseThrows == threw => status # "running" /\ finished /\ ~finalized /\ got > MaxKept

\* The calls on a session, and the turn, are told what really became of the command.
CommandsEndAsTold == StatusIsTrue /\ CutOffIsStopped /\ LastWordsAgree /\ OnlyTheCloseThrows

\* Every call that waits is answered, unless the process ends before, and a shell whose first call was
\* cut off dies, unless it ignores the signal.
CallsAreAnswered == \A k \in Teller : At(k) = "waiting" ~> At(k) = "over" \/ threw
CutOffDies == ending \in {"aborted", "timedOut"} ~> shell # "up" \/ deaf
=============================================================================
