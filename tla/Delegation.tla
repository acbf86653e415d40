----------------------------- MODULE Delegation -----------------------------
(***************************************************************************)
(* Child agents: DelegationRuntime.runChild for the calls of one parent    *)
(* thread, the child-run records it stores, the peer it invokes for each,  *)
(* and the executor that runs the child on stores and gates of its own.    *)
(*                                                                         *)
(* The executor does not look at the signal of the parent, and the gates   *)
(* of a child are reachable by no route: a child that asks for an approval *)
(* or for input waits for ever.                                            *)
(*                                                                         *)
(* EndAs is a way to get the next definition wrong.                        *)
(***************************************************************************)
EXTENDS Naturals, FiniteSets

CONSTANTS
  Child,       \* calls of runChild
  MaxParallel, MaxChildRuns,
  MaxLostEvents \* bound: events that cannot be recorded, and restarts

VARIABLES
  call,      \* where each call of runChild is
  record,    \* the stored record of each child
  active,    \* how many children count as active
  turnOn,    \* the parent's turn is not aborted
  mishaps,   \* events not recorded and restarts so far
  outcome,   \* history: how the executor ended
  admitted,  \* history: calls admitted while another one was being admitted
  unheard    \* history: calls that had an event not recorded, or a restart

delegationVars == <<call, record, active, turnOn, mishaps, outcome, admitted, unheard>>

Entering == {c \in Child : call[c] \in {"checked", "listed", "stored"}}
Alive == {c \in Child : call[c] \notin {"idle", "refused", "threw", "over", "gone"}}
Running == {c \in Child : call[c] \in {"running", "waiting", "done", "finished"}}

DelegationInit ==
  /\ call = [c \in Child |-> "idle"] /\ record = [c \in Child |-> "none"]
  /\ active = 0 /\ turnOn = TRUE /\ mishaps = 0
  /\ outcome = [c \in Child |-> "none"] /\ admitted = {} /\ unheard = {}

To(c, where) == call' = [call EXCEPT ![c] = where]
history == <<outcome, admitted, unheard>>

ActiveIsLow(c) == active < MaxParallel

RunChild(c) ==
  /\ call[c] = "idle" /\ turnOn
  /\ To(c, IF ActiveIsLow(c) THEN "checked" ELSE "refused")
  /\ admitted' = IF ActiveIsLow(c) /\ Entering # {} THEN admitted \cup {c} \cup Entering ELSE admitted
  /\ UNCHANGED <<record, active, turnOn, mishaps, outcome, unheard>>

RunsAreFew == Cardinality({c \in Child : record[c] # "none"}) < MaxChildRuns

RefusedUnless(few) == IF few THEN "listed" ELSE "refused"

ListRuns(c) ==
  /\ call[c] = "checked"
  /\ To(c, RefusedUnless(RunsAreFew))
  /\ UNCHANGED <<record, active, turnOn, mishaps, history>>

StoreRunning(c) ==
  /\ call[c] = "listed"
  /\ record' = [record EXCEPT ![c] = "running"]
  /\ To(c, "stored")
  /\ UNCHANGED <<active, turnOn, mishaps, history>>

\* recordChildEvent may fail; here nothing catches it.
EventFails(c) == mishaps < MaxLostEvents /\ mishaps' = mishaps + 1 /\ unheard' = unheard \cup {c}

Announce(c) ==
  /\ call[c] = "stored"
  /\ \/ To(c, "running") /\ active' = active + 1 /\ UNCHANGED <<mishaps, unheard>>
     \/ EventFails(c) /\ To(c, "threw") /\ active' = active
  /\ UNCHANGED <<record, turnOn, outcome, admitted>>

\* publishChildCard and the child's own turn: it ends by itself, or asks.
Execute(c) ==
  /\ call[c] = "running"
  /\ \/ \E o \in {"completed", "failed"} : To(c, "done") /\ outcome' = [outcome EXCEPT ![c] = o]
     \/ To(c, "waiting") /\ outcome' = outcome
  /\ UNCHANGED <<record, active, turnOn, mishaps, admitted, unheard>>

EndAs(c, status) == "completed"

\* An artifact is a completed one; what the executor throws is "aborted" under an
\* aborted signal.
StatusOf(c, status) ==
  IF status = "completed" THEN "completed" ELSE IF turnOn THEN "failed" ELSE "aborted"

StoreEnd(c) ==
  /\ call[c] = "done"
  /\ record' = [record EXCEPT ![c] = StatusOf(c, outcome[c])]
  /\ To(c, "finished")
  /\ UNCHANGED <<active, turnOn, mishaps, history>>

NoLongerActive == active - 1

\* The event after the end; when it fails after a completed child, the catch clause
\* stores the child as failed, and tries once more.
AnnounceEnd(c) ==
  /\ call[c] = "finished"
  /\ \/ To(c, "over") /\ active' = NoLongerActive /\ UNCHANGED <<record, mishaps, unheard>>
     \/ /\ EventFails(c) /\ record[c] = "completed"
        /\ record' = [record EXCEPT ![c] = StatusOf(c, "failed")]
        /\ UNCHANGED <<call, active>>
     \/ /\ EventFails(c) /\ record[c] # "completed"
        /\ To(c, "threw") /\ active' = NoLongerActive /\ record' = record
  /\ UNCHANGED <<turnOn, outcome, admitted>>

AbortParent ==
  /\ turnOn /\ turnOn' = FALSE
  /\ UNCHANGED <<call, record, active, mishaps, history>>

\* Nothing reads the records of children at the next start.
Restart ==
  /\ mishaps < MaxLostEvents /\ mishaps' = mishaps + 1 /\ Alive # {}
  /\ call' = [c \in Child |-> IF c \in Alive THEN "gone" ELSE call[c]]
  /\ unheard' = unheard \cup Alive
  /\ active' = 0
  /\ UNCHANGED <<record, turnOn, outcome, admitted>>

Own(c) ==
  RunChild(c) \/ ListRuns(c) \/ StoreRunning(c) \/ Announce(c) \/ Execute(c) \/ StoreEnd(c) \/ AnnounceEnd(c)

DelegationNext == (\E c \in Child : Own(c)) \/ AbortParent \/ Restart

DelegationSpec == DelegationInit /\ [][DelegationNext]_delegationVars
-----------------------------------------------------------------------------
DelegationTypeOK ==
  /\ record \in [Child -> {"none", "running", "completed", "failed", "aborted"}]
  /\ active \in 0 .. Cardinality(Child) /\ mishaps \in 0 .. MaxLostEvents

\* The children that count as active are those that run: every way out of a started
\* child gives its place back, and only there.
ActiveIsExact == active = Cardinality(Running)

\* More children than maxParallel run, or more than maxChildRuns are stored, only when
\* calls were admitted together: the checks come before two awaits, the counts after.
LimitsHoldOneByOne ==
  /\ Cardinality(Running \ admitted) <= MaxParallel
  /\ Cardinality({c \in Child : record[c] # "none"} \ admitted) <= MaxChildRuns

\* A record tells how its child ended, unless one of its events could not be recorded
\* or the process was restarted; then it may say "running" for ever, or "failed" of a
\* child that completed.
RecordsTellTheEnd ==
  \A c \in Child : call[c] \in {"threw", "over", "gone"} /\ c \notin unheard =>
    record[c] # "running" /\ (record[c] = "completed" <=> outcome[c] = "completed")

\* Each call of runChild returns, unless its child asks somebody, whom it cannot reach.
ChildrenEndOrAsk == \A c \in Child : call[c] = "checked" ~> call[c] \in {"refused", "threw", "over", "gone", "waiting"}

\* Children are accounted for: how many run, within which limits, and how each ended.
ChildrenAreAccountedFor == DelegationTypeOK /\ ActiveIsExact /\ LimitsHoldOneByOne /\ RecordsTellTheEnd
=============================================================================
