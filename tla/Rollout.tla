------------------------------- MODULE Rollout -------------------------------
(***************************************************************************)
(* EventedV2RolloutController and the loop of runtime-factory that asks it *)
(* which runtime a turn runs on and tells it how evented_v2 turns ended.   *)
(*                                                                         *)
(* Failures in the window of the last outcomes start a fallback to the     *)
(* other runtime for a cooldown. The window is kept over the fallback, and *)
(* turns begun before it still report their ends to it.                    *)
(*                                                                         *)
(* Time is what is left of the cooldown.                                   *)
(***************************************************************************)
EXTENDS Naturals, Sequences, FiniteSets

CONSTANTS
  Turn,        \* turns that may be at work at once
  Selected,    \* the turns of threads a canary takes: stablePercent < canaryPercent
  WindowSize, MinRuns, ConsecutiveFailures, Cooldown,
  RateOver,    \* failureRateThreshold, of 4
  MaxFailures  \* bound: evented_v2 turns that do not complete

VARIABLES
  outcomes,    \* the window: TRUE for a turn that failed or was aborted
  coolingFor,  \* what is left of the cooldown
  why,         \* fallbackReason
  mode,        \* the runtime each turn runs on
  failures     \* evented_v2 turns that did not complete so far

rolloutVars == <<outcomes, coolingFor, why, mode, failures>>

Init ==
  /\ outcomes = <<>> /\ coolingFor = 0 /\ why = "none" /\ failures = 0
  /\ mode = [t \in Turn |-> "none"]

Failed(os) == Cardinality({i \in DOMAIN os : os[i]})

CountConsecutiveFailures(os) ==
  Cardinality({i \in DOMAIN os : \A j \in i .. Len(os) : os[j]})

FallbackReason(os) ==
  IF Len(os) < MinRuns THEN "none"
  ELSE IF 4 * Failed(os) >= RateOver * Len(os) THEN "failure_rate"
  ELSE IF CountConsecutiveFailures(os) >= ConsecutiveFailures THEN "consecutive_failures"
  ELSE "none"

Active == coolingFor > 0

ReasonKept == IF Active THEN why ELSE "none"

Decide(t) ==
  /\ mode[t] = "none"
  /\ mode' = [mode EXCEPT ![t] = IF ~Active /\ t \in Selected THEN "evented_v2" ELSE "fallback"]
  /\ why' = ReasonKept
  /\ UNCHANGED <<outcomes, coolingFor, failures>>

LastN(os, n) == IF Len(os) > n THEN SubSeq(os, Len(os) - n + 1, Len(os)) ELSE os

Pushed(os, failed) == LastN(Append(os, failed), WindowSize)

RecordOutcome(failed) ==
  LET os == Pushed(outcomes, failed) IN
  /\ outcomes' = os
  /\ IF FallbackReason(os) = "none" THEN UNCHANGED <<coolingFor, why>>
     ELSE coolingFor' = Cooldown /\ why' = FallbackReason(os)

IsCounted(t) == mode[t] = "evented_v2"

End(t) ==
  /\ mode[t] # "none"
  /\ mode' = [mode EXCEPT ![t] = "none"]
  /\ \E failed \in BOOLEAN :
       /\ mode[t] = "evented_v2" /\ failed => failures < MaxFailures
       /\ failures' = IF mode[t] = "evented_v2" /\ failed THEN failures + 1 ELSE failures
       /\ IF IsCounted(t) THEN RecordOutcome(failed) ELSE UNCHANGED <<outcomes, coolingFor, why>>

Tick ==
  /\ Active /\ coolingFor' = coolingFor - 1
  /\ UNCHANGED <<outcomes, why, mode, failures>>

Next == (\E t \in Turn : Decide(t) \/ End(t)) \/ Tick
-----------------------------------------------------------------------------
TypeOK ==
  /\ Len(outcomes) <= WindowSize /\ coolingFor \in 0 .. Cooldown
  /\ why \in {"none", "failure_rate", "consecutive_failures"}
  /\ mode \in [Turn -> {"none", "evented_v2", "fallback"}] /\ failures \in 0 .. MaxFailures

\* While the fallback is on its reason is known, though deciding and reporting turns
\* clear and set it in any order: no turn falls back as "forced".
FallbackHasItsReason == Active => why # "none"

\* The fallback grows only by the end of a turn on evented_v2, so it ends a cooldown
\* after the last of those that were at work when it began.
FallbackDoesNotFeedItself ==
  [][coolingFor' > coolingFor => \E t \in Turn : mode[t] = "evented_v2" /\ mode'[t] = "none"]_rolloutVars

\* When evented_v2 turns no longer fail, the fallback is over for good, though the
\* failures of before stay in the window and each end of a turn looks at all of it.
FallbackEnds == <>[](~Active)

\* A fallback has a reason, does not prolong itself, and passes.
FallbackPasses == [](TypeOK /\ FallbackHasItsReason) /\ FallbackDoesNotFeedItself /\ FallbackEnds
=============================================================================
