---------------------------- MODULE CircuitBreaker ----------------------------
(***************************************************************************)
(* The broker circuit breaker, class CircuitBreaker of                     *)
(* src/services/brokers/circuitBreaker.js: its fields and what each of its *)
(* methods does to them between two awaits.  The clients that call         *)
(* execute() are in BreakerCalls and OrderRouting.                         *)
(*                                                                         *)
(* Two abstractions of data, both exact for what the code decides:         *)
(*  - the code only asks whether Date.now() - lastFailureTime > timeout, so *)
(*    "elapsed" is that difference in ticks, held at Timeout + 1 once it is *)
(*    over; a null lastFailureTime (a huge difference) is Timeout + 1 too;  *)
(*  - failureCount is only compared with the threshold from below, so it is *)
(*    held at FailureThreshold.                                            *)
(* Listeners (onStateChange, notify) are not modelled: nobody registers    *)
(* one.                                                                    *)
(***************************************************************************)
EXTENDS Naturals

CONSTANTS
  FailureThreshold,   \* consecutive failures that open the breaker
  SuccessThreshold,   \* successes in HALF_OPEN that close it
  Timeout             \* the cooldown, in ticks of the clock

ASSUME BreakerAssumption ==
  /\ FailureThreshold \in Nat \ {0}
  /\ SuccessThreshold \in Nat \ {0}
  /\ Timeout \in Nat \ {0}

VARIABLES
  state,          \* "CLOSED", "OPEN" or "HALF_OPEN"
  failureCount,
  successCount,
  elapsed         \* Date.now() - lastFailureTime

breakerVars == <<state, failureCount, successCount, elapsed>>

State == {"CLOSED", "OPEN", "HALF_OPEN"}

BreakerTypeOK ==
  /\ state \in State
  /\ failureCount \in 0..FailureThreshold
  /\ successCount \in 0..(SuccessThreshold - 1)
  /\ elapsed \in 0..(Timeout + 1)

BreakerInit ==
  /\ state = "CLOSED"
  /\ failureCount = 0
  /\ successCount = 0
  /\ elapsed = Timeout + 1

-----------------------------------------------------------------------------
\* execute() turns a call away while the breaker is OPEN and cooling down.
CoolingDown == state = "OPEN" /\ elapsed <= Timeout

\* execute() lets a call through to its primary.  The first one after the
\* cooldown moves OPEN to HALF_OPEN; nothing limits how many follow it there.
AdmitForgetsHalfOpen == ~CoolingDown /\ UNCHANGED breakerVars

Admit ==
  /\ ~CoolingDown
  /\ state' = IF state = "OPEN" THEN "HALF_OPEN" ELSE state
  /\ UNCHANGED <<failureCount, successCount, elapsed>>

\* onSuccess(), whatever the state was when the call began.
LateSuccessCloses ==
  /\ state' = "CLOSED"
  /\ failureCount' = 0
  /\ successCount' = 0
  /\ UNCHANGED elapsed

ConfirmRecovery ==
  /\ state = "HALF_OPEN"
  /\ successCount + 1 >= SuccessThreshold
  /\ state' = "CLOSED"
  /\ failureCount' = 0
  /\ successCount' = 0

CountProbePastThreshold ==
  /\ state = "HALF_OPEN"
  /\ successCount' = successCount + 1
  /\ UNCHANGED <<state, failureCount>>

CountProbe ==
  /\ state = "HALF_OPEN"
  /\ successCount + 1 < SuccessThreshold
  /\ successCount' = successCount + 1
  /\ UNCHANGED <<state, failureCount>>

ForgiveFailures ==
  /\ state # "HALF_OPEN"
  /\ failureCount' = 0
  /\ UNCHANGED <<state, successCount>>

OnSuccess ==
  /\ ConfirmRecovery \/ CountProbe \/ ForgiveFailures
  /\ UNCHANGED elapsed

\* onFailure(err): any failure, in any state, restarts the cooldown.
OnFailureOffByOne ==
  /\ elapsed' = 0
  /\ failureCount' = IF failureCount < FailureThreshold THEN failureCount + 1 ELSE failureCount
  /\ state' = IF state = "HALF_OPEN" \/ failureCount >= FailureThreshold THEN "OPEN" ELSE state
  /\ UNCHANGED successCount

OnFailure ==
  /\ elapsed' = 0
  /\ failureCount' = IF failureCount < FailureThreshold THEN failureCount + 1 ELSE failureCount
  /\ state' = IF state = "HALF_OPEN" \/ failureCount + 1 >= FailureThreshold
                THEN "OPEN" ELSE state
  /\ UNCHANGED successCount

\* reset()
ResetBreaker ==
  /\ state' = "CLOSED"
  /\ failureCount' = 0
  /\ successCount' = 0
  /\ elapsed' = Timeout + 1

\* The wall clock moves on.
TickBreaker ==
  /\ elapsed <= Timeout
  /\ elapsed' = elapsed + 1
  /\ UNCHANGED <<state, failureCount, successCount>>

-----------------------------------------------------------------------------
\* A CLOSED breaker has seen fewer failures than its threshold since the last
\* success: whatever the order in which overlapping calls answer, it never sits
\* closed on a count that should have tripped it (onSuccess, onFailure).
ClosedBelowThreshold == state = "CLOSED" => failureCount < FailureThreshold

\* Only a probing breaker closes: a success that arrives late, from a call made
\* before the trip, never takes OPEN to CLOSED (the documented cycle CLOSED ->
\* OPEN -> HALF_OPEN -> CLOSED, circuitBreaker.js:3), and a breaker reopens or
\* closes but never goes back to HALF_OPEN from CLOSED.  reset() is the one
\* other way to CLOSED; it also clears the failure time.
DocumentedCycle ==
  [][ \/ <<state, state'>> \in {<<"CLOSED", "OPEN">>, <<"OPEN", "HALF_OPEN">>,
                                <<"HALF_OPEN", "OPEN">>, <<"HALF_OPEN", "CLOSED">>}
      \/ ResetBreaker ]_state
=============================================================================
