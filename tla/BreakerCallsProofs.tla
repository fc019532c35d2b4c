--------------------------- MODULE BreakerCallsProofs ---------------------------
(***************************************************************************)
(* What holds of the circuit breaker for every pair of thresholds, every   *)
(* cooldown and any number of overlapping calls.  BreakerTypeOK and        *)
(* ClosedBelowThreshold are inductive together: a CLOSED breaker stays     *)
(* below its threshold because every failure is counted and compared in    *)
(* one step, and every way back to CLOSED clears the count.                *)
(***************************************************************************)
EXTENDS BreakerCalls, TLAPS

IInv == TypeOK /\ ClosedBelowThreshold

-----------------------------------------------------------------------------
\* Letting a call through keeps the breaker's fields in range (execute).
LEMMA AdmitKeeps ==
  ASSUME BreakerTypeOK, ClosedBelowThreshold, Admit
  PROVE  BreakerTypeOK' /\ ClosedBelowThreshold'
  BY DEF BreakerTypeOK, ClosedBelowThreshold, Admit, State

\* So does a success, at whatever moment it arrives (onSuccess).
LEMMA SuccessKeeps ==
  ASSUME BreakerTypeOK, ClosedBelowThreshold, OnSuccess
  PROVE  BreakerTypeOK' /\ ClosedBelowThreshold'
<1> USE BreakerAssumption DEF BreakerTypeOK, ClosedBelowThreshold, State
<1>0. elapsed' = elapsed
  BY DEF OnSuccess
<1>1. CASE ConfirmRecovery
  BY <1>0, <1>1 DEF ConfirmRecovery
<1>2. CASE CountProbe
  BY <1>0, <1>2 DEF CountProbe
<1>3. CASE ForgiveFailures
  BY <1>0, <1>3 DEF ForgiveFailures
<1> QED
  BY <1>1, <1>2, <1>3 DEF OnSuccess

\* And a failure (onFailure).
LEMMA FailureKeeps ==
  ASSUME BreakerTypeOK, ClosedBelowThreshold, OnFailure
  PROVE  BreakerTypeOK' /\ ClosedBelowThreshold'
<1> USE BreakerAssumption DEF BreakerTypeOK, ClosedBelowThreshold, State, OnFailure
<1>1. elapsed' \in 0..(Timeout + 1) /\ successCount' \in 0..(SuccessThreshold - 1)
  OBVIOUS
<1>2. failureCount' \in 0..FailureThreshold /\ state' \in State
  OBVIOUS
<1>3. ClosedBelowThreshold'
  OBVIOUS
<1> QED
  BY <1>1, <1>2, <1>3

\* And reset() and the clock.
LEMMA ResetAndTickKeep ==
  ASSUME BreakerTypeOK, ClosedBelowThreshold, ResetBreaker \/ TickBreaker
  PROVE  BreakerTypeOK' /\ ClosedBelowThreshold'
  BY BreakerAssumption
  DEF BreakerTypeOK, ClosedBelowThreshold, State, ResetBreaker, TickBreaker

-----------------------------------------------------------------------------
\* The fields of the breaker and the place of every call keep their types, and
\* a CLOSED breaker stays below its threshold: the inductive invariant.
THEOREM Invariance == CallsSpec => []IInv
<1>1. CallsInit => IInv
  BY BreakerAssumption
  DEF CallsInit, BreakerInit, IInv, TypeOK, BreakerTypeOK, ClosedBelowThreshold, State, Where
<1>2. IInv /\ [CallsNext]_callVars => IInv'
  <2> SUFFICES ASSUME IInv, [CallsNext]_callVars PROVE IInv'
    OBVIOUS
  <2> USE DEF IInv, TypeOK
  <2>1. ASSUME NEW c \in Call, TryPrimary(c) PROVE IInv'
    BY <2>1, AdmitKeeps DEF TryPrimary, MoveTo, Where
  <2>2. ASSUME NEW c \in Call, TurnAway(c) PROVE IInv'
    BY <2>2 DEF TurnAway, MoveTo, Where, breakerVars, BreakerTypeOK, ClosedBelowThreshold
  <2>3. ASSUME NEW c \in Call, PrimarySucceeds(c) PROVE IInv'
    BY <2>3, SuccessKeeps DEF PrimarySucceeds, MoveTo, Where
  <2>4. ASSUME NEW c \in Call, PrimaryFails(c) PROVE IInv'
    BY <2>4, FailureKeeps DEF PrimaryFails, MoveTo, Where
  <2>5. ASSUME NEW c \in Call, FallbackReturns(c) PROVE IInv'
    BY <2>5 DEF FallbackReturns, MoveTo, Where, breakerVars, BreakerTypeOK, ClosedBelowThreshold
  <2>6. CASE Tick
    BY <2>6, ResetAndTickKeep DEF Tick
  <2>7. CASE Reset
    BY <2>7, ResetAndTickKeep DEF Reset
  <2>8. CASE UNCHANGED callVars
    BY <2>8 DEF callVars, breakerVars, BreakerTypeOK, ClosedBelowThreshold
  <2> QED
    BY <2>1, <2>2, <2>3, <2>4, <2>5, <2>6, <2>7, <2>8 DEF CallsNext
<1> QED
  BY <1>1, <1>2, PTL DEF CallsSpec

\* The type invariant, for every value of the constants.
THEOREM TypeCorrect == CallsSpec => []TypeOK
  BY Invariance, PTL DEF IInv

\* A CLOSED breaker has seen fewer failures than its threshold since the last
\* success, however many calls overlap.
THEOREM NeverClosedPastThreshold == CallsSpec => []ClosedBelowThreshold
  BY Invariance, PTL DEF IInv

\* Every change of state is a documented one: in particular a success that
\* arrives after the trip never closes an OPEN breaker.
THEOREM OnlyDocumentedChanges == CallsSpec => DocumentedCycle
<1>1. IInv /\ [CallsNext]_callVars =>
        [ \/ <<state, state'>> \in {<<"CLOSED", "OPEN">>, <<"OPEN", "HALF_OPEN">>,
                                    <<"HALF_OPEN", "OPEN">>, <<"HALF_OPEN", "CLOSED">>}
          \/ ResetBreaker ]_state
  <2> SUFFICES ASSUME IInv, [CallsNext]_callVars, state' # state
               PROVE  \/ <<state, state'>> \in {<<"CLOSED", "OPEN">>, <<"OPEN", "HALF_OPEN">>,
                                                <<"HALF_OPEN", "OPEN">>, <<"HALF_OPEN", "CLOSED">>}
                      \/ ResetBreaker
    OBVIOUS
  <2>0. state \in State
    BY DEF IInv, TypeOK, BreakerTypeOK
  <2>1. CASE Admit
    BY <2>0, <2>1 DEF Admit, State
  <2>2. CASE OnSuccess
    BY <2>2 DEF OnSuccess, ConfirmRecovery, CountProbe, ForgiveFailures
  <2>3. CASE OnFailure
    BY <2>0, <2>3 DEF OnFailure, State
  <2>4. Admit \/ OnSuccess \/ OnFailure \/ ResetBreaker
    BY DEF CallsNext, TryPrimary, TurnAway, PrimarySucceeds, PrimaryFails, FallbackReturns,
           Tick, TickBreaker, Reset, callVars, breakerVars
  <2> QED
    BY <2>1, <2>2, <2>3, <2>4
<1> QED
  BY <1>1, Invariance, PTL DEF CallsSpec, DocumentedCycle
=============================================================================
