----------------------------- MODULE BreakerCalls -----------------------------
(***************************************************************************)
(* Overlapping calls of CircuitBreaker.execute(primaryFn, fallbackFn).     *)
(* A call is one activation of the async function; JavaScript runs it      *)
(* without interruption up to the await of its primary or of its fallback, *)
(* so a step of a call is what it does between two awaits.  A call that    *)
(* has returned may be made again.                                         *)
(***************************************************************************)
EXTENDS CircuitBreaker

CONSTANT Call     \* the activations that may be under way at the same time

VARIABLE call     \* where each one is

callVars == <<breakerVars, call>>

Where == {"idle", "primary", "fallback"}

TypeOK == BreakerTypeOK /\ call \in [Call -> Where]

CallsInit == BreakerInit /\ call = [c \in Call |-> "idle"]

MoveTo(c, to) == call' = [call EXCEPT ![c] = to]

\* The cooldown is over, or the breaker is not OPEN: the primary starts.
TryPrimary(c) ==
  /\ call[c] = "idle"
  /\ Admit
  /\ MoveTo(c, "primary")

\* The breaker is OPEN and cooling down: only the fallback runs.
TurnAway(c) ==
  /\ call[c] = "idle"
  /\ CoolingDown
  /\ MoveTo(c, "fallback")
  /\ UNCHANGED breakerVars

\* The primary settles; the breaker is in whatever state it reached meanwhile.
PrimarySucceeds(c) ==
  /\ call[c] = "primary"
  /\ OnSuccess
  /\ MoveTo(c, "idle")

\* The error is counted, then the fallback runs; without one, the call throws.
PrimaryFails(c) ==
  /\ call[c] = "primary"
  /\ OnFailure
  /\ \E to \in {"fallback", "idle"} : MoveTo(c, to)

FallbackReturns(c) ==
  /\ call[c] = "fallback"
  /\ MoveTo(c, "idle")
  /\ UNCHANGED breakerVars

Tick == TickBreaker /\ UNCHANGED call

Reset == ResetBreaker /\ UNCHANGED call

CallsNext ==
  \/ \E c \in Call :
       TryPrimary(c) \/ TurnAway(c) \/ PrimarySucceeds(c) \/ PrimaryFails(c) \/ FallbackReturns(c)
  \/ Tick
  \/ Reset

CallsSpec == CallsInit /\ [][CallsNext]_callVars

-----------------------------------------------------------------------------
SomeSuccess == \E c \in Call : PrimarySucceeds(c)
NoFailure == \A c \in Call : ~PrimaryFails(c)

\* Once the broker fails no more and calls keep succeeding, the breaker ends up
\* CLOSED for good, from every mixture of counts and of calls begun before the
\* outage.  No fairness is needed: the premise says that calls keep coming.
Recovers ==
  []<><<SomeSuccess>>_callVars /\ <>[][NoFailure]_callVars => <>[](state = "CLOSED")
=============================================================================
