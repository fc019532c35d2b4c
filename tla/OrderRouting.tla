----------------------------- MODULE OrderRouting -----------------------------
(***************************************************************************)
(* routeOrderSubmission of src/services/orderRouting.js with everything it *)
(* calls: the guardrails, the circuit breaker, the Alpaca connector with   *)
(* the broker behind it, and the audit log.  Any number of orders is under *)
(* way at once, while the operator works the kill switch and the clock     *)
(* runs.                                                                   *)
(*                                                                         *)
(* An action is what one order does between two awaits.  validateOrder,    *)
(* the breaker's admission and the start of the broker's fetch are one     *)
(* such stretch; so are onFailure and the start of the fallback.           *)
(***************************************************************************)
EXTENDS CircuitBreaker, AuditLog, Guardrails

CONSTANT BreachCase    \* the sets of limits that the orders submitted may breach

ASSUME BreachAssumption == BreachCase \subseteq SUBSET Limit

VARIABLES
  pc,        \* where each order is
  verdict,   \* the receipt made for it so far, named by its venue
  broker,    \* what the broker has seen of it
  keys       \* whether the connector has API keys; it never changes

brokerSide == <<broker, keys>>

vars == <<breakerVars, auditVars, guardVars, pc, verdict, brokerSide>>

\* One log call per order: a second one is made only when the first threw.
Order == Entry

Place == {"new", "atBroker", "recording", "throwing", "answered"}
Filled == {"ALPACA", "FAILOVER", "INTERNAL"}
Recorded == Filled \cup {"REJECTED"}
Verdict == Recorded \cup {"none", "ERROR"}
Seen == {"none", "sent", "accepted", "refused", "sandbox"}

TypeOK ==
  /\ BreakerTypeOK
  /\ AuditTypeOK
  /\ paused \in BOOLEAN /\ refused \subseteq Order
  /\ pc \in [Order -> Place]
  /\ verdict \in [Order -> Verdict]
  /\ broker \in [Order -> Seen]
  /\ keys \in BOOLEAN

Init ==
  /\ BreakerInit /\ AuditInit /\ GuardInit
  /\ pc = [o \in Order |-> "new"]
  /\ verdict = [o \in Order |-> "none"]
  /\ broker = [o \in Order |-> "none"]
  /\ keys \in BOOLEAN

-----------------------------------------------------------------------------
MoveTo(o, place) == pc' = [pc EXCEPT ![o] = place]

Receipt(o, venue) == verdict' = [verdict EXCEPT ![o] = venue]

BrokerSees(o, what) == broker' = [broker EXCEPT ![o] = what] /\ UNCHANGED keys

\* The receipt is made and its audit call begins; the order awaits it.
Record(o, venue) ==
  /\ Receipt(o, venue)
  /\ BeginLog(o, venue)
  /\ MoveTo(o, "recording")

\* The guardrails refuse the order.
Reject(o, breaches) ==
  /\ pc[o] = "new"
  /\ Errors(breaches) # {}
  /\ NoteRefusal(o)
  /\ Record(o, "REJECTED")
  /\ UNCHANGED <<breakerVars, brokerSide>>

\* Approved, destination "internal_sim".
FillInternally(o, breaches) ==
  /\ pc[o] = "new"
  /\ Errors(breaches) = {}
  /\ Record(o, "INTERNAL")
  /\ UNCHANGED <<breakerVars, guardVars, brokerSide>>

\* Approved for Alpaca while the breaker is OPEN: the fallback fills it.
Divert(o, breaches) ==
  /\ pc[o] = "new"
  /\ Errors(breaches) = {}
  /\ CoolingDown
  /\ Record(o, "FAILOVER")
  /\ UNCHANGED <<breakerVars, guardVars, brokerSide>>

\* Approved for Alpaca and let through: the request leaves, or without API
\* keys the connector makes up a confirmation of its own.
Send(o, breaches) ==
  /\ pc[o] = "new"
  /\ Errors(breaches) = {}
  /\ Admit
  /\ MoveTo(o, "atBroker")
  /\ BrokerSees(o, IF keys THEN "sent" ELSE "sandbox")
  /\ UNCHANGED <<auditVars, guardVars, verdict>>

\* The broker acts on a request when it arrives, which may be after the
\* client's connection broke.
BrokerActs(o) ==
  /\ broker[o] = "sent"
  /\ \E what \in {"accepted", "refused"} : BrokerSees(o, what)
  /\ UNCHANGED <<breakerVars, auditVars, guardVars, pc, verdict>>

\* Its confirmation arrives: any 2xx answer becomes a FILLED receipt.
ConfirmAnyStatus(o) ==
  /\ pc[o] = "atBroker"
  /\ broker[o] \in {"accepted", "refused", "sandbox"}
  /\ Record(o, "ALPACA")
  /\ UNCHANGED <<breakerVars, guardVars, brokerSide>>

BrokerConfirms(o) ==
  /\ pc[o] = "atBroker"
  /\ broker[o] \in {"accepted", "sandbox"}
  /\ Record(o, "ALPACA")
  /\ UNCHANGED <<breakerVars, guardVars, brokerSide>>

\* The primary throws: an error status, a broken connection, an unreadable
\* body, or a digest that could not be computed.  execute() counts it and runs
\* the fallback, which fills the order in the simulator.
FailWithoutFallback(o) ==
  /\ pc[o] = "throwing" \/ (pc[o] = "atBroker" /\ keys)
  /\ OnFailure
  /\ Receipt(o, "ERROR")
  /\ MoveTo(o, "answered")
  /\ UNCHANGED <<auditVars, guardVars, brokerSide>>

PrimaryFails(o) ==
  /\ pc[o] = "throwing" \/ (pc[o] = "atBroker" /\ keys)
  /\ OnFailure
  /\ Record(o, "FAILOVER")
  /\ UNCHANGED <<guardVars, brokerSide>>

\* The digest of the order's audit record is back.
AppendRecord(o) ==
  /\ pc[o] = "recording"
  /\ Chain(o)
  /\ UNCHANGED <<breakerVars, guardVars, pc, verdict, brokerSide>>

\* The audit call threw.  Inside the primary that is a failure of the primary;
\* anywhere else the caller of routeOrderSubmission gets the exception.
AnyThrowFailsOver(o) ==
  /\ pc[o] = "recording"
  /\ HashFails(o)
  /\ MoveTo(o, "throwing")
  /\ UNCHANGED <<breakerVars, guardVars, verdict, brokerSide>>

RecordThrows(o) ==
  /\ pc[o] = "recording"
  /\ HashFails(o)
  /\ \/ verdict[o] = "ALPACA" /\ MoveTo(o, "throwing") /\ UNCHANGED verdict
     \/ verdict[o] # "ALPACA" /\ MoveTo(o, "answered") /\ Receipt(o, "ERROR")
  /\ UNCHANGED <<breakerVars, guardVars, brokerSide>>

\* The POST of the record has settled, one way or the other, and the receipt
\* goes back to the caller; a broker fill passes through execute() on its way.
AnswerBeforePost(o) ==
  /\ pc[o] = "recording"
  /\ step[o] \in {"hashing", "posting"}
  /\ step' = [step EXCEPT ![o] = "done"]
  /\ UNCHANGED <<webCrypto, lastHash, localLog, content, covers>>
  /\ IF verdict[o] = "ALPACA" THEN OnSuccess ELSE UNCHANGED breakerVars
  /\ MoveTo(o, "answered")
  /\ UNCHANGED <<guardVars, verdict, brokerSide>>

Answer(o) ==
  /\ pc[o] = "recording"
  /\ PostSettles(o)
  /\ IF verdict[o] = "ALPACA" THEN OnSuccess ELSE UNCHANGED breakerVars
  /\ MoveTo(o, "answered")
  /\ UNCHANGED <<guardVars, verdict, brokerSide>>

Operator ==
  /\ ToggleKillSwitch
  /\ UNCHANGED <<breakerVars, auditVars, pc, verdict, brokerSide>>

Tick ==
  /\ TickBreaker
  /\ UNCHANGED <<auditVars, guardVars, pc, verdict, brokerSide>>

Submit(o) ==
  \E breaches \in BreachCase :
    \/ Reject(o, breaches)
    \/ FillInternally(o, breaches)
    \/ Divert(o, breaches)
    \/ Send(o, breaches)

\* What is not the caller's, the broker's or the operator's to do.
Proceed(o) ==
  BrokerConfirms(o) \/ PrimaryFails(o) \/ AppendRecord(o) \/ RecordThrows(o) \/ Answer(o)

Next ==
  \/ \E o \in Order : Submit(o) \/ BrokerActs(o) \/ Proceed(o)
  \/ Operator
  \/ Tick

\* Every await settles: a fetch ends in a response or an error, a digest is
\* computed or fails.  Nobody has to submit, halt, or answer as the broker.
Spec ==
  /\ Init
  /\ [][Next]_vars
  /\ \A o \in Order : WF_vars(Proceed(o))

-----------------------------------------------------------------------------
Promise == INSTANCE OrderLifecycle WITH
  Outcome <- Recorded,
  ledger <- [i \in 1..Len(localLog) |->
               [order |-> localLog[i].id, outcome |-> localLog[i].content]],
  answer <- [o \in Order |-> IF pc[o] = "answered" THEN verdict[o] ELSE "none"]

\* Routing keeps the order lifecycle's promise: no receipt reaches a caller
\* before its record is in the audit log, the record says what the receipt
\* says, and a failed-over order is recorded once, not once per attempt.
KeepsOrderPromise == Promise!Spec

\* A receipt names where the order went: one from ALPACA is of an order the
\* broker accepted (or, on a connector without keys, the sandbox did), and an
\* order rejected or filled by the direct simulator has never been sent to the
\* broker.  (A FAILOVER receipt promises nothing of the kind: see
\* FailoverMeansOutage.)
VenueIsHonest ==
  \A o \in Order :
    /\ verdict[o] = "ALPACA" => broker[o] = IF keys THEN "accepted" ELSE "sandbox"
    /\ verdict[o] \in {"REJECTED", "INTERNAL"} => broker[o] = "none"

\* The guardrails' own log and the order's fate agree: an order they refused is
\* never filled anywhere, whatever fails later, and no other order is rejected.
RefusalIsFinal ==
  \A o \in Order :
    /\ o \in refused => verdict[o] \in {"REJECTED", "ERROR"} /\ broker[o] = "none"
    /\ verdict[o] = "REJECTED" => o \in refused

\* "Zero order loss" (docs/EMERGENCY_RUNBOOK.md:41), "0 dropped trades during
\* external broker disconnects" (docs/phase2/CONNECTIVITY_AUDIT_REPORT.md:101):
\* an approved order is in the end answered with a fill, whatever the broker
\* and the breaker do, on a page that can compute digests.
ZeroOrderLoss ==
  \A o \in Order :
    (webCrypto /\ pc[o] # "new" /\ o \notin refused)
      ~> (pc[o] = "answered" /\ verdict[o] \in Filled)

\* "Fallback: Internal Paper Trading Engine on Broker Outage"
\* (src/services/orderRouting.js:62): the simulator fills an order in the
\* broker's place only when the broker has not dealt with it.  The code fails
\* over on every error, also on a refusal and on the lost answer to an order
\* that was accepted, which is then filled twice.
FailoverMeansOutage ==
  \A o \in Order :
    verdict[o] = "FAILOVER" => broker[o] \notin {"accepted", "refused"}
=============================================================================
