--------------------------- MODULE OrderRoutingProofs ---------------------------
(***************************************************************************)
(* What holds of order routing for any number of orders, any set of        *)
(* breaches and any thresholds. VenueIsHonest and RefusalIsFinal say where *)
(* an order may have been, given its receipt; they are inductive once it   *)
(* is known how far an order can be without a receipt (Itinerary) and      *)
(* which answers a connector with or without keys can get (KeysDecide).    *)
(***************************************************************************)
EXTENDS OrderRouting, TLAPS

RouteTypeOK ==
  /\ paused \in BOOLEAN /\ refused \subseteq Order
  /\ pc \in [Order -> Place]
  /\ verdict \in [Order -> Verdict]
  /\ broker \in [Order -> Seen]
  /\ keys \in BOOLEAN

\* Before its receipt an order is new or at the broker; only a broker fill
\* can be on its way to the fallback.
Itinerary ==
  \A o \in Order :
    /\ pc[o] = "new" => verdict[o] = "none" /\ broker[o] = "none"
    /\ pc[o] = "atBroker" => verdict[o] = "none"
    /\ pc[o] = "throwing" => verdict[o] = "ALPACA"

\* Only a connector with keys reaches the broker; only one without makes up a
\* confirmation.
KeysDecide ==
  \A o \in Order :
    /\ broker[o] \in {"sent", "accepted", "refused"} => keys
    /\ broker[o] = "sandbox" => ~keys

IInv == RouteTypeOK /\ Itinerary /\ KeysDecide /\ VenueIsHonest /\ RefusalIsFinal

-----------------------------------------------------------------------------
\* The routing state alone: types, itinerary, venues, refusals.
THEOREM Invariance == Spec => []IInv
<1> USE DEF Order
<1>1. Init => IInv
  BY DEF Init, GuardInit, IInv, RouteTypeOK, Itinerary, KeysDecide, VenueIsHonest,
         RefusalIsFinal, Place, Verdict, Recorded, Filled, Seen
<1>2. IInv /\ [Next]_vars => IInv'
  <2> SUFFICES ASSUME IInv, [Next]_vars PROVE IInv'
    OBVIOUS
  <2> USE DEF IInv, RouteTypeOK, Itinerary, KeysDecide, VenueIsHonest, RefusalIsFinal,
              Place, Verdict, Recorded, Filled, Seen, MoveTo, Receipt, BrokerSees, Record, brokerSide
  <2>0. CASE UNCHANGED vars
    BY <2>0 DEF vars, guardVars, brokerSide
  <2> SUFFICES ASSUME Next PROVE IInv'
    BY <2>0
  <2>1. ASSUME NEW o \in Order, NEW breaches \in BreachCase, Reject(o, breaches) PROVE IInv'
    BY <2>1 DEF Reject, NoteRefusal
  <2>2. ASSUME NEW o \in Order, NEW breaches \in BreachCase, FillInternally(o, breaches)
        PROVE  IInv'
    BY <2>2 DEF FillInternally, guardVars
  <2>3. ASSUME NEW o \in Order, NEW breaches \in BreachCase, Divert(o, breaches) PROVE IInv'
    BY <2>3 DEF Divert, guardVars
  <2>4. ASSUME NEW o \in Order, NEW breaches \in BreachCase, Send(o, breaches) PROVE IInv'
    BY <2>4 DEF Send, guardVars
  <2>5. ASSUME NEW o \in Order, BrokerActs(o) PROVE IInv'
    BY <2>5 DEF BrokerActs, guardVars
  <2>6. ASSUME NEW o \in Order, BrokerConfirms(o) PROVE IInv'
    BY <2>6 DEF BrokerConfirms, guardVars
  <2>7. ASSUME NEW o \in Order, PrimaryFails(o) PROVE IInv'
    BY <2>7 DEF PrimaryFails, guardVars
  <2>8. ASSUME NEW o \in Order, AppendRecord(o) PROVE IInv'
    BY <2>8 DEF AppendRecord, guardVars
  <2>9. ASSUME NEW o \in Order, RecordThrows(o) PROVE IInv'
    BY <2>9 DEF RecordThrows, guardVars
  <2>10. ASSUME NEW o \in Order, Answer(o) PROVE IInv'
    BY <2>10 DEF Answer, guardVars
  <2>11. CASE Operator
    BY <2>11 DEF Operator, ToggleKillSwitch
  <2>12. CASE Tick
    BY <2>12 DEF Tick, guardVars
  <2> QED
    BY <2>1, <2>2, <2>3, <2>4, <2>5, <2>6, <2>7, <2>8, <2>9, <2>10, <2>11, <2>12
    DEF Next, Submit, Proceed
<1> QED
  BY <1>1, <1>2, PTL DEF Spec

\* A receipt names where its order went, for any number of orders under way.
THEOREM ReceiptsAreHonest == Spec => []VenueIsHonest
  BY Invariance, PTL DEF IInv

\* An order the guardrails refused never reaches a venue, and only such an
\* order is rejected.
THEOREM RefusalsAreFinal == Spec => []RefusalIsFinal
  BY Invariance, PTL DEF IInv

-----------------------------------------------------------------------------
\* An order's audit call runs exactly while the order awaits it, and says what
\* the order's receipt says.
CallMatchesOrder ==
  \A o \in Order :
    /\ pc[o] \in {"new", "atBroker", "throwing"} => step[o] = "idle"
    /\ pc[o] = "recording" =>
         step[o] \in {"hashing", "posting"} /\ verdict[o] \in Recorded /\ content[o] = verdict[o]
    /\ pc[o] = "answered" => step[o] \in {"idle", "done"} /\ verdict[o] # "none"
    /\ pc[o] = "answered" /\ step[o] = "idle" => verdict[o] = "ERROR"

ReceiptRecord == [id : Order, content : Verdict, previousHash : Hash]

\* The log holds the orders whose call came past its digest, each with the
\* receipt the order still has.
LogMatchesCalls ==
  /\ localLog \in Seq(ReceiptRecord)
  /\ lastHash \in Hash
  /\ \A i \in 1..Len(localLog) :
       /\ step[localLog[i].id] \in {"posting", "done"}
       /\ localLog[i].content = verdict[localLog[i].id]
  /\ \A o \in Order :
       step[o] \in {"posting", "done"} => \E i \in 1..Len(localLog) : localLog[i].id = o

RInv ==
  /\ IInv
  /\ step \in [Order -> Step] /\ content \in [Order -> Verdict \cup {"none"}]
  /\ CallMatchesOrder
  /\ LogMatchesCalls

\* The kinds of step, as far as the log and the receipts go.
Waits ==
  /\ UNCHANGED <<auditVars, verdict>>
  /\ \/ UNCHANGED pc
     \/ \E o \in Order : pc[o] = "new" /\ MoveTo(o, "atBroker")

Begins(o) == pc[o] \in {"new", "atBroker", "throwing"} /\ \E venue \in Recorded : Record(o, venue)

Chains(o) == pc[o] = "recording" /\ Chain(o) /\ UNCHANGED <<pc, verdict>>

Throws(o) ==
  /\ pc[o] = "recording"
  /\ HashFails(o)
  /\ \/ verdict[o] = "ALPACA" /\ MoveTo(o, "throwing") /\ UNCHANGED verdict
     \/ MoveTo(o, "answered") /\ Receipt(o, "ERROR")

Answers(o) ==
  pc[o] = "recording" /\ PostSettles(o) /\ MoveTo(o, "answered") /\ UNCHANGED verdict

\* Every step of routing is of one of these kinds.
LEMMA KindsOfStep ==
  ASSUME [Next]_vars
  PROVE  Waits \/ \E o \in Order : Begins(o) \/ Chains(o) \/ Throws(o) \/ Answers(o)
<1>1. CASE UNCHANGED vars
  BY <1>1 DEF vars, Waits
<1>2. CASE Operator \/ Tick
  BY <1>2 DEF Operator, Tick, Waits
<1>3. ASSUME NEW o \in Order, Submit(o)
      PROVE  Waits \/ Begins(o)
  BY <1>3 DEF Submit, Reject, FillInternally, Divert, Send, Waits, Begins, Recorded, Filled
<1>4. ASSUME NEW o \in Order, BrokerActs(o)
      PROVE  Waits
  BY <1>4 DEF BrokerActs, Waits
<1>5. ASSUME NEW o \in Order, Proceed(o)
      PROVE  Begins(o) \/ Chains(o) \/ Throws(o) \/ Answers(o)
  BY <1>5 DEF Proceed, BrokerConfirms, PrimaryFails, AppendRecord, RecordThrows, Answer,
              Begins, Chains, Throws, Answers, Recorded, Filled
<1> QED
  BY <1>1, <1>2, <1>3, <1>4, <1>5 DEF Next

\* The log, the calls and the receipts agree at every moment.
LEMMA LogInvariance == Spec => []RInv
<1> USE DEF Order
<1>1. Init => RInv
  <2> SUFFICES ASSUME Init PROVE RInv
    OBVIOUS
  <2>1. IInv
    BY DEF Init, GuardInit, IInv, RouteTypeOK, Itinerary, KeysDecide, VenueIsHonest,
           RefusalIsFinal, Place, Verdict, Recorded, Filled, Seen
  <2> QED
    BY <2>1 DEF Init, AuditInit, RInv, CallMatchesOrder, LogMatchesCalls, Step, Hash
<1>2. RInv /\ IInv' /\ [Next]_vars => RInv'
  <2> SUFFICES ASSUME RInv, IInv', [Next]_vars PROVE RInv'
    OBVIOUS
  <2>0. /\ pc \in [Order -> Place] /\ verdict \in [Order -> Verdict]
        /\ step \in [Order -> Step] /\ content \in [Order -> Verdict \cup {"none"}]
        /\ localLog \in Seq(ReceiptRecord)
    BY DEF RInv, IInv, RouteTypeOK, LogMatchesCalls
  <2>ids. ASSUME NEW i \in 1..Len(localLog)
         PROVE  localLog[i].id \in Order
    <3>1. localLog[i] \in ReceiptRecord
      BY <2>0
    <3> QED
      BY <3>1 DEF ReceiptRecord
  <2>1. CASE Waits
    BY <2>0, <2>1 DEF Waits, MoveTo, auditVars, RInv, CallMatchesOrder, LogMatchesCalls
  <2>2. ASSUME NEW o \in Order, Begins(o) PROVE RInv'
    <3>1. PICK venue \in Recorded : Record(o, venue)
      BY <2>2 DEF Begins
    <3>2. step[o] = "idle" /\ venue \in Verdict
      BY <2>2 DEF Begins, RInv, CallMatchesOrder, Verdict
    <3>3. /\ pc' = [pc EXCEPT ![o] = "recording"] /\ verdict' = [verdict EXCEPT ![o] = venue]
          /\ step' = [step EXCEPT ![o] = "hashing"] /\ content' = [content EXCEPT ![o] = venue]
          /\ UNCHANGED <<localLog, lastHash>>
      BY <3>1 DEF Record, Receipt, MoveTo, BeginLog
    <3>4. step' \in [Order -> Step] /\ content' \in [Order -> Verdict \cup {"none"}]
      BY <2>0, <3>2, <3>3 DEF Step
    <3>5. CallMatchesOrder'
      BY <2>0, <3>1, <3>3 DEF RInv, CallMatchesOrder
    <3>6. LogMatchesCalls'
      BY <2>0, <3>2, <3>3 DEF RInv, LogMatchesCalls
    <3> QED
      BY <3>4, <3>5, <3>6 DEF RInv
  <2>3. ASSUME NEW o \in Order, Chains(o) PROVE RInv'
    <3> DEFINE record == [id |-> o, content |-> content[o], previousHash |-> lastHash]
    <3>1. /\ localLog' = Append(localLog, record) /\ lastHash' = o
          /\ step' = [step EXCEPT ![o] = "posting"] /\ step[o] = "hashing"
          /\ UNCHANGED <<content, pc, verdict>> /\ pc[o] = "recording"
      BY <2>3 DEF Chains, Chain
    <3>2. content[o] = verdict[o] /\ verdict[o] \in Recorded
      BY <3>1 DEF RInv, CallMatchesOrder
    <3>3. step' \in [Order -> Step] /\ content' \in [Order -> Verdict \cup {"none"}]
      BY <2>0, <3>1 DEF Step
    <3>4. CallMatchesOrder'
      BY <2>0, <3>1 DEF RInv, CallMatchesOrder
    <3>5. LogMatchesCalls'
      <4>1. record \in ReceiptRecord /\ lastHash' \in Hash
        BY <2>0, <3>1, <3>2 DEF RInv, LogMatchesCalls, Hash, Verdict, ReceiptRecord
      <4> HIDE DEF record
      <4>2. /\ localLog' \in Seq(ReceiptRecord)
            /\ Len(localLog') = Len(localLog) + 1
            /\ localLog'[Len(localLog) + 1] = record
            /\ \A i \in 1..Len(localLog) : localLog'[i] = localLog[i] /\ i \in 1..Len(localLog')
            /\ \A i \in 1..Len(localLog') : i \in 1..Len(localLog) \/ i = Len(localLog) + 1
            /\ Len(localLog) + 1 \in 1..Len(localLog')
        BY <2>0, <3>1, <4>1
      <4>3. record.id = o /\ record.content = verdict[o]
        BY <3>2 DEF record
      <4>4. ASSUME NEW i \in 1..Len(localLog')
            PROVE  /\ step'[localLog'[i].id] \in {"posting", "done"}
                   /\ localLog'[i].content = verdict'[localLog'[i].id]
        <5>1. CASE i = Len(localLog) + 1
          BY <2>0, <3>1, <4>2, <4>3, <5>1
        <5>2. CASE i \in 1..Len(localLog)
          <6>1. localLog[i].id \in Order
            BY <2>ids, <5>2
          <6> QED
            BY <2>0, <3>1, <4>2, <5>2, <6>1 DEF RInv, LogMatchesCalls
        <5> QED
          BY <4>2, <5>1, <5>2
      <4>5. ASSUME NEW q \in Order, step'[q] \in {"posting", "done"}
            PROVE  \E i \in 1..Len(localLog') : localLog'[i].id = q
        <5>1. CASE q = o
          BY <4>2, <4>3, <5>1
        <5>2. CASE q # o
          <6>1. PICK i \in 1..Len(localLog) : localLog[i].id = q
            BY <2>0, <3>1, <4>5, <5>2 DEF RInv, LogMatchesCalls
          <6> QED
            BY <4>2, <6>1
        <5> QED
          BY <5>1, <5>2
      <4> QED
        BY <4>1, <4>2, <4>4, <4>5 DEF LogMatchesCalls
    <3> QED
      BY <3>3, <3>4, <3>5 DEF RInv
  <2>4. ASSUME NEW o \in Order, Throws(o) PROVE RInv'
    <3>1. /\ step' = [step EXCEPT ![o] = "idle"] /\ step[o] = "hashing"
          /\ UNCHANGED <<content, localLog, lastHash>> /\ pc[o] = "recording"
          /\ \/ pc' = [pc EXCEPT ![o] = "throwing"] /\ UNCHANGED verdict
             \/ pc' = [pc EXCEPT ![o] = "answered"] /\ verdict' = [verdict EXCEPT ![o] = "ERROR"]
      BY <2>4 DEF Throws, HashFails, MoveTo, Receipt
    <3>2. step' \in [Order -> Step] /\ content' \in [Order -> Verdict \cup {"none"}]
      BY <2>0, <3>1 DEF Step
    <3>3. CallMatchesOrder'
      BY <2>0, <3>1 DEF RInv, CallMatchesOrder
    <3>4. LogMatchesCalls'
      <4>1. ASSUME NEW i \in 1..Len(localLog)
            PROVE  localLog[i].id # o
        BY <3>1 DEF RInv, LogMatchesCalls
      <4>2. ASSUME NEW q \in Order, step'[q] \in {"posting", "done"}
            PROVE  step[q] \in {"posting", "done"}
        BY <2>0, <3>1, <4>2
      <4> QED
        BY <2>0, <2>ids, <3>1, <4>1, <4>2 DEF RInv, LogMatchesCalls
    <3> QED
      BY <3>2, <3>3, <3>4 DEF RInv
  <2>5. ASSUME NEW o \in Order, Answers(o) PROVE RInv'
    <3>1. /\ step' = [step EXCEPT ![o] = "done"] /\ step[o] = "posting"
          /\ UNCHANGED <<content, localLog, lastHash, verdict>> /\ pc[o] = "recording"
          /\ pc' = [pc EXCEPT ![o] = "answered"]
      BY <2>5 DEF Answers, PostSettles, MoveTo
    <3>2. step' \in [Order -> Step] /\ content' \in [Order -> Verdict \cup {"none"}]
      BY <2>0, <3>1 DEF Step
    <3>3. CallMatchesOrder'
      BY <2>0, <3>1 DEF RInv, CallMatchesOrder, Recorded, Filled
    <3>4. LogMatchesCalls'
      BY <2>0, <3>1 DEF RInv, LogMatchesCalls
    <3> QED
      BY <3>2, <3>3, <3>4 DEF RInv
  <2> QED
    BY <2>1, <2>2, <2>3, <2>4, <2>5, KindsOfStep
<1> QED
  BY <1>1, <1>2, Invariance, PTL DEF Spec

LedgerOf(log) == [i \in 1..Len(log) |-> [order |-> log[i].id, outcome |-> log[i].content]]

Ledger == LedgerOf(localLog)

Told == [o \in Order |-> IF pc[o] = "answered" THEN verdict[o] ELSE "none"]

\* The log as the lifecycle's ledger: as long, record for record.
LEMMA LedgerOfLog ==
  ASSUME NEW log \in Seq(ReceiptRecord)
  PROVE  /\ Len(log) \in Nat /\ Len(LedgerOf(log)) = Len(log)
         /\ \A i \in 1..Len(log) : /\ LedgerOf(log)[i].order = log[i].id
                                  /\ LedgerOf(log)[i].outcome = log[i].content
<1>1. Len(log) \in Nat /\ Len(LedgerOf(log)) = Len(log)
  BY DEF LedgerOf
<1> QED
  BY <1>1 DEF LedgerOf

\* A record more in the log is an entry more in the ledger.
LEMMA LedgerAppends ==
  ASSUME NEW log \in Seq(ReceiptRecord), NEW longer \in Seq(ReceiptRecord), NEW o, NEW what,
         Len(longer) = Len(log) + 1,
         \A i \in 1..Len(log) : longer[i] = log[i],
         longer[Len(log) + 1].id = o, longer[Len(log) + 1].content = what
  PROVE  LedgerOf(longer) = Append(LedgerOf(log), [order |-> o, outcome |-> what])
<1>1. Len(log) \in Nat
  OBVIOUS
<1> QED
  BY <1>1 DEF LedgerOf

\* Routing implements the order lifecycle: chaining a record registers it,
\* settling its POST replies with it, a failed digest outside the primary gives
\* up, and every other step leaves ledger and answers alone.
THEOREM ImplementsLifecycle == Spec => KeepsOrderPromise
<1> USE DEF Order
<1>1. Init => Promise!Init
  BY DEF Init, AuditInit, Promise!Init
<1>2. RInv /\ RInv' /\ [Next]_vars => [Promise!Next]_<<Ledger, Told>>
  <2> SUFFICES ASSUME RInv, RInv', [Next]_vars
               PROVE  Promise!Next \/ UNCHANGED <<Ledger, Told>>
    OBVIOUS
  <2>0. /\ pc \in [Order -> Place] /\ verdict \in [Order -> Verdict]
        /\ step \in [Order -> Step] /\ localLog \in Seq(ReceiptRecord)
    BY DEF RInv, IInv, RouteTypeOK, LogMatchesCalls
  <2>len. Len(localLog) \in Nat /\ Len(Ledger) = Len(localLog)
    BY <2>0, LedgerOfLog DEF Ledger, LedgerOf
  <2>rec. ASSUME NEW o \in Order
          PROVE  Promise!RecordsOf(o) = {i \in 1..Len(localLog) : localLog[i].id = o}
    <3>1. Promise!RecordsOf(o) = {i \in 1..Len(Ledger) : Ledger[i].order = o}
      BY DEF Promise!RecordsOf, Ledger, LedgerOf
    <3> QED
      BY <2>len, <3>1 DEF Ledger, LedgerOf
  <2>1. CASE Waits
    <3>1. UNCHANGED <<localLog, verdict>>
      BY <2>1 DEF Waits, auditVars
    <3>2. \A o \in Order : pc'[o] = "answered" <=> pc[o] = "answered"
      BY <2>0, <2>1 DEF Waits, MoveTo
    <3> QED
      BY <3>1, <3>2 DEF Ledger, LedgerOf, Told
  <2>2. ASSUME NEW o \in Order, Begins(o) PROVE UNCHANGED <<Ledger, Told>>
    <3>1. PICK venue \in Recorded : Record(o, venue)
      BY <2>2 DEF Begins
    <3>2. /\ pc' = [pc EXCEPT ![o] = "recording"] /\ verdict' = [verdict EXCEPT ![o] = venue]
          /\ UNCHANGED localLog /\ pc[o] # "answered"
      BY <2>2, <3>1 DEF Begins, Record, Receipt, MoveTo, BeginLog
    <3>3. Told' = Told
      BY <2>0, <3>2 DEF Told
    <3> QED
      BY <3>2, <3>3 DEF Ledger, LedgerOf
  <2>3. ASSUME NEW o \in Order, Chains(o) PROVE Promise!Next
    <3> DEFINE record == [id |-> o, content |-> content[o], previousHash |-> lastHash]
    <3>1. /\ localLog' = Append(localLog, record) /\ step[o] = "hashing"
          /\ UNCHANGED <<pc, verdict>> /\ pc[o] = "recording"
      BY <2>3 DEF Chains, Chain
    <3>2. record.id = o /\ record.content = content[o] /\ content[o] \in Recorded
      BY <3>1 DEF RInv, CallMatchesOrder
    <3> HIDE DEF record
    <3>3. Told[o] = "none" /\ UNCHANGED Told
      BY <3>1 DEF Told
    <3>4. Promise!RecordsOf(o) = {}
      BY <2>rec, <3>1 DEF RInv, LogMatchesCalls
    <3>5. Ledger' = Append(Ledger, [order |-> o, outcome |-> content[o]])
      <4>1. /\ Len(localLog') = Len(localLog) + 1 /\ Len(localLog) \in Nat
            /\ localLog'[Len(localLog) + 1] = record
            /\ \A i \in 1..Len(localLog) : localLog'[i] = localLog[i]
        BY <2>0, <3>1
      <4>2. localLog' \in Seq(ReceiptRecord)
        BY DEF RInv, LogMatchesCalls
      <4> QED
        BY <2>0, <3>2, <4>1, <4>2, LedgerAppends DEF Ledger, LedgerOf
    <3>6. Promise!Register(o, content[o])
      BY <3>3, <3>4, <3>5 DEF Promise!Register, Ledger, LedgerOf, Told
    <3> QED
      BY <3>2, <3>6 DEF Promise!Next, Promise!Register
  <2>4. ASSUME NEW o \in Order, Throws(o) PROVE Promise!Next \/ UNCHANGED <<Ledger, Told>>
    <3>1. /\ step[o] = "hashing" /\ UNCHANGED localLog /\ pc[o] = "recording"
      BY <2>4 DEF Throws, HashFails
    <3>2. CASE pc' = [pc EXCEPT ![o] = "throwing"] /\ UNCHANGED verdict
      <4>1. UNCHANGED Told
        BY <2>0, <3>1, <3>2 DEF Told
      <4> QED
        BY <3>1, <4>1 DEF Ledger, LedgerOf
    <3>3. CASE pc' = [pc EXCEPT ![o] = "answered"] /\ verdict' = [verdict EXCEPT ![o] = "ERROR"]
      <4>1. Promise!RecordsOf(o) = {}
        BY <2>rec, <3>1 DEF RInv, LogMatchesCalls
      <4>2. Told[o] = "none" /\ Told' = [Told EXCEPT ![o] = "ERROR"]
        BY <2>0, <3>1, <3>3 DEF Told, Place, Verdict
      <4>3. Promise!GiveUp(o)
        BY <3>1, <4>1, <4>2 DEF Promise!GiveUp, Told
      <4> QED
        BY <4>3 DEF Promise!Next
    <3> QED
      BY <2>4, <3>2, <3>3 DEF Throws, MoveTo, Receipt
  <2>5. ASSUME NEW o \in Order, Answers(o) PROVE Promise!Next
    <3>1. /\ step[o] = "posting" /\ UNCHANGED <<localLog, verdict>> /\ pc[o] = "recording"
          /\ pc' = [pc EXCEPT ![o] = "answered"]
      BY <2>5 DEF Answers, PostSettles, MoveTo
    <3>2. PICK i \in 1..Len(localLog) : localLog[i].id = o
      BY <3>1 DEF RInv, LogMatchesCalls
    <3>3. localLog[i].content = verdict[o]
      BY <3>2 DEF RInv, LogMatchesCalls
    <3>4. Told[o] = "none" /\ Told' = [Told EXCEPT ![o] = verdict[o]]
      BY <2>0, <3>1 DEF Told
    <3>5. Promise!Reply(o)
      <4>1. i \in Promise!RecordsOf(o) /\ Ledger[i].outcome = verdict[o]
        BY <2>rec, <3>2, <3>3 DEF Ledger, LedgerOf
      <4>2. UNCHANGED Ledger
        BY <3>1 DEF Ledger, LedgerOf
      <4> QED
        BY <3>4, <4>1, <4>2 DEF Promise!Reply, Ledger, LedgerOf, Told
    <3> QED
      BY <3>5 DEF Promise!Next
  <2> QED
    BY <2>1, <2>2, <2>3, <2>4, <2>5, KindsOfStep
<1> QED
  BY <1>1, <1>2, LogInvariance, PTL DEF Spec, KeepsOrderPromise, Promise!Spec, Ledger, LedgerOf, Told
=============================================================================
