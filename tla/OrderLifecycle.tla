---------------------------- MODULE OrderLifecycle ----------------------------
(***************************************************************************)
(* What order routing promises its caller and the auditor: an order is     *)
(* answered once; before that its outcome stands in a ledger that only     *)
(* grows and holds one record of it; the answer is the recorded outcome.   *)
(* If the outcome cannot be recorded the caller gets an error instead.     *)
(***************************************************************************)
EXTENDS Sequences, Naturals

CONSTANTS Order, Outcome

VARIABLES
  ledger,    \* the records: [order, outcome]
  answer     \* what each caller was told; "none" while it waits

Init == ledger = <<>> /\ answer = [o \in Order |-> "none"]

RecordsOf(o) == {i \in 1..Len(ledger) : ledger[i].order = o}

Register(o, what) ==
  /\ answer[o] = "none"
  /\ RecordsOf(o) = {}
  /\ ledger' = Append(ledger, [order |-> o, outcome |-> what])
  /\ UNCHANGED answer

Reply(o) ==
  /\ answer[o] = "none"
  /\ \E i \in RecordsOf(o) : answer' = [answer EXCEPT ![o] = ledger[i].outcome]
  /\ UNCHANGED ledger

GiveUp(o) ==
  /\ answer[o] = "none"
  /\ RecordsOf(o) = {}
  /\ answer' = [answer EXCEPT ![o] = "ERROR"]
  /\ UNCHANGED ledger

Next == \E o \in Order : Reply(o) \/ GiveUp(o) \/ \E what \in Outcome : Register(o, what)

Spec == Init /\ [][Next]_<<ledger, answer>>
=============================================================================
