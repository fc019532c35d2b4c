---------------------------- MODULE PaperControls ----------------------------
(***************************************************************************)
(* The controls of paper trading: paperOrderManager.js (idempotency keys,  *)
(* reservations, kill switch), fourEyesApproval.js and                     *)
(* signedPolicySnapshot.js.                                                *)
(* Each call runs to its end; hazards are in the order of calls.           *)
(***************************************************************************)
EXTENDS Integers, FiniteSets, FiniteSetsExt

CONSTANTS
  OrderKey,     \* clientRequestId; the order ids of the four-eyes approval
  Amount,       \* notionals, of orders that a caller may get wrong
  CashLimit, Threshold4,  \* limit; the notional above which two people are needed
  Person,
  Window,       \* windowMs, in ticks
  Version,      \* of the policy
  MaxTicks      \* bound

NoRecord == [status |-> "none"]
NoVersion == 0

ASSUME PaperAssumption ==
  /\ Amount \subseteq Int /\ CashLimit \in Nat /\ Threshold4 \in Int
  /\ Window \in Int /\ MaxTicks \in Int /\ NoVersion \notin Version

VARIABLES
  killed,       \* killSwitch
  cash,         \* reserved
  orders,       \* the accepted commands: [key, amount]
  answers,      \* what accept() answered: [key, status, amount]
  records,      \* the four-eyes records, by key; "none" before
  now,
  given,        \* the approvals given: a record with its approver and time
  snapshot, required,   \* the version that is published; the version required
  invalidated   \* the version named by an invalidation since that publication

paperVars == <<killed, cash, orders, answers, records, now, given, snapshot, required, invalidated>>

PaperInit ==
  /\ killed = FALSE /\ cash = 0 /\ orders = {} /\ answers = {}
  /\ records = [k \in OrderKey |-> NoRecord] /\ now = 0 /\ given = {}
  /\ snapshot = NoVersion /\ required = NoVersion /\ invalidated = NoVersion

approvalVars == <<records, now, given>>
policyVars == <<snapshot, required, invalidated>>
orderVars == <<killed, cash, orders, answers>>

Replied(k, s, n) == answers' = answers \cup {[key |-> k, status |-> s, amount |-> n]}
Rejected(k, reason) == Replied(k, reason, 0) /\ UNCHANGED <<cash, orders>>

\* accept: the kill switch comes before the key, the key before the amount.
Accept(k, a) ==
  LET same == {o \in orders : o.key = k}
  IN /\ \/ killed /\ Rejected(k, "halted")
        \/ ~killed /\ \E o \in same : Replied(k, "accepted", o.amount) /\ UNCHANGED <<cash, orders>>
        \/ ~killed /\ same = {} /\ a <= 0 /\ Rejected(k, "invalid")
        \/ ~killed /\ same = {} /\ a > 0 /\ cash + a > CashLimit /\ Rejected(k, "limit")
        \/ /\ ~killed /\ same = {} /\ a > 0 /\ cash + a <= CashLimit
           /\ Replied(k, "accepted", a) /\ cash' = cash + a
           /\ orders' = orders \cup {[key |-> k, amount |-> a]}
     /\ UNCHANGED <<killed, approvalVars, policyVars>>

KillSwitch(on) ==
  /\ killed' = on /\ UNCHANGED <<cash, orders, answers, approvalVars, policyVars>>

\* A slip in reach of this code: an approval outlives its submission.
ResubmitApproved(k, a, who) ==
  /\ records' = [records EXCEPT ![k] =
       [status |-> IF a > Threshold4 /\ records[k].status # "APPROVED" THEN "PENDING" ELSE "APPROVED",
        required |-> a > Threshold4, amount |-> a, submitter |-> who, expires |-> now + Window]]
  /\ UNCHANGED <<now, given, orderVars, policyVars>>

\* submit() replaces a record with the same id, and its approval.
SubmitForApproval(k, a, who) ==
  /\ records' = [records EXCEPT ![k] =
       [status |-> IF a > Threshold4 THEN "PENDING" ELSE "APPROVED", required |-> a > Threshold4,
        amount |-> a, submitter |-> who, expires |-> now + Window]]
  /\ UNCHANGED <<now, given, orderVars, policyVars>>

\* scoped: whether the approver is allowed the record's entity.
Approve(k, who, scoped) ==
  LET r == records[k]
  IN /\ r.status # "none"
     /\ IF ~r.required \/ r.submitter = who \/ ~scoped \/ now >= r.expires
        THEN UNCHANGED <<records, given>>
        ELSE /\ records' = [records EXCEPT ![k].status = "APPROVED"]
             /\ given' = given \cup {[key |-> k, amount |-> r.amount, submitter |-> r.submitter,
                                      approver |-> who, expires |-> r.expires, at |-> now]}
     /\ UNCHANGED <<now, orderVars, policyVars>>

ApprovalClock ==
  /\ now < MaxTicks /\ now' = now + 1 /\ UNCHANGED <<records, given, orderVars, policyVars>>

PublishPolicy(v) ==
  /\ snapshot' = v /\ required' = v /\ invalidated' = NoVersion
  /\ UNCHANGED <<orderVars, approvalVars>>

InvalidatePolicy(v) ==
  /\ required' = v /\ invalidated' = v
  /\ snapshot' = IF snapshot = v THEN v ELSE NoVersion
  /\ UNCHANGED <<orderVars, approvalVars>>

\* validate, of an unexpired snapshot whose signature, subject and scope are right.
Valid4 == snapshot # NoVersion /\ required = snapshot

OrdersNext == (\E k \in OrderKey, a \in Amount : Accept(k, a)) \/ \E on \in BOOLEAN : KillSwitch(on)

ApprovalsNext ==
  \/ (\E k \in OrderKey, a \in Amount, who \in Person : SubmitForApproval(k, a, who))
  \/ (\E k \in OrderKey, who \in Person, scoped \in BOOLEAN : Approve(k, who, scoped))
  \/ ApprovalClock

PolicyNext == \E v \in Version : PublishPolicy(v) \/ InvalidatePolicy(v)

PaperSpec == PaperInit /\ [][OrdersNext \/ ApprovalsNext \/ PolicyNext]_paperVars

Total(accepted) == MapThenSumSet(LAMBDA o : o.amount, accepted)

-----------------------------------------------------------------------------
(* However calls are repeated and halts come and go: what is reserved is   *)
(* the sum of the accepted orders, within the limit, and a key is always   *)
(* answered with one and the same order; an order above the threshold is   *)
(* approved only by another person, within the window, and for the very    *)
(* submission that stands; and after an invalidation no snapshot of        *)
(* another version is valid until one is published.                        *)
ControlsHold ==
  /\ cash = Total(orders) /\ cash <= CashLimit
  /\ \A x, y \in answers : x.status = "accepted" /\ y.status = "accepted" /\ x.key = y.key => x = y
  /\ \A k \in OrderKey : records[k].status = "APPROVED" /\ records[k].required =>
       \E g \in given : /\ g.key = k /\ g.amount = records[k].amount
                        /\ g.submitter = records[k].submitter /\ g.approver # g.submitter
                        /\ g.expires = records[k].expires /\ g.at < g.expires
  /\ invalidated # NoVersion /\ Valid4 => snapshot = invalidated
=============================================================================
