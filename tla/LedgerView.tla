------------------------------ MODULE LedgerView ------------------------------
(***************************************************************************)
(* ledgerProjector.js and projectionReconciliation.js: events of one       *)
(* account are projected into the reserved cash of its balance row, each   *)
(* in a transaction of its own that also moves the checkpoint.  Batches    *)
(* are sorted, may overlap earlier ones, and end at the first failure.     *)
(***************************************************************************)
EXTENDS Naturals, Integers, Sequences, FiniteSets, SequencesExt

CONSTANTS
  Events,       \* the ledger: a sequence of [type, amount]
  MaxBatches    \* bound: how many batches are delivered

\* An amount is whatever number the payload carries.
ASSUME LedgerAssumption ==
  /\ Events \in Seq([type : {"CashReserved", "CashReleased", "OrderAccepted", "FillReceived"}, amount : Int])
  /\ MaxBatches \in Nat

VARIABLES
  batch,        \* the sequence numbers left of the batch, the least of which is next
  exists, reserved, rowSeq,  \* the row of account_balances_view, its last_event_seq
  checkpoint,   \* projector_checkpoints
  batches,
  inOrder       \* whether every event so far was the one after the checkpoint

projectionVars == <<batch, exists, reserved, rowSeq, checkpoint, batches, inOrder>>

ViewInit ==
  /\ batch = {} /\ batches = 0
  /\ exists = FALSE /\ reserved = 0 /\ rowSeq = 0 /\ checkpoint = 0 /\ inOrder = TRUE

Deliver(numbers) ==
  /\ batch = {} /\ batches < MaxBatches /\ numbers # {} /\ batches' = batches + 1
  /\ batch' = numbers
  /\ UNCHANGED <<exists, reserved, rowSeq, checkpoint, inOrder>>

\* A reservation and an acceptance make the row; a release is an UPDATE, which
\* finds none when nothing has; a fill changes positions only.
MakesRow(e) == e.type \in {"CashReserved", "OrderAccepted"}

Effect(n) == LET e == Events[n] IN
  /\ exists' = (exists \/ MakesRow(e))
  /\ reserved' = CASE e.type = "CashReserved" -> reserved + e.amount
                   [] e.type = "CashReleased" /\ exists -> reserved - e.amount
                   [] OTHER -> reserved
  /\ rowSeq' = IF MakesRow(e) \/ (e.type = "CashReleased" /\ exists) THEN n ELSE rowSeq

\* projectEvents sorts what it is given.  The row is told the event's number, an
\* older one too; the checkpoint only ever grows.
ProjectNext(n) ==
  /\ n \in batch /\ (\A m \in batch : n <= m) /\ batch' = batch \ {n} /\ Effect(n)
  /\ checkpoint' = IF n > checkpoint THEN n ELSE checkpoint
  /\ inOrder' = (inOrder /\ n = checkpoint + 1)
  /\ UNCHANGED batches

\* A slip in reach of this code: the checkpoint is not rolled back.
FailsPastCheckpoint(n) ==
  /\ n \in batch /\ (\A m \in batch : n <= m) /\ batch' = {}
  /\ checkpoint' = IF n > checkpoint THEN n ELSE checkpoint
  /\ UNCHANGED <<exists, reserved, rowSeq, batches, inOrder>>

\* ROLLBACK, and the rest of the batch is not tried.
ProjectionFails(n) ==
  /\ n \in batch /\ (\A m \in batch : n <= m) /\ batch' = {}
  /\ UNCHANGED <<exists, reserved, rowSeq, checkpoint, batches, inOrder>>

LedgerViewNext ==
  \/ \E numbers \in SUBSET DOMAIN Events : Deliver(numbers)
  \/ \E n \in DOMAIN Events : ProjectNext(n) \/ ProjectionFails(n)

ViewSpec == ViewInit /\ [][LedgerViewNext]_projectionVars

\* projectLedger: the sum of the amounts, of whatever type, in a window.
Expected(from, window) ==
  FoldLeft(LAMBDA sum, e : sum + e.amount, 0,
           SubSeq(Events, from + 1, IF from + window > Len(Events) THEN Len(Events) ELSE from + window))

\* reconcileProjection, of this account: the window, when any of it is in the
\* ledger and so names the account, against the whole projection.
Reconciled(from, window) ==
  IF ~exists /\ from < Len(Events) /\ window > 0 THEN "missing"
  ELSE IF exists /\ Expected(from, window) # reserved THEN "drifted" ELSE "matched"

-----------------------------------------------------------------------------
\* What an event makes of the cash that is reserved, and what the first n do.
After(sum, e) ==
  CASE e.type = "CashReserved" -> sum + e.amount
    [] e.type = "CashReleased" -> sum - e.amount
    [] OTHER -> sum

Reserved(n) == FoldLeft(After, 0, SubSeq(Events, 1, n))

\* Each of the first n events that releases comes after one that makes the row.
ReleasesFollow(n) ==
  \A i \in 1 .. n : Events[i].type = "CashReleased" => \E j \in 1 .. (i - 1) : MakesRow(Events[j])

(* However batches overlap, end or fail, the row never claims an event     *)
(* that is past the checkpoint.  Events that are delivered once each and   *)
(* in order leave what the ledger says, unless an account is released      *)
(* before anything made its row, for an UPDATE that finds no row is no     *)
(* error.  Reconciling so much of the ledger as was projected then finds   *)
(* the account missing as long as no event made its row, even where the    *)
(* amounts are 0, and drifted when it was released: the reconciliation     *)
(* adds what the projector takes away.                                     *)
ViewFollowsLedger ==
  /\ rowSeq <= checkpoint
  /\ inOrder /\ ReleasesFollow(checkpoint) =>
       /\ reserved = Reserved(checkpoint)
       /\ checkpoint > 0 => Reconciled(0, checkpoint) =
            IF \A j \in 1 .. checkpoint : ~MakesRow(Events[j]) THEN "missing"
            ELSE IF Expected(0, checkpoint) # Reserved(checkpoint) THEN "drifted" ELSE "matched"
=============================================================================
