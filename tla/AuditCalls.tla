------------------------------ MODULE AuditCalls ------------------------------
(***************************************************************************)
(* Any number of overlapping calls of the two log methods of one           *)
(* ImmutableAuditLog (AuditLog), each made once.                           *)
(***************************************************************************)
EXTENDS AuditLog

LogCall(e) ==
  \/ \E what \in Content : BeginLog(e, what)
  \/ Chain(e)
  \/ HashFails(e)
  \/ PostSettles(e)

LogNext == \E e \in Entry : LogCall(e)

LogSpec == AuditInit /\ [][LogNext]_auditVars

-----------------------------------------------------------------------------
\* The log as a bare hash chain.
ChainOf(log) ==
  [i \in 1..Len(log) |-> [id |-> log[i].id, previousHash |-> log[i].previousHash]]

Ledger == INSTANCE HashChain WITH chain <- ChainOf(localLog), head <- lastHash

\* verifyChainIntegrity() finds the log valid at every moment, and the next
\* record will be linked to the last one, however the calls interleave.
ChainLinked == Ledger!Linked

\* The log only grows, one linked record at a time, and records no call twice:
\* it implements the ledger's promise.
KeepsLedgerPromise == Ledger!Spec

\* The part of the runbook's schema that the code keeps: a record's hash is
\* taken over the hash of some record BEFORE it (or genesis), never of itself,
\* of a later one, or of one that is not in the log.
CoversEarlierRecord ==
  \A i \in 1..Len(localLog) :
    covers[localLog[i].id] \in {Genesis} \cup {localLog[j].id : j \in 1..(i - 1)}

\* "Each log entry satisfies: Hash_n = SHA-256(JSON(Entry_n) + Hash_n-1)"
\* (docs/COMPLIANCE_RUNBOOK.md:38-39): a record's hash covers the very hash that
\* its previousHash names.  Two calls whose digests overlap break it, because
\* lastHash is read once before the await and again after it.
HashCoversPrevious ==
  \A i \in 1..Len(localLog) : covers[localLog[i].id] = localLog[i].previousHash
=============================================================================
