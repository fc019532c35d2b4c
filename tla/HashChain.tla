------------------------------ MODULE HashChain ------------------------------
(***************************************************************************)
(* What an audit ledger promises: a sequence that only grows, in which     *)
(* every record points at the one before it and no record appears twice.   *)
(* A record's hash is named by its entry: entries carry unique ids and each *)
(* is hashed into the log once, so SHA-256 being injective is all that is  *)
(* assumed.                                                                *)
(***************************************************************************)
EXTENDS Sequences, Naturals

CONSTANTS
  Entry,     \* what can be recorded
  Genesis    \* the hash before the first record

VARIABLES
  chain,     \* the records: [id, previousHash]
  head       \* the hash of the last record

Init == chain = <<>> /\ head = Genesis

Extend(e) ==
  /\ \A i \in 1..Len(chain) : chain[i].id # e
  /\ chain' = Append(chain, [id |-> e, previousHash |-> head])
  /\ head' = e

Next == \E e \in Entry : Extend(e)

Spec == Init /\ [][Next]_<<chain, head>>

\* What verifyChainIntegrity() and scripts/verify_audit_integrity.mjs test.
Linked ==
  /\ \A i \in 1..Len(chain) :
       chain[i].previousHash = IF i = 1 THEN Genesis ELSE chain[i - 1].id
  /\ head = IF chain = <<>> THEN Genesis ELSE chain[Len(chain)].id
=============================================================================
