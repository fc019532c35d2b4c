------------------------------ MODULE MCAuditHash ------------------------------
(***************************************************************************)
(* AuditCalls with two calls, which is all it takes for digests to overlap. *)
(* What a record says plays no part, so there is one content.              *)
(***************************************************************************)
EXTENDS AuditCalls
=============================================================================
