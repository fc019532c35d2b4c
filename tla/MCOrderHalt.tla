------------------------------ MODULE MCOrderHalt ------------------------------
(***************************************************************************)
(* OrderRouting beside the endpoint POST /api/audit of server.mjs, which   *)
(* docs/EMERGENCY_RUNBOOK.md:22-27 gives as the second way to halt trading. *)
(***************************************************************************)
EXTENDS OrderRouting

VARIABLE haltPosted   \* whether db.audit holds "EMERGENCY KILL SWITCH ENGAGED VIA CLI"

HaltInit == Init /\ haltPosted = FALSE

\* The handler puts the event at the head of db.audit, saves and answers
\* "logged".  The client reads nothing of it: pauseNewOrders() of the
\* guardrails is called by the order ticket alone.
PostHalt ==
  /\ haltPosted' = TRUE
  /\ UNCHANGED vars

HaltNext == PostHalt \/ (Next /\ UNCHANGED haltPosted)

HaltSpec == HaltInit /\ [][HaltNext]_<<vars, haltPosted>>

\* "2. Engage Kill Switch via API: curl -X POST .../api/audit", then "3. All
\* subsequent order attempts will immediately return ... REJECTED BY GUARDRAILS"
\* (docs/EMERGENCY_RUNBOOK.md:22-29): an order attempt that follows the post is
\* rejected.  The post halts nothing, and the order goes its ordinary way.
HaltByApiStops ==
  [][ \A o \in Order :
        haltPosted /\ pc[o] = "new" /\ pc'[o] # "new" => verdict'[o] = "REJECTED" ]_<<vars, haltPosted>>
=============================================================================
