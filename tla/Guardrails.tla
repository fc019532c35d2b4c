------------------------------ MODULE Guardrails ------------------------------
(***************************************************************************)
(* The pre-trade guardrails, class LiveExecutionGuardrails of              *)
(* src/services/liveExecutionGuardrails.js, with the operator's switch in  *)
(* components/Terminal/OrderTicket.jsx.  An order is the set of limits it  *)
(* breaches; validateOrder compares one number with one threshold for each. *)
(***************************************************************************)
VARIABLES
  paused,      \* the emergency kill switch
  refused      \* the orders validateOrder entered in its own auditLog

guardVars == <<paused, refused>>

Limit == {"notional", "dailyLoss", "leverage", "margin", "volatility"}

GuardInit == paused = FALSE /\ refused = {}

\* validateOrder: the errors it collects for an order; none means approved.
Errors(breaches) == breaches \cup (IF paused THEN {"killSwitch"} ELSE {})

\* The record it keeps of an order that is not approved.
NoteRefusal(o) == refused' = refused \cup {o} /\ UNCHANGED paused

\* handleToggleKillSwitch: pauseNewOrders() or resumeOrders().
ToggleKillSwitch == paused' = ~paused /\ UNCHANGED refused
=============================================================================
