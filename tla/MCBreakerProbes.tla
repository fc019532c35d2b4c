---------------------------- MODULE MCBreakerProbes ----------------------------
(***************************************************************************)
(* BreakerCalls with a history variable that counts, in each stay in       *)
(* HALF_OPEN, the calls that succeeded.  One caller is enough.             *)
(***************************************************************************)
EXTENDS BreakerCalls

VARIABLE probed   \* successes since the breaker last entered HALF_OPEN

probeVars == <<callVars, probed>>

ProbeInit == CallsInit /\ probed = 0

ProbeNext ==
  /\ CallsNext
  /\ probed' = CASE state' = "HALF_OPEN" /\ state # "HALF_OPEN" -> 0
               [] state = "HALF_OPEN" /\ SomeSuccess -> probed + 1
               [] OTHER -> probed

ProbeSpec == ProbeInit /\ [][ProbeNext]_probeVars

\* "Once Alpaca recovers, 2 successful probes restore CLOSED status"
\* (docs/EMERGENCY_RUNBOOK.md:44): a breaker that closes has seen the required
\* number of successes since it last began to probe.  onFailure() leaves
\* successCount alone, so a success of an earlier, failed stay in HALF_OPEN
\* still counts and a single one closes the breaker.
ProbesRestoreClosed ==
  [][ (state = "HALF_OPEN" /\ state' = "CLOSED" /\ ~Reset) => probed' >= SuccessThreshold ]_probeVars
=============================================================================
