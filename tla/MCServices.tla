----------------------------- MODULE MCServices ------------------------------
(***************************************************************************)
(* Six parts that share no state: corpgraph's API with its loader, its     *)
(* collector, entity resolution and console, and the client's breaker and  *)
(* audit log.  Each behaviour runs one of them, the others rest.           *)
(*                                                                         *)
(* The breaker has three calls, the failure threshold 3 and the success    *)
(* threshold 2 of tests/phase3ResilienceAndMonitoring.test.mjs:33, so      *)
(* every call begun while CLOSED may answer after the trip.  Four calls of *)
(* the log leave a digest under way while others start, append and return  *)
(* on both sides of it.                                                    *)
(***************************************************************************)
EXTENDS CorpGraph, WikidataCollector, EntityResolution, NetworkConsole, BreakerCalls, AuditCalls

VARIABLE focus

\* Records that match, conflict, bridge, or share a number without matching;
\* the names are "acme", "acme motors" and "zeta".
MCDescription ==
  [name : {<<1>>, <<1, 2>>}, place : {"de"}, number : {"", "1", "2"}, year : {""}]
  \cup [name : {<<3>>}, place : {"uk"}, number : {"", "1"}, year : {""}]
  \cup [name : {<<1>>}, place : {""}, number : {"", "1", "2"}, year : {"2001", "2002"}]

\* A flagged person that is linked to one company, in both orders of the links;
\* and an answer that may lack its center.
MCNetworks ==
  {[nodes |-> {"b"}, links |-> <<>>, flagged |-> {}]}
  \cup {[nodes |-> {"a", "b", "p"}, links |-> l, flagged |-> {"p"}] :
     l \in {<<>>, <<<<"a", "b">>, <<"p", "b">>>>, <<<<"p", "b">>, <<"a", "b">>>>}}

CollectorRests ==
  /\ declared = {} /\ officer = {} /\ gone = {} /\ retired = {} /\ depth = 1 /\ cap = 2
  /\ stage = "rests" /\ level = 0 /\ attempt = 0
  /\ entities = {} /\ frontier = {} /\ snapshotOf = Nothing

ResolutionRests ==
  /\ records = [i \in Index |-> CHOOSE d \in MCDescription : TRUE]
  /\ root = [i \in Index |-> i] /\ todo = {}
  /\ links = {} /\ rewritten = {} /\ resolution = "rests"

MCInit ==
  /\ focus \in {"api", "collector", "resolution", "console", "breaker", "audit"}
  /\ CorpGraphInit /\ ConsoleInit /\ CallsInit
  /\ IF focus = "audit" THEN AuditInit ELSE AuditInit /\ webCrypto = FALSE
  /\ IF focus = "collector" THEN CollectorInit ELSE CollectorRests
  /\ IF focus = "resolution" THEN ResolutionInit ELSE ResolutionRests

graphSide == <<vars, collectorVars, resolutionVars, consoleVars>>
clientSide == <<callVars, auditVars>>

MCNext ==
  /\ UNCHANGED focus
  /\ \/ UNCHANGED clientSide /\
        \/ focus = "api" /\ CorpGraphNext /\ UNCHANGED <<collectorVars, resolutionVars, consoleVars>>
        \/ focus = "collector" /\ CollectorNext /\ UNCHANGED <<vars, resolutionVars, consoleVars>>
        \/ focus = "resolution" /\ ResolutionNext /\ UNCHANGED <<vars, collectorVars, consoleVars>>
        \/ focus = "console" /\ ConsoleNext /\ UNCHANGED <<vars, collectorVars, resolutionVars>>
     \/ focus = "breaker" /\ CallsNext /\ UNCHANGED <<graphSide, auditVars>>
     \/ focus = "audit" /\ LogNext /\ UNCHANGED <<graphSide, callVars>>

MCSpec ==
  MCInit /\ [][MCNext]_<<focus, graphSide, clientSide>> /\ CorpGraphFairness
=============================================================================
