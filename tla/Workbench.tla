------------------------------ MODULE Workbench ------------------------------
(***************************************************************************)
(* The investigation workbench of App.jsx: the entities and transactions   *)
(* (flows) a page holds, the filters that choose what is shown of them,    *)
(* the selection, the traced route, and batches that are imported.  Cases  *)
(* are in Casework, the blotter and the canvas in FlowViews.               *)
(*                                                                         *)
(* A file is read asynchronously: importBatch compares it with the         *)
(* entities there were when it was chosen, and merges it into those there  *)
(* are when it has been read.  Any number of files may be underway.        *)
(***************************************************************************)
EXTENDS Naturals, Sequences, FiniteSets, SequencesExt, Lists

CONSTANTS
  GivenEntities, GivenFlows,  \* sequences: what every page starts with
  Batch,        \* the files that may be imported: [entities, flows]
  Filter,       \* settings of the controls: [text, risk, severity, flagged]
  NodeCap, FlowCap,   \* MAX_RENDERED_NODES, MAX_RENDERED_EDGES
  MaxImports    \* bound: how many files are imported

\* A flow is [id, source, target, risk, flag]; risk 0 is standard, 1 is
\* elevated and 2 is critical.
Ids(s) == {s[i].id : i \in DOMAIN s}
Ends(f) == {f.source, f.target}

\* What a page starts with refers to entities it has; files are read whatever
\* they hold, once they are lists.
ASSUME WorkbenchAssumption ==
  /\ GivenEntities \in Seq(Range(GivenEntities)) /\ GivenFlows \in Seq(Range(GivenFlows))
  /\ \A f \in Range(GivenFlows) : Ends(f) \subseteq Range(GivenEntities)
  /\ \A i, j \in DOMAIN GivenFlows : GivenFlows[i].id = GivenFlows[j].id => i = j
  /\ \A b \in Batch : b.entities \in Seq(Range(b.entities)) /\ b.flows \in Seq(Range(b.flows))
  /\ NodeCap \in Nat /\ FlowCap \in Nat /\ MaxImports \in Nat

NoChoice == [text |-> "", risk |-> 0, severity |-> "all", flagged |-> FALSE]
FirstFlow == [type |-> "flow", value |-> GivenFlows[1].id]
FirstOrigin == GivenFlows[1].source

VARIABLES
  page,         \* what is on the screen
  role,
  entities, flows,    \* workspace, in the order of insertion
  importing,    \* the files being read, with the entities they are compared with
  imports, intake,    \* how many were chosen; how the last one ended
  filter, selected, traceMode, traceOrigin,
  saved,        \* the view that "Restore view" brings back
  flagged, triaged

dataVars == <<entities, flows, importing, imports, intake>>
viewVars == <<filter, selected, traceMode, traceOrigin>>
workbenchVars == <<page, role, dataVars, viewVars, saved, flagged, triaged>>

Pages == {"terminal", "liquidity", "graph", "blotter", "companies"}
NoView == [active |-> FALSE]

Opens(p, r) ==
  /\ page = p /\ role = r
  /\ entities = GivenEntities /\ flows = GivenFlows
  /\ importing = {} /\ imports = 0 /\ intake = "none"
  /\ filter = NoChoice /\ selected = FirstFlow
  /\ traceMode = TRUE /\ traceOrigin = FirstOrigin
  /\ saved = NoView /\ flagged = {} /\ triaged = {}

WorkbenchInit == Opens("terminal", "Investigator")

-----------------------------------------------------------------------------
Passes(f) ==
  /\ f.risk >= filter.risk
  /\ filter.flagged => f.flag
  /\ filter.severity \in {"all", <<"standard", "elevated", "critical">>[f.risk + 1]}
  /\ filter.text \in {"", f.id} \cup Ends(f)

MatchingFlows == Kept(flows, {f \in Range(flows) : Passes(f)})

CandidateEntities == UNION {Ends(MatchingFlows[i]) : i \in DOMAIN MatchingFlows}

VisibleEntities == Upto(Kept(entities, CandidateEntities), NodeCap)

\* The most critical first; equals keep their order.
ByRisk(s) ==
  LET at(risk) == Kept(s, {f \in Range(s) : f.risk = risk}) IN at(2) \o at(1) \o at(0)

VisibleFlows ==
  LET between == {f \in Range(MatchingFlows) : Ends(f) \subseteq Range(VisibleEntities)}
  IN Upto(ByRisk(Kept(MatchingFlows, between)), FlowCap)

IsAlert(f) == f.risk = 2 \/ f.flag
AlertQueue == ByRisk(Kept(MatchingFlows, {f \in Range(MatchingFlows) : IsAlert(f) /\ f.id \notin triaged}))

\* The selected flow among all that are held, filtered or not.
SelectedFlow == {f \in Range(flows) : selected = [type |-> "flow", value |-> f.id]}

\* The entity of the inspector, and the end of the trace.
Endpoint ==
  IF selected.type = "entity" THEN Range(entities) \cap {selected.value}
  ELSE {f.target : f \in SelectedFlow}

\* findDirectedPath: a queue of partial routes, one to each entity seen.
Extend(route, search, f) ==
  IF f.source # Last(route.nodes) \/ f.target \in search.seen THEN search
  ELSE [queue |-> Append(search.queue, [nodes |-> Append(route.nodes, f.target),
                                        edges |-> Append(route.edges, f.id)]),
        seen  |-> search.seen \cup {f.target}]

\* A route is extended by every flow that leaves its end for somewhere new.
Expand(route, search, among) ==
  LET extended[n \in 0 .. Len(among)] ==
        IF n = 0 THEN search ELSE Extend(route, extended[n - 1], among[n])
  IN extended[Len(among)]

\* The search when the cursor has passed the first n routes: as many as there
\* are entities to reach.
Searched(from, among, n) ==
  LET search[m \in 0 .. n] ==
        IF m = 0 THEN [queue |-> <<[nodes |-> <<from>>, edges |-> <<>>]>>, seen |-> {from}]
        ELSE LET before == search[m - 1]
             IN IF m > Len(before.queue) THEN before ELSE Expand(before.queue[m], before, among)
  IN search[n]

DirectedPath(from, to, among) ==
  LET routes == Searched(from, among, Len(entities)).queue
      hits == {i \in DOMAIN routes : Last(routes[i].nodes) = to}
  IN IF hits = {} THEN [nodes |-> <<>>, edges |-> <<>>]
     ELSE routes[CHOOSE i \in hits : \A j \in hits : i <= j]

Trace ==
  IF traceMode /\ Endpoint # {}
  THEN DirectedPath(traceOrigin, CHOOSE e \in Endpoint : TRUE, VisibleFlows)
  ELSE [nodes |-> <<>>, edges |-> <<>>]

-----------------------------------------------------------------------------
\* What the parts of the screen offer.
OnInvestigation == page \in {"graph", "blotter", "companies"}
OnFlows == page \in {"graph", "blotter"}

\* The navigation, the palette's functions, and the mobile bar.
GoTo(p) ==
  /\ p # page /\ page' = p
  /\ UNCHANGED <<role, dataVars, viewVars, saved, flagged, triaged>>

SwitchRole(r) ==
  /\ r # role /\ role' = r
  /\ UNCHANGED <<page, dataVars, viewVars, saved, flagged, triaged>>

\* The filter rail with its presets and "Reset", and the chips of the banner,
\* which is above every page.
SetFilter(f) ==
  /\ f # filter /\ filter' = f
  /\ OnFlows \/ f = [filter EXCEPT !.severity = f.severity]
  /\ UNCHANGED <<page, role, dataVars, selected, traceMode, traceOrigin, saved, flagged, triaged>>

\* The live news feed pivots to an entity, known or not.
PivotTo(e) ==
  /\ page = "terminal" /\ \E p \in {"graph", "blotter", "companies"} : page' = p
  /\ filter' = [filter EXCEPT !.text = e]
  /\ selected' = [type |-> "entity", value |-> e] /\ traceOrigin' = e
  /\ UNCHANGED <<role, dataVars, traceMode, saved, flagged, triaged>>

Select(what) ==
  /\ OnFlows /\ selected' = what
  /\ UNCHANGED <<page, role, dataVars, filter, traceMode, traceOrigin, saved, flagged, triaged>>

Selectable ==
  {FirstFlow} \cup {[type |-> "flow", value |-> i] : i \in Ids(VisibleFlows) \cup Ids(AlertQueue)}
    \cup {[type |-> "entity", value |-> e] : e \in Range(VisibleEntities) \cup Endpoint}

ToggleTrace ==
  /\ OnInvestigation /\ traceMode' = ~traceMode
  /\ UNCHANGED <<page, role, dataVars, filter, selected, traceOrigin, saved, flagged, triaged>>

\* From the inspector's endpoint.
TraceFrom(e) ==
  /\ OnFlows /\ traceOrigin' = e /\ traceMode' = TRUE
  /\ UNCHANGED <<page, role, dataVars, filter, selected, saved, flagged, triaged>>

View == [active |-> TRUE, filter |-> filter, selected |-> selected,
         traceMode |-> traceMode, traceOrigin |-> traceOrigin]

\* The severity chip is not part of a view.
SaveView ==
  /\ OnInvestigation /\ ~saved.active /\ saved' = View
  /\ UNCHANGED <<page, role, dataVars, viewVars, flagged, triaged>>

RestoreView ==
  /\ OnInvestigation /\ saved.active
  /\ filter' = [saved.filter EXCEPT !.severity = filter.severity]
  /\ selected' = saved.selected
  /\ traceMode' = saved.traceMode /\ traceOrigin' = saved.traceOrigin
  /\ UNCHANGED <<page, role, dataVars, saved, flagged, triaged>>

\* The page is opened anew: React's state is gone, the saved view is not.
Reload ==
  /\ page' = "terminal" /\ role' = "Investigator"
  /\ entities' = GivenEntities /\ flows' = GivenFlows /\ importing' = {} /\ intake' = "none"
  /\ filter' = NoChoice /\ selected' = FirstFlow
  /\ traceMode' = TRUE /\ traceOrigin' = FirstOrigin
  /\ flagged' = {} /\ triaged' = {}
  /\ UNCHANGED <<saved, imports>>

\* Only an Analyst is offered the flag; only the others "Mark triaged".
FlagForReview ==
  /\ OnInvestigation /\ role = "Analyst" /\ selected.value \notin flagged
  /\ flagged' = flagged \cup {selected.value}
  /\ UNCHANGED <<page, role, dataVars, viewVars, saved, triaged>>

ResolveAlert(id) ==
  /\ OnFlows /\ role # "Analyst"
  /\ id \notin triaged /\ \E f \in SelectedFlow : f.id = id /\ IsAlert(f)
  /\ triaged' = triaged \cup {id}
  /\ UNCHANGED <<page, role, dataVars, viewVars, saved, flagged>>

ChooseFile(b) ==
  /\ OnInvestigation /\ role = "Admin" /\ imports < MaxImports
  /\ importing' = importing \cup {[batch |-> b, known |-> Range(entities)]}
  /\ imports' = imports + 1
  /\ UNCHANGED <<page, role, entities, flows, intake, viewVars, saved, flagged, triaged>>

\* Map.set(): a key that is there keeps its place.
Put(held, f) ==
  IF f.id \in Ids(held) THEN [i \in DOMAIN held |-> IF held[i].id = f.id THEN f ELSE held[i]]
  ELSE Append(held, f)

Merge(held, new) ==
  LET merged[n \in 0 .. Len(new)] == IF n = 0 THEN held ELSE Put(merged[n - 1], new[n])
  IN merged[Len(new)]

\* An entity is its key.
MergeEntities(held, new) ==
  LET merged[n \in 0 .. Len(new)] ==
        IF n = 0 THEN held
        ELSE IF new[n] \in Range(merged[n - 1]) THEN merged[n - 1] ELSE Append(merged[n - 1], new[n])
  IN merged[Len(new)]

\* A slip in reach of this code: only the sources are looked up.
ValidSources(file) ==
  \A f \in Range(file.batch.flows) : f.source \in file.known \cup Range(file.batch.entities)

Valid(file) ==
  \A f \in Range(file.batch.flows) : Ends(f) \subseteq file.known \cup Range(file.batch.entities)

BatchRead(file) ==
  /\ file \in importing /\ importing' = importing \ {file}
  /\ IF Valid(file)
     THEN /\ entities' = MergeEntities(entities, file.batch.entities) /\ flows' = Merge(flows, file.batch.flows)
          /\ intake' = "accepted"
     ELSE intake' = "rejected" /\ UNCHANGED <<entities, flows>>
  /\ UNCHANGED <<page, role, imports, viewVars, saved, flagged, triaged>>

\* Not JSON, an unterminated quote, or a file that cannot be read.
BatchUnreadable(file) ==
  /\ file \in importing /\ importing' = importing \ {file} /\ intake' = "rejected"
  /\ UNCHANGED <<page, role, entities, flows, imports, viewVars, saved, flagged, triaged>>

\* Looking around, what may be filed, and the data.
ViewNext ==
  \/ (\E f \in Filter : SetFilter(f)) \/ (\E what \in Selectable : Select(what))
  \/ ToggleTrace \/ (\E e \in Endpoint : TraceFrom(e)) \/ SaveView \/ RestoreView

DutyNext ==
  \/ (\E p \in Pages : GoTo(p)) \/ (\E r \in {"Analyst", "Investigator", "Admin"} : SwitchRole(r))
  \/ (\E e \in Range(GivenEntities) : PivotTo(e)) \/ (\E what \in Selectable : Select(what))
  \/ FlagForReview \/ \E id \in Ids(flows) : ResolveAlert(id)

DataNext ==
  \/ Reload \/ (\E b \in Batch : ChooseFile(b))
  \/ \E file \in importing : BatchRead(file) \/ BatchUnreadable(file)

WorkbenchSpec == WorkbenchInit /\ [][ViewNext \/ DutyNext \/ DataNext]_workbenchVars

-----------------------------------------------------------------------------
\* The entities that the visible flows lead to from a.
Reachable(a, among) ==
  LET within[n \in 0 .. Len(entities)] ==
        IF n = 0 THEN {a}
        ELSE LET nearer == within[n - 1]
             IN nearer \cup {f.target : f \in {g \in Range(among) : g.source \in nearer}}
  IN within[Len(entities)]

(* Whatever is imported, filtered or restored, and in whatever order files *)
(* are read: both ends of every flow are known, those of a visible flow    *)
(* are visible, so the inspector of a flow has its endpoint; and the route *)
(* that is highlighted leads over visible flows from the origin to the     *)
(* selection, and is missing only when there is none.                      *)
ShownIsConnected ==
  LET shown == VisibleFlows
      route == Trace
      visible == Range(VisibleEntities)
  IN /\ \A f \in Range(flows) : Ends(f) \subseteq Range(entities)
     /\ \A f \in Range(shown) : Ends(f) \subseteq visible
     /\ \A i \in DOMAIN route.edges : \E f \in Range(shown) :
          f.id = route.edges[i] /\ f.source = route.nodes[i] /\ f.target = route.nodes[i + 1]
     /\ traceMode => \A e \in Endpoint :
          IF e \in Reachable(traceOrigin, shown)
          THEN Head(route.nodes) = traceOrigin /\ Last(route.nodes) = e
          ELSE route.nodes = <<>>
=============================================================================
