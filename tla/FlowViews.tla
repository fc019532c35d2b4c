------------------------------ MODULE FlowViews ------------------------------
(***************************************************************************)
(* What the flows page shows beside the inspector: the relationship graph  *)
(* (NetworkCanvas.jsx), the blotter (BloombergBlotter.jsx) and the         *)
(* connection finder (ConnectionFinder.jsx).  They read the entities and   *)
(* flows that Workbench lets through its filters and write the selection,  *)
(* the trace and the triaged alerts back.                                  *)
(***************************************************************************)
EXTENDS Workbench

CONSTANT FinderEnds  \* the two entities the finder starts with

VARIABLES
  focusMode,
  blotter,      \* [tab, quick, expanded, menu]; new whenever it is mounted
  finder        \* [from, to, mode, open]; likewise

viewsVars == <<focusMode, blotter, finder>>

NewBlotter == [tab |-> "flows", quick |-> "all", expanded |-> "", menu |-> ""]
NewFinder == [from |-> FinderEnds[1], to |-> FinderEnds[2], mode |-> "any", open |-> TRUE]

FlowViewsInit == focusMode = FALSE /\ blotter = NewBlotter /\ finder = NewFinder

-----------------------------------------------------------------------------
\* The rows: no flow has a crossBorder field, so that filter is "flagged".
Rows == Kept(VisibleFlows, {f \in Range(VisibleFlows) :
  CASE blotter.quick = "all" -> TRUE
    [] blotter.quick = "high_risk" -> f.risk = 2
    [] blotter.quick \in {"flagged", "cross_border"} -> f.flag})

Directory == IF blotter.tab = "entities" THEN VisibleEntities ELSE <<>>

\* What a row offers: the menu, except "Escalate" for an Analyst (AddToCase).
MenuOf(id) == page = "blotter" /\ blotter.tab = "flows" /\ blotter.menu = id /\ id \in Ids(Rows)

Hop(nodes) == nodes \cup UNION {Ends(f) : f \in {g \in Range(VisibleFlows) : Ends(g) \cap nodes # {}}}

\* The nodes that are highlighted beside the selected one.
Connected == {selected.value} \cup UNION {Ends(f) : f \in
  {g \in Range(VisibleFlows) : g.id = selected.value \/ selected.value \in Ends(g)}}

\* A slip in reach of this code: one hop.
CanvasOfOneHop ==
  IF focusMode THEN Hop({selected.value}) \cap Range(VisibleEntities)
  ELSE Range(VisibleEntities)

\* Focus mode ("3 hops") keeps two; the id of a selected flow is no entity, and
\* nothing is kept.
CanvasEntities ==
  IF focusMode THEN Hop(Hop({selected.value})) \cap Range(VisibleEntities)
  ELSE Range(VisibleEntities)

CanvasFlows ==
  LET drawn == CanvasEntities IN {f \in Range(VisibleFlows) : Ends(f) \subseteq drawn}

\* Neither highlighted nor traced; not to be seen, but still to be clicked.
Dimmed == {e \in CanvasEntities : e \notin Connected \cup Range(Trace.nodes)}

Reverse1(f) ==
  [id |-> f.id, source |-> f.target, target |-> f.source, risk |-> f.risk, flag |-> f.flag]
BothWays ==
  LET all == VisibleFlows
  IN [i \in 1 .. 2 * Len(all) |-> LET f == all[(i + 1) \div 2] IN IF i % 2 = 1 THEN f ELSE Reverse1(f)]

Found ==
  IF finder.from = finder.to THEN [nodes |-> <<finder.from>>, edges |-> <<>>]
  ELSE DirectedPath(finder.from, finder.to, IF finder.mode = "any" THEN BothWays ELSE VisibleFlows)

\* The chain of cards: it is offered for clicks on its entities and flows.
Chain == IF finder.open /\ Len(Found.nodes) > 1 THEN Found ELSE [nodes |-> <<>>, edges |-> <<>>]

-----------------------------------------------------------------------------
Visit(p) ==
  /\ GoTo(p) /\ blotter' = NewBlotter
  /\ finder' = IF OnFlows /\ p \in {"graph", "blotter"} THEN finder ELSE NewFinder
  /\ UNCHANGED focusMode

ToggleFocus ==
  /\ OnInvestigation /\ focusMode' = ~focusMode
  /\ UNCHANGED <<blotter, finder, workbenchVars>>

Blot(b) ==
  /\ page = "blotter" /\ b # blotter /\ blotter' = b
  /\ UNCHANGED <<focusMode, finder, workbenchVars>>

ShowTab(t) == Blot([blotter EXCEPT !.tab = t])
QuickFilter(q) == blotter.tab = "flows" /\ Blot([blotter EXCEPT !.quick = q])
ToggleRow(id) ==
  blotter.tab = "flows" /\ Blot([blotter EXCEPT !.expanded = IF @ = id THEN "" ELSE id])
ToggleMenu(id) ==
  blotter.tab = "flows" /\ Blot([blotter EXCEPT !.menu = IF @ = id THEN "" ELSE id])

\* "Investigate & Trace" in the menu, "Pin & Trace" in the expanded row.
Investigate(f) ==
  /\ \/ MenuOf(f.id)
     \/ page = "blotter" /\ blotter.tab = "flows" /\ blotter.expanded = f.id
  /\ selected' = [type |-> "flow", value |-> f.id]
  /\ traceOrigin' = f.source /\ traceMode' = TRUE
  /\ blotter' = IF MenuOf(f.id) THEN [blotter EXCEPT !.menu = ""] ELSE blotter
  /\ UNCHANGED <<page, role, dataVars, filter, saved, flagged, triaged, focusMode, finder>>

\* Offered for any flow and to any role.
DismissAlert(id) ==
  /\ MenuOf(id)
  /\ triaged' = triaged \cup {id} /\ blotter' = [blotter EXCEPT !.menu = ""]
  /\ UNCHANGED <<page, role, dataVars, viewVars, saved, flagged, focusMode, finder>>

\* A click on what is drawn or listed, and Escape on the canvas.
Click(what) ==
  /\ \/ page = "graph" /\ what = FirstFlow
     \/ page = "graph" /\ what \in {[type |-> "entity", value |-> e] : e \in CanvasEntities}
                                \cup {[type |-> "flow", value |-> i] : i \in {f.id : f \in CanvasFlows}}
     \/ page = "blotter" /\ blotter.tab = "flows" /\ what \in {[type |-> "flow", value |-> i] : i \in Ids(Rows)}
     \/ page = "blotter" /\ what \in {[type |-> "entity", value |-> e] : e \in Range(Directory)}
     \/ OnFlows /\ what \in {[type |-> "entity", value |-> e] : e \in Range(Chain.nodes)}
                       \cup {[type |-> "flow", value |-> i] : i \in Range(Chain.edges)}
  /\ Select(what) /\ UNCHANGED viewsVars

\* From the directory of entities.
TraceEntity(e) ==
  page = "blotter" /\ e \in Range(Directory) /\ TraceFrom(e) /\ UNCHANGED viewsVars

SetFinder(f) ==
  /\ OnFlows /\ f # finder /\ finder' = f
  /\ UNCHANGED <<focusMode, blotter, workbenchVars>>

SwapEnds == SetFinder([finder EXCEPT !.from = finder.to, !.to = finder.from])
SetMode(m) == SetFinder([finder EXCEPT !.mode = m])
ChooseEnd(e) ==
  finder.open /\ (SetFinder([finder EXCEPT !.from = e]) \/ SetFinder([finder EXCEPT !.to = e]))

\* "Trace On Graph" hands over the origin of the route; the end of the trace
\* stays the selection.
TraceFound ==
  /\ OnFlows /\ finder.open /\ traceMode' = TRUE
  /\ traceOrigin' = IF Found.nodes # <<>> THEN Found.nodes[1] ELSE traceOrigin
  /\ UNCHANGED <<page, role, dataVars, filter, selected, saved, flagged, triaged, viewsVars>>

GraphNext ==
  \/ ToggleFocus \/ (\E what \in Selectable : Click(what))
  \/ SwapEnds \/ (\E m \in {"any", "directed"} : SetMode(m))
  \/ (\E e \in Range(VisibleEntities) : ChooseEnd(e)) \/ TraceFound

BlotterNext ==
  \/ (\E p \in Pages : Visit(p))
  \/ (\E t \in {"flows", "entities"} : ShowTab(t))
  \/ (\E q \in {"all", "high_risk", "flagged", "cross_border"} : QuickFilter(q))
  \/ (\E id \in Ids(Rows) : ToggleRow(id) \/ ToggleMenu(id) \/ DismissAlert(id))
  \/ (\E f \in Range(Rows) : Investigate(f))
  \/ (\E what \in Selectable : Click(what)) \/ \E e \in Range(VisibleEntities) : TraceEntity(e)

\* With the rest of the page: what is mounted anew begins anew.
FlowViewsNext ==
  \/ GraphNext \/ BlotterNext
  \/ UNCHANGED viewsVars /\
       (\/ ViewNext \/ FlagForReview
        \/ (\E r \in {"Analyst", "Investigator", "Admin"} : SwitchRole(r))
        \/ (\E id \in Ids(flows) : ResolveAlert(id)) \/ (\E b \in Batch : ChooseFile(b))
        \/ \E file \in importing : BatchRead(file) \/ BatchUnreadable(file))
  \/ (\E e \in Range(GivenEntities) : PivotTo(e)) /\ blotter' = NewBlotter /\ finder' = NewFinder
       /\ UNCHANGED focusMode
  \/ Reload /\ focusMode' = FALSE /\ blotter' = NewBlotter /\ finder' = NewFinder

FlowViewsSpec ==
  WorkbenchInit /\ FlowViewsInit /\ [][FlowViewsNext]_<<workbenchVars, viewsVars>>

-----------------------------------------------------------------------------
(* The graph never draws a flow without both its ends, and in focus mode   *)
(* keeps the selected entity with every flow of it and of its neighbours;  *)
(* the finder shows a chain of flows between its two entities exactly when *)
(* there is one.                                                           *)
NeighboursShown ==
  LET found == Found
      drawn == CanvasFlows
      flowing == Range(VisibleFlows)
      among == IF finder.mode = "any" THEN BothWays ELSE VisibleFlows
  IN /\ UNION {Ends(f) : f \in drawn} \subseteq CanvasEntities
     /\ selected.value \in Range(VisibleEntities) =>
          \A f, g \in flowing :
            selected.value \in Ends(f) /\ Ends(f) \cap Ends(g) # {} => {f, g} \subseteq drawn
     /\ IF finder.to \in Reachable(finder.from, among)
        THEN Head(found.nodes) = finder.from /\ Last(found.nodes) = finder.to
        ELSE found.nodes = <<>>
     /\ \A i \in DOMAIN found.edges : \E f \in Range(among) :
          f.id = found.edges[i] /\ f.source = found.nodes[i] /\ f.target = found.nodes[i + 1]
=============================================================================
