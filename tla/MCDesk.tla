-------------------------------- MODULE MCDesk --------------------------------
(***************************************************************************)
(* The analyst's desk and the services behind it.  They share no state but *)
(* the workbench's, which the cases and the views of flows build on: each  *)
(* behaviour runs one part, named by focus, and the others rest.           *)
(***************************************************************************)
EXTENDS Casework, FlowViews, NetworkPanel, PythonBridge, MarketFeed, StreamWorker,
        PgChain, LedgerView, PaperControls

VARIABLE focus

Flow(i, s, t, r, marked) == [id |-> i, source |-> s, target |-> t, risk |-> r, flag |-> marked]

\* A chain of three entities; a file that extends it, by a flow it has twice, and
\* one that turns its second flow round: a cycle when the first file is read before.
MCGivenEntities == <<"a", "b", "c">>
MCGivenFlows == <<Flow("t1", "a", "b", 2, FALSE), Flow("t2", "b", "c", 0, TRUE)>>
MCBatch == {[entities |-> <<"d">>, flows |-> <<Flow("t3", "b", "d", 1, FALSE), Flow("t3", "c", "d", 1, FALSE)>>],
            [entities |-> <<>>, flows |-> <<Flow("t2", "a", "d", 0, FALSE)>>]}
MCFilter == {NoChoice, [NoChoice EXCEPT !.text = "b", !.flagged = TRUE]}
MCListed == <<"c1">>
MCFinderEnds == <<"c", "a">>

\* A flagged person between two companies, and a company alone.
MCNetwork ==
  {[nodes |-> <<"a", "p", "b">>, flagged |-> {"p"}, links |-> {<<"a", "b">>}],
   [nodes |-> <<"c">>, flagged |-> {}, links |-> {}]}

\* A fill of an account that has no row yet, and a release that makes the sums
\* of the projection and of its reconciliation differ.
MCEvents == <<[type |-> "FillReceived", amount |-> 0], [type |-> "CashReserved", amount |-> 2],
              [type |-> "OrderAccepted", amount |-> 0], [type |-> "CashReleased", amount |-> 1]>>

-----------------------------------------------------------------------------
Parts == {"workbench", "duty", "casework", "graph", "blotter", "panel", "bridge", "feed",
          "worker", "chain", "projection", "orders", "approvals", "policy"}
OnWorkbench == {"workbench", "duty", "casework", "graph", "blotter"}

\* A resting workbench holds nothing.
WorkbenchRests ==
  /\ page = "terminal" /\ role = "Investigator" /\ entities = <<>> /\ flows = <<>>
  /\ importing = {} /\ imports = 0 /\ intake = "none"
  /\ filter = NoChoice /\ selected = FirstFlow /\ traceMode = FALSE /\ traceOrigin = FirstOrigin
  /\ saved = NoView /\ flagged = {} /\ triaged = {}

\* The blotter, its trace switched off, which the cases do not look at.
OpensUntraced ==
  /\ page = "blotter" /\ role = "Investigator" /\ entities = GivenEntities /\ flows = GivenFlows
  /\ importing = {} /\ imports = 0 /\ intake = "none"
  /\ filter = NoChoice /\ selected = FirstFlow /\ traceMode = FALSE /\ traceOrigin = FirstOrigin
  /\ saved = NoView /\ flagged = {} /\ triaged = {}

OpensAs ==
  CASE focus = "blotter" -> Opens("blotter", "Investigator")
    [] focus \in {"workbench", "graph"} -> Opens("graph", "Admin")
    [] focus = "duty" -> WorkbenchInit
    [] focus = "casework" -> OpensUntraced
    [] OTHER -> WorkbenchRests

MCInit ==
  /\ focus \in Parts /\ OpensAs
  /\ CaseworkInit
  /\ stored[Listed[1]].items = {FirstFlow.value} /\ (focus # "casework" => active = Listed[1])
  /\ IF focus \in {"graph", "blotter"} THEN FlowViewsInit
     ELSE /\ focusMode = FALSE /\ blotter = NewBlotter
          /\ finder = [NewFinder EXCEPT !.from = FinderEnds[2]]    \* nothing to find
  /\ PanelInit /\ BridgeInit /\ FeedInit /\ WorkerInit /\ PgInit /\ ViewInit /\ PaperInit

\* What does not belong to the part that runs stays as it is.
Keeps(parts, kept) == IF focus \in parts THEN TRUE ELSE UNCHANGED kept

OthersRest ==
  /\ UNCHANGED focus
  /\ Keeps(OnWorkbench, workbenchVars)
  /\ Keeps({"casework"}, caseVars) /\ Keeps({"graph", "blotter"}, viewsVars)
  /\ Keeps({"panel"}, panelVars) /\ Keeps({"bridge"}, bridgeVars)
  /\ Keeps({"feed"}, feedVars) /\ Keeps({"worker"}, workerVars)
  /\ Keeps({"chain"}, chainVars)
  /\ Keeps({"projection"}, projectionVars)
  /\ Keeps({"orders", "approvals", "policy"}, paperVars)

\* How many switches of the company panel are not as they were: a bound.
Switched == Cardinality({m \in DOMAIN modes : modes[m] # (m = "core")})
              + IF graphMode = "topology" THEN 0 ELSE 1

\* Under the graph, flows come and are filtered.
Turnover ==
  \/ \E f \in Filter : SetFilter(f)
  \/ imports = 0 /\ \E b \in Batch : ChooseFile(b)
  \/ \E file \in importing : BatchRead(file)

\* The other page gets the cases once and changes one once: a bound.
OneElsewhere == elsewhere' # elsewhere =>
  /\ "elsewhere" \notin upset
  /\ elsewhere.notes = {} \/ elsewhere'.notes = elsewhere.notes

MCNext ==
  /\ \/ focus = "workbench" /\ (ViewNext \/ DataNext \/ GoTo("graph"))
     \/ focus = "duty" /\ DutyNext
     \/ focus = "casework" /\ CaseworkNext /\ OneElsewhere
     \/ focus = "graph" /\ (GraphNext \/ (Turnover /\ UNCHANGED viewsVars))
     \/ focus = "blotter" /\ BlotterNext
     \/ focus = "panel" /\ PanelNext /\ Switched' <= 1
     \/ focus = "bridge" /\ BridgeNext
     \/ focus = "feed" /\ FeedNext
     \/ focus = "worker" /\ WorkerNext
     \/ focus = "chain" /\ PgNext
     \/ focus = "projection" /\ LedgerViewNext
     \/ focus = "orders" /\ OrdersNext
     \/ focus = "approvals" /\ ApprovalsNext
     \/ focus = "policy" /\ PolicyNext
  /\ OthersRest

deskVars == <<workbenchVars, caseVars, viewsVars, panelVars, bridgeVars, feedVars, workerVars,
              chainVars, projectionVars, paperVars>>

MCSpec == MCInit /\ [][MCNext]_<<focus, deskVars>>
=============================================================================
