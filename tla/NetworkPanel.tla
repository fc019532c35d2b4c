----------------------------- MODULE NetworkPanel -----------------------------
(***************************************************************************)
(* CompanyNetworkPanel.jsx: the company graph inside the workbench.        *)
(* Opening a company asks the corpgraph API and falls back to a generated  *)
(* graph, so every opening is answered some time, in any order: unlike the *)
(* console (NetworkConsole) the panel never cancels one.  Changing the     *)
(* depth or the relationship opens the company that was answered last      *)
(* again.  An id with and without the prefix "wikidata_" is one company,   *)
(* but the selection keeps the id that was asked for.                      *)
(***************************************************************************)
EXTENDS Naturals, Sequences, FiniteSets, SequencesExt, Lists

CONSTANTS
  Corporation, Individual,   \* nodes: only the former can be centers
  FirstChoice,        \* the company that the first search finds
  Setting, FirstSetting,   \* pairs of depth and relationship; the one to begin with
  Network,            \* answers: [nodes (a sequence), flagged, links]
  CoreNodes,          \* 9: the nodes shown by progressive disclosure
  CrumbCap,           \* 5
  MaxOpenings         \* bound: how many openings there are

Nobody == "nobody"
Elsewhere == "elsewhere"    \* an id that no node of a graph has
NoGraph == [center |-> Nobody]

ASSUME PanelAssumption ==
  /\ FirstChoice \in Corporation /\ Nobody \notin Corporation
  /\ Elsewhere \notin Corporation \cup Individual
  /\ \A n \in Network : n.nodes \in Seq(Range(n.nodes))
  /\ CoreNodes \in Nat \ {0} /\ CrumbCap \in Nat \ {0} /\ MaxOpenings \in Nat

VARIABLES
  setting,
  opened,       \* openings so far
  underway,     \* openings without an answer: [number, company, setting, append]
  shown,        \* network: [center, setting, number, net]
  picked,       \* selectedId or selectedLink
  crumbs,
  modes,        \* [risk, focus, core]
  graphMode,    \* the force graph, or one of the three other visualizers
  autoOpened,
  last,         \* the latest opening, as in underway
  answeredUpTo, \* the highest number answered
  overtaken     \* whether an answer came after that of a later opening

panelVars == <<setting, opened, underway, shown, picked, crumbs, modes, graphMode, autoOpened,
               last, answeredUpTo, overtaken>>

NoOpening == [number |-> 0, company |-> Nobody]

PanelInit ==
  /\ setting = FirstSetting /\ opened = 0 /\ underway = {} /\ shown = NoGraph
  /\ picked = FirstChoice /\ crumbs = <<>>
  /\ modes = [risk |-> FALSE, focus |-> FALSE, core |-> TRUE] /\ graphMode = "topology"
  /\ autoOpened = FALSE /\ last = NoOpening /\ answeredUpTo = 0 /\ overtaken = FALSE

-----------------------------------------------------------------------------
(* graphData: what is drawn of the network. *)
Linked(n) == {n} \cup UNION {{l[1], l[2]} : l \in {k \in shown.net.links : n \in {k[1], k[2]}}}

Relevant == IF modes.risk
            THEN {n \in Range(shown.net.nodes) : n \in shown.net.flagged \/ n = shown.center}
            ELSE Range(shown.net.nodes)

\* Of many, the center and the first of the others, the flagged before the rest.
Core(nodes) ==
  LET others == Kept(shown.net.nodes, nodes \ {shown.center})
      ranked == Kept(others, shown.net.flagged) \o Kept(others, Range(others) \ shown.net.flagged)
  IN IF ~modes.core \/ Cardinality(nodes) <= CoreNodes THEN nodes
     ELSE nodes \cap ({shown.center} \cup Range(Upto(ranked, CoreNodes - 1)))

Drawn ==
  IF shown = NoGraph THEN {}
  ELSE IF modes.focus /\ picked # Nobody THEN Core(Relevant) \cap Linked(picked)
  ELSE Core(Relevant)

DrawnLinks == IF shown = NoGraph THEN {}
              ELSE {l \in shown.net.links : {l[1], l[2]} \subseteq Drawn}

\* The node of the intelligence panel: any that is drawn, if the picked is not.
Inspected == IF picked \in Drawn \/ Drawn = {} THEN {picked} \cap Drawn ELSE Drawn

-----------------------------------------------------------------------------
Opening(c, s, append, n) == [number |-> n, company |-> c, setting |-> s, append |-> append]

\* openCompany up to its await.  An intent and a change of the setting each
\* open more than one company at once: os is a sequence of openings.
Open(os) ==
  /\ opened + Len(os) <= MaxOpenings
  /\ opened' = opened + Len(os) /\ underway' = underway \cup Range(os)
  /\ last' = IF os = <<>> THEN last ELSE Last(os)

\* Double click, recommendation, template, crumb, "Recenter", unusual patterns,
\* and the other visualizers.
OpenCompany(c, append) ==
  /\ Open(<<Opening(c, setting, append, opened + 1)>>)
  /\ UNCHANGED <<setting, shown, picked, crumbs, modes, graphMode, autoOpened, answeredUpTo, overtaken>>

Recenter == shown # NoGraph /\ OpenCompany(shown.center, FALSE)
OpenCrumb(i) == OpenCompany(crumbs[i], FALSE)

ResetPath ==
  /\ Len(crumbs) > 1 /\ crumbs' = <<crumbs[1]>>
  /\ Open(<<Opening(crumbs[1], setting, FALSE, opened + 1)>>)
  /\ UNCHANGED <<setting, shown, picked, modes, graphMode, autoOpened, answeredUpTo, overtaken>>

\* The effect on depth and relationship opens the center again, if there is one.
Reopen(s, n) == IF shown = NoGraph THEN <<>> ELSE <<Opening(shown.center, s, FALSE, n)>>

ChangeSetting(s) ==
  /\ graphMode = "topology" /\ s # setting /\ setting' = s
  /\ Open(Reopen(s, opened + 1))
  /\ UNCHANGED <<shown, picked, crumbs, modes, graphMode, autoOpened, answeredUpTo, overtaken>>

\* A predictive intent changes the setting and opens a company: with the setting
\* of before, and before the effect opens the old center with the new one.
Intent(c, s, m) ==
  /\ setting' = s /\ modes' = m
  /\ Open(<<Opening(c, setting, TRUE, opened + 1)>>
            \o IF s = setting THEN <<>> ELSE Reopen(s, opened + 2))
  /\ UNCHANGED <<shown, picked, crumbs, graphMode, autoOpened, answeredUpTo, overtaken>>

\* The first search that finds anything opens its first result.
SearchAnswers ==
  /\ ~autoOpened /\ autoOpened' = TRUE
  /\ Open(<<Opening(FirstChoice, setting, TRUE, opened + 1)>>)
  /\ UNCHANGED <<setting, shown, picked, crumbs, modes, graphMode, answeredUpTo, overtaken>>

\* A slip in reach of this code: every company is appended.
PathUncut(c) ==
  IF Len(crumbs) = CrumbCap THEN Append(Tail(crumbs), c) ELSE Append(crumbs, c)

\* A company already in the path cuts it there; else it is appended.
Path(c) ==
  IF c \in Range(crumbs) THEN SubSeq(crumbs, 1, CHOOSE i \in DOMAIN crumbs : crumbs[i] = c)
  ELSE LET all == Append(crumbs, c)
       IN IF Len(all) > CrumbCap THEN Tail(all) ELSE all

\* The API or the generator answers.  The center has the id of the answer; what
\* is selected, the id that was asked for, which need not be that of a node.
Answered(o, net, id) ==
  /\ o \in underway /\ underway' = underway \ {o}
  /\ o.company \in Range(net.nodes)
  /\ shown' = [center |-> o.company, setting |-> o.setting, number |-> o.number, net |-> net]
  /\ id \in {o.company, Elsewhere} /\ picked' = id
  /\ crumbs' = IF o.append THEN Path(o.company) ELSE crumbs
  /\ answeredUpTo' = IF o.number > answeredUpTo THEN o.number ELSE answeredUpTo
  /\ overtaken' = (overtaken \/ o.number < answeredUpTo)
  /\ UNCHANGED <<setting, opened, modes, graphMode, autoOpened, last>>

\* The force graph offers what it draws, the other visualizers ids of their own.
Pick(n) ==
  /\ graphMode = "topology" => n \in Drawn
  /\ picked' = n
  /\ UNCHANGED <<setting, opened, underway, shown, crumbs, modes, graphMode, autoOpened, last, answeredUpTo, overtaken>>

PickLink ==
  /\ graphMode = "topology" /\ DrawnLinks # {} /\ picked' = Nobody
  /\ UNCHANGED <<setting, opened, underway, shown, crumbs, modes, graphMode, autoOpened, last, answeredUpTo, overtaken>>

Toggle(m) ==
  /\ modes' = [modes EXCEPT ![m] = ~@]
  /\ m = "core" => graphMode = "topology"    \* the others have a key or a figure too
  /\ UNCHANGED <<setting, opened, underway, shown, picked, crumbs, graphMode, autoOpened, last, answeredUpTo, overtaken>>

ShowAs(g) ==
  /\ g # graphMode /\ graphMode' = g
  /\ UNCHANGED <<setting, opened, underway, shown, picked, crumbs, modes, autoOpened, last, answeredUpTo, overtaken>>

PanelNext ==
  \/ (\E c \in Corporation : OpenCompany(c, TRUE)) \/ Recenter \/ (\E i \in DOMAIN crumbs : OpenCrumb(i))
  \/ ResetPath \/ (\E s \in Setting : ChangeSetting(s)) \/ SearchAnswers
  \/ (\E c \in Corporation, s \in Setting : Intent(c, s, [modes EXCEPT !.risk = TRUE]))
  \/ (\E o \in underway, net \in Network, id \in Corporation \cup {Elsewhere} : Answered(o, net, id))
  \/ (\E n \in Corporation \cup Individual \cup {Elsewhere} : Pick(n)) \/ PickLink
  \/ (\E m \in DOMAIN modes : Toggle(m)) \/ \E g \in {"topology", "other"} : ShowAs(g)

PanelSpec == PanelInit /\ [][PanelNext]_panelVars

-----------------------------------------------------------------------------
(* Once everything opened is answered, the graph is that of the last       *)
(* opening, if no answer was overtaken, and of the depth and relationship  *)
(* that are set, unless those were changed before there was a center.      *)
(* (The last opening of an intent is not that of its company, but that of  *)
(* the old center.)  The path of crumbs never has a company twice, nor     *)
(* more than five; and the center is drawn, the flagged before all others. *)
PanelShowsLast ==
  /\ underway = {} /\ ~overtaken /\ last.number > 0 =>
       /\ shown.center = last.company /\ shown.setting = last.setting
       /\ last.append \/ shown.setting = setting
  /\ \A i, j \in DOMAIN crumbs : i # j => crumbs[i] # crumbs[j]
  /\ Len(crumbs) <= CrumbCap
  /\ shown # NoGraph /\ ~modes.focus =>
       /\ shown.center \in Drawn /\ Inspected # {}
       /\ \/ Range(shown.net.nodes) \cap shown.net.flagged \subseteq Drawn
          \/ Drawn \subseteq shown.net.flagged \cup {shown.center}
=============================================================================
