---------------------------- MODULE NetworkConsole ----------------------------
(***************************************************************************)
(* The CorpGraph console (frontend/src/App.tsx): what it shows while       *)
(* searches and networks are requested, answered, aborted and fail.  Every *)
(* change of a choice aborts the request of the one before, so one request *)
(* of each kind at most can still be answered.                             *)
(***************************************************************************)
EXTENDS Naturals, Sequences, FiniteSets, SequencesExt

CONSTANTS
  Firm,       \* companies the analyst can center on
  Filter,     \* combinations of depth and relationship
  Short, Long, \* queries under and over two characters
  Networks    \* answers: [nodes, links (in order), flagged]

ASSUME ConsoleAssumption ==
  /\ Short \cap Long = {}
  /\ \A n \in Networks : n.links \in Seq(n.nodes \X n.nodes) /\ n.flagged \subseteq n.nodes

None == "none"
NoNetwork == [about |-> [center |-> None, filter |-> None],
              net |-> [nodes |-> {}, links |-> <<>>, flagged |-> {}]]

VARIABLES
  choice,     \* the center and the filter chosen
  loading, network, failure,      \* failure: an error is on display
  node, link, riskOnly,
  query, searching, results,
  stats       \* whether /api/stats was answered

consoleVars == <<choice, loading, network, failure, node, link, riskOnly, query, searching, results, stats>>

Choice == [center : Firm \cup {None}, filter : Filter]

ConsoleInit ==
  /\ choice \in {[center |-> None, filter |-> f] : f \in Filter}
  /\ loading = FALSE /\ network = NoNetwork /\ failure = FALSE
  /\ node = None /\ link = <<>> /\ riskOnly = FALSE
  /\ query \in Short /\ searching = FALSE /\ results = None /\ stats = FALSE

\* riskOnly keeps the center and the flagged, then goes through the links in
\* their order and takes both ends of each that touches one kept so far.
Retained(n) ==
  FoldLeft(LAMBDA kept, l : IF {l[1], l[2]} \cap kept = {} THEN kept ELSE kept \cup {l[1], l[2]},
           n.net.flagged \cup ({n.about.center} \cap n.net.nodes), n.net.links)

VisibleNodes == IF network = NoNetwork THEN {}
                ELSE IF riskOnly THEN Retained(network) ELSE network.net.nodes
VisibleLinks == {l \in Range(network.net.links) : {l[1], l[2]} \subseteq VisibleNodes}

\* What the page shows and offers: the matches of a query (or why there are
\* none), the map with its figures, and the profile of a relationship before
\* that of a company; a person's has no button to center on.
SearchPanel ==
  IF searching THEN "searching" ELSE IF query \in Short THEN "too short" ELSE "matches"

Canvas ==
  [map |-> IF loading THEN "resolving" ELSE IF network = NoNetwork THEN "empty" ELSE "drawn",
   entities |-> Cardinality(network.net.nodes), rendered |-> VisibleNodes]

Profile == IF link # <<>> THEN link ELSE IF node # None THEN <<node>> ELSE <<>>

\* A click on a result, a featured case or "Re-center", and the two selects:
\* the effect runs only when the choice changes, and only with a center.
Choose(c) ==
  /\ c # choice /\ choice' = c
  /\ IF c.center = None THEN UNCHANGED <<loading, failure, link>>
     ELSE loading' = TRUE /\ failure' = FALSE /\ link' = <<>>
  /\ UNCHANGED <<network, node, riskOnly, query, searching, results, stats>>

NetworkAnswers(net) ==
  /\ loading
  /\ loading' = FALSE /\ network' = [about |-> choice, net |-> net]
  /\ \/ choice.center \in net.nodes /\ node' = choice.center
     \/ choice.center \notin net.nodes /\ node' \in net.nodes
  /\ UNCHANGED <<choice, failure, link, riskOnly, query, searching, results, stats>>

NetworkFails ==
  /\ loading /\ loading' = FALSE /\ failure' = TRUE
  /\ UNCHANGED <<choice, network, node, link, riskOnly, query, searching, results, stats>>

\* A slip in reach of this code: the old results stay.
TypeOverResults(q) ==
  /\ q # query /\ query' = q /\ searching' = (q \in Long)
  /\ UNCHANGED <<results, choice, loading, network, failure, node, link, riskOnly, stats>>

\* Typing empties the results; a request starts after 250 ms.
Type(q) ==
  /\ q # query /\ query' = q /\ results' = None /\ searching' = (q \in Long)
  /\ UNCHANGED <<choice, loading, network, failure, node, link, riskOnly, stats>>

SearchAnswers ==
  /\ searching /\ searching' = FALSE /\ results' = query
  /\ UNCHANGED <<choice, loading, network, failure, node, link, riskOnly, query, stats>>

SearchFails ==
  /\ searching /\ searching' = FALSE /\ failure' = TRUE
  /\ UNCHANGED <<choice, loading, network, node, link, riskOnly, query, results, stats>>

StatsSettle == \E answered \in BOOLEAN :
  /\ ~stats /\ stats' = TRUE
  /\ failure' = (failure \/ ~answered)
  /\ UNCHANGED <<choice, loading, network, node, link, riskOnly, query, searching, results>>

ToggleRisk ==
  /\ riskOnly' = ~riskOnly
  /\ UNCHANGED <<choice, loading, network, failure, node, link, query, searching, results, stats>>

TapNode(n) ==
  /\ n \in VisibleNodes /\ node' = n /\ link' = <<>>
  /\ UNCHANGED <<choice, loading, network, failure, riskOnly, query, searching, results, stats>>

TapLink(l) ==
  /\ l \in VisibleLinks /\ link' = l
  /\ UNCHANGED <<choice, loading, network, failure, node, riskOnly, query, searching, results, stats>>

ConsoleNext ==
  \/ \E c \in Firm : Choose([choice EXCEPT !.center = c])
  \/ \E f \in Filter : Choose([choice EXCEPT !.filter = f])
  \/ (\E net \in Networks : NetworkAnswers(net)) \/ NetworkFails
  \/ (\E q \in Short \cup Long : Type(q)) \/ SearchAnswers \/ SearchFails \/ StatsSettle
  \/ ToggleRisk \/ (\E n \in VisibleNodes : TapNode(n)) \/ \E l \in VisibleLinks : TapLink(l)

ConsoleSpec == ConsoleInit /\ [][ConsoleNext]_consoleVars

-----------------------------------------------------------------------------
(* Whatever is answered late, the console shows one thing: results of the  *)
(* query that is typed, and, unless it says that it loads or has failed,   *)
(* the network of the center, depth and relationship that are chosen, with *)
(* a company's profile taken from that network.  (A relationship's profile *)
(* is not: one that is clicked while loading stays after the answer.)      *)
ConsoleShowsChoice ==
  /\ SearchPanel = "matches" => results \in {None, query}
  /\ SearchPanel # "matches" => results = None
  /\ Canvas.map = "drawn" /\ ~failure /\ choice.center # None => network.about = choice
  /\ Canvas.rendered # {} /\ Len(Profile) = 1 => Head(Profile) \in network.net.nodes
=============================================================================
