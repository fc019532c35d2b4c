-------------------------- MODULE WikidataCollector --------------------------
(***************************************************************************)
(* WikidataCollector.collect over BaseScraper.get: a breadth-first walk of *)
(* declared subsidiaries, one batch of entities at a time, then the labels *)
(* and officers that the entities name.  A batch is one request, repeated  *)
(* after a transient error, and an entity may be missing in the answer.    *)
(***************************************************************************)
EXTENDS Naturals, FiniteSets, FiniteSetsExt

CONSTANTS
  Item,         \* companies at Wikidata
  Roots,        \* those the walk starts from
  Depths, Caps, \* --depth and --max-entities, one of each
  Attempts      \* max_retries + 1

ASSUME CollectorAssumption ==
  /\ Roots \subseteq Item /\ IsFiniteSet(Item)
  /\ Depths \subseteq 0 .. 3 /\ Caps \subseteq 1 .. 2000 /\ Attempts \in Nat \ {0}

VARIABLES
  declared,   \* the subsidiary claims
  officer,    \* companies that name an officer, each its own
  gone,       \* companies that Wikidata answers as missing
  retired,    \* companies whose officer it answers as missing
  depth, cap, \* the arguments
  stage, level, attempt,
  entities, frontier,
  snapshotOf  \* the emitted records: companies, people, relationships

collectorVars == <<declared, officer, gone, retired, depth, cap, stage, level, attempt, entities, frontier, snapshotOf>>

Nothing == [companies |-> {}, people |-> {}, subsidiary |-> {}, officer |-> {}]

CollectorInit ==
  /\ declared \in SUBSET {p \in Item \X Item : p[1] # p[2]} /\ officer \in {{}, Item}
  /\ depth \in Depths /\ cap \in Caps
  /\ gone \in {{}} \cup {{c} : c \in Item} /\ retired \in {{}} \cup {{c} : c \in officer}
  /\ stage = "roots" /\ level = 0 /\ attempt = 0
  /\ entities = {} /\ frontier = Roots /\ snapshotOf = Nothing

\* A slip in reach of this code: the limit is forgotten.
FrontiersUnlimited(known, from) == {{c \in Item \ known : \E p \in from : <<p, c>> \in declared}}

\* What the next level asks for: any choice of the right size, since the
\* order of the claims is Wikidata's.
Frontiers(known, from) ==
  LET discovered == {c \in Item \ known : \E p \in from : <<p, c>> \in declared}
      remaining == IF cap > Cardinality(known) THEN cap - Cardinality(known) ELSE 0
  IN IF Cardinality(discovered) <= remaining THEN {discovered}
     ELSE kSubset(remaining, discovered)

\* fetch_entities answered: the entities that are not missing.
Fetched ==
  /\ stage \in {"roots", "children"}
  /\ LET found == frontier \ gone
         below == IF stage = "roots" THEN 0 ELSE level
     IN /\ entities' = entities \cup found /\ attempt' = 0
        /\ \E next \in IF below < depth THEN Frontiers(entities \cup found, found) ELSE {{}} :
             /\ frontier' = next
             /\ IF next = {} THEN stage' = "labels" /\ UNCHANGED level
                ELSE stage' = "children" /\ level' = below + 1
  /\ UNCHANGED <<declared, officer, gone, retired, depth, cap, snapshotOf>>

\* The lookup of labels and officers answered, and the records are built.
\* An officer missing from the lookup has no person record, but keeps its
\* relationship.
Built ==
  /\ stage = "labels"
  /\ snapshotOf' = [companies |-> entities,
       people |-> (entities \cap officer) \ retired,
       subsidiary |-> {l \in declared : {l[1], l[2]} \subseteq entities},
       officer |-> entities \cap officer]
  /\ stage' = "done" /\ attempt' = 0
  /\ UNCHANGED <<declared, officer, gone, retired, depth, cap, level, entities, frontier>>

\* A timeout, a network error, 429 or 5xx is tried again after a pause; the
\* last attempt and any other status end the collection.
AttemptFails(transient) ==
  /\ stage \notin {"done", "failed"}
  /\ IF transient /\ attempt + 1 < Attempts
     THEN attempt' = attempt + 1 /\ UNCHANGED stage
     ELSE stage' = "failed" /\ UNCHANGED attempt
  /\ UNCHANGED <<declared, officer, gone, retired, depth, cap, level, entities, frontier, snapshotOf>>

CollectorNext == Fetched \/ Built \/ \E transient \in BOOLEAN : AttemptFails(transient)

CollectorSpec == CollectorInit /\ [][CollectorNext]_collectorVars

-----------------------------------------------------------------------------
\* The companies within n declared steps of the roots, over items present.
Within[n \in 0 .. 3] ==
  IF n = 0 THEN Roots \ gone
  ELSE Within[n - 1] \cup {c \in Item \ gone : \E p \in Within[n - 1] : <<p, c>> \in declared}

(* The walk collects exactly the companies within its depth, or stops at   *)
(* its limit; only the roots may exceed it.                                *)
CollectsWithinReach ==
  stage = "done" =>
    /\ snapshotOf.companies \subseteq Within[depth]
    /\ \/ snapshotOf.companies = Within[depth]
       \/ Cardinality(snapshotOf.companies \cup gone) >= cap
    /\ Cardinality(snapshotOf.companies) <= cap \/ snapshotOf.companies \subseteq Roots
=============================================================================
