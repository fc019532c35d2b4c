--------------------------- MODULE EntityResolution ---------------------------
(***************************************************************************)
(* entity_resolution: resolve_entities joins records that match into       *)
(* clusters, gives every cluster an id, and resolve_extraction_document    *)
(* rewrites the relationships of the document to those ids.  A record is   *)
(* in its normalized form: a name is a sequence of words, numbered in the  *)
(* order of the alphabet, and "" stands for a field that is missing.       *)
(***************************************************************************)
EXTENDS Naturals, Sequences, FiniteSets

CONSTANTS
  Size,        \* how many records a document has
  Description, \* the records that may occur in it
  Unlike,      \* the similarity, in percent, of two names that share no subset
  Threshold    \* the score, in percent, from which two records match

ASSUME ResolutionAssumption ==
  /\ Size \in Nat /\ Threshold \in 0 .. 100 /\ Unlike \in 0 .. 100
  /\ \A d \in Description : d.name \in Seq(Nat) \ {<<>>}

VARIABLES
  records,     \* the document
  todo,        \* candidate pairs not compared yet
  root,        \* the union-find structure: the root of each record
  links,       \* the relationships not rewritten yet
  rewritten,   \* the relationships between ids
  resolution   \* the stage of the resolution

resolutionVars == <<records, todo, root, links, rewritten, resolution>>

Index == 1 .. Size
Words(name) == {name[w] : w \in 1 .. Len(name)}

\* fuzzy_match: equal names and those whose words are a subset score 100.
Similarity(a, b) ==
  IF Words(a) \subseteq Words(b) \/ Words(b) \subseteq Words(a) THEN 100 ELSE Unlike

\* A field counts only when both records have it.
Evidence(weight, a, b) ==
  IF a = "" \/ b = "" THEN <<0, 0>> ELSE <<IF a = b THEN 100 * weight ELSE 0, weight>>

\* A slip in reach of this code: registration numbers are not looked at.
MatchesWithoutNumber(a, b) ==
  LET place == Evidence(3, a.place, b.place)
      year == Evidence(1, a.year, b.year)
  IN 4 * Similarity(a.name, b.name) + place[1] + year[1] >= Threshold * (4 + place[2] + year[2])

\* calculate_match_confidence >= threshold, with weights .4 .3 .2 .1.
Matches(a, b) ==
  LET place == Evidence(3, a.place, b.place)
      number == Evidence(2, a.number, b.number)
      year == Evidence(1, a.year, b.year)
  IN /\ a.number = "" \/ b.number = "" \/ a.number = b.number
     /\ 4 * Similarity(a.name, b.name) + place[1] + number[1] + year[1]
          >= Threshold * (4 + place[2] + number[2] + year[2])

\* Blocking: the same name, the same registration, or the same first word.
CandidatePairs(doc) ==
  {p \in Index \X Index :
     /\ p[1] < p[2]
     /\ \/ Head(doc[p[1]].name) = Head(doc[p[2]].name)
        \/ doc[p[1]].number # "" /\ doc[p[1]].number = doc[p[2]].number}

Before(p, q) == p[1] < q[1] \/ (p[1] = q[1] /\ p[2] <= q[2])

Lower(a, b) == IF a < b THEN a ELSE b

\* A slip in reach of this code: the record is moved to its partner, and its cluster is not.
UnionOfRecord(i, j) == [root EXCEPT ![j] = i]

Union(i, j) ==
  [k \in Index |-> IF root[k] \in {root[i], root[j]} THEN Lower(root[i], root[j]) ELSE root[k]]

Populated(r) == Cardinality({f \in {"place", "number", "year"} : r[f] # ""})

Alphabetical(a, b) == \E n \in DOMAIN a : a[n] < b[n] /\ \A m \in 1 .. n - 1 : a[m] = b[m]

\* The order in which a cluster's records contribute to the merged record.
Ranks(i, j) ==
  LET a == records[i]
      b == records[j]
  IN \/ Populated(a) > Populated(b)
     \/ Populated(a) = Populated(b) /\ Len(a.name) < Len(b.name)
     \/ /\ Populated(a) = Populated(b) /\ Len(a.name) = Len(b.name)
        /\ Alphabetical(a.name, b.name) \/ (a.name = b.name /\ i <= j)

Members(i) == {j \in Index : root[j] = root[i]}

\* A field of the merged record: of the first member in rank that has it.
Merged(i, field) ==
  LET having == {j \in Members(i) : records[j][field] # ""}
  IN IF having = {} THEN "" ELSE
     records[CHOOSE j \in having : \A k \in having : Ranks(j, k)][field]

Foremost(i) == CHOOSE j \in Members(i) : \A k \in Members(i) : Ranks(j, k)
MergedName(i) == records[Foremost(i)].name

\* A slip in reach of this code: the name alone is the id.
EntityIdByName(i) == <<MergedName(i)>>

\* assign_entity_id of the merged record, before hashing.
EntityId(i) ==
  IF Merged(i, "number") # "" THEN <<Merged(i, "number")>>
  ELSE <<MergedName(i), Merged(i, "place")>>

ResolutionInit ==
  /\ records \in [Index -> Description]
  /\ todo = CandidatePairs(records)
  /\ root = [i \in Index |-> i]
  /\ links = {p \in Index \X Index : p[1] < p[2]} /\ rewritten = {}
  /\ resolution = "matching"

\* The candidate pairs are compared in sorted order.
Compare ==
  /\ resolution = "matching" /\ todo # {}
  /\ LET p == CHOOSE q \in todo : \A other \in todo : Before(q, other)
     IN /\ todo' = todo \ {p}
        /\ IF Matches(records[p[1]], records[p[2]])
           THEN root' = Union(p[1], p[2])
           ELSE UNCHANGED root
  /\ UNCHANGED <<records, links, rewritten, resolution>>

AssignIds ==
  /\ resolution = "matching" /\ todo = {}
  /\ resolution' = "rewriting"
  /\ UNCHANGED <<records, todo, root, links, rewritten>>

\* A relationship that becomes a loop or is there already is dropped.
RewriteLink(p) ==
  /\ resolution = "rewriting" /\ p \in links
  /\ \A q \in links : Before(p, q)
  /\ links' = links \ {p}
  /\ rewritten' = IF EntityId(p[1]) = EntityId(p[2]) THEN rewritten
                  ELSE rewritten \cup {<<EntityId(p[1]), EntityId(p[2])>>}
  /\ UNCHANGED <<records, todo, root, resolution>>

Report ==
  /\ resolution = "rewriting" /\ links = {} /\ resolution' = "done"
  /\ UNCHANGED <<records, todo, root, links, rewritten>>

ResolutionNext == Compare \/ AssignIds \/ (\E p \in links : RewriteLink(p)) \/ Report

ResolutionSpec == ResolutionInit /\ [][ResolutionNext]_resolutionVars

-----------------------------------------------------------------------------
Conflicting(i, j) ==
  records[i].number # "" /\ records[j].number # "" /\ records[i].number # records[j].number

MatchingPairs == {p \in CandidatePairs(records) : Matches(records[p[1]], records[p[2]])}

(* Clusters are the connected components of the matches among candidates,  *)
(* whatever order the unions came in: what matches is joined, and any set  *)
(* of records that no match leads out of keeps its clusters to itself.     *)
ClustersAreComponents == resolution = "done" =>
  /\ \A p \in MatchingPairs : root[p[1]] = root[p[2]]
  /\ \A apart \in SUBSET Index :
       (\A p \in MatchingPairs : p[1] \in apart <=> p[2] \in apart) =>
         \A i, j \in Index : root[i] = root[j] => (i \in apart <=> j \in apart)

(* Conflicting registration numbers "prevent name-only false positives"    *)
(* (calculate_match_confidence) between two records, but not in a cluster: *)
(* there they meet only through a record that has no registration number.  *)
ConflictsNeedABridge == \A i, j \in Index :
  root[i] = root[j] /\ Conflicting(i, j) => \E k \in Members(i) : records[k].number = ""

(* A relationship between two clusters gets lost only when their ids       *)
(* coincide although their records never matched well enough to be joined: *)
(* both have the same registration number, or neither has one and the      *)
(* records that give them their one name differ in the year.               *)
LostOnlyWhenAlike ==
  resolution = "done" => \A i, j \in Index :
    i < j /\ root[i] # root[j] /\ <<EntityId(i), EntityId(j)>> \notin rewritten =>
      LET a == records[Foremost(i)]
          b == records[Foremost(j)]
      IN /\ Merged(i, "number") = Merged(j, "number")
         /\ Merged(i, "number") = "" => a.name = b.name /\ a.year # b.year /\ "" \notin {a.year, b.year}
=============================================================================
