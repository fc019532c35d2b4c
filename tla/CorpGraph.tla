------------------------------ MODULE CorpGraph ------------------------------
(***************************************************************************)
(* The read API of corpgraph (api/) over Neo4j and Redis, together with    *)
(* load_public_data of scrapers/wikidata.py, which rewrites the graph the  *)
(* API reads and then drops every key of the API's cache.                  *)
(*                                                                         *)
(* A request reads the cache, queries the graph on a miss and stores its   *)
(* answer; every one of those is a round trip, so requests and the loader  *)
(* interleave between them.  A company stands for any node.                *)
(***************************************************************************)
EXTENDS Naturals, FiniteSets

CONSTANTS
  Request,      \* slots of concurrent requests
  Center, Child,   \* two companies; the second may be a subsidiary of the first
  Limit,        \* requests_per_minute
  MaxRetries,   \* retries of a transient Neo4j error
  MaxLoads      \* bound: how often the loader is started

ASSUME CorpGraphAssumption ==
  /\ Center # Child
  /\ Limit \in Nat \ {0} /\ MaxRetries \in Nat /\ MaxLoads \in Nat

Company == {Center, Child}
Graph == [nodes : SUBSET Company, links : SUBSET {<<Center, Child>>}]
Empty == [nodes |-> {}, links |-> {}]

\* What is cached separately: a company, a listing or search, a network.
Key == {"company", "listing", "network"}

VARIABLES
  upstream,   \* what Wikidata declares
  graph,      \* Neo4j
  cache,      \* Redis: the answers held; a key out of its domain is a miss
  redisUp,
  at,         \* where each request is
  key,        \* what it asks for
  tries,      \* its transient failures
  saw,        \* what it has read of the graph
  status,     \* the status of its answer, 0 before
  count,      \* the rate counter in Redis
  accepted,   \* the requests let through in the counter's window
  wiped,      \* whether the loader dropped that counter within the window
  loader,     \* the loader's step
  snapshot, scanned,   \* what the loader collected, and the keys it found
  failed,     \* whether a load failed since the last complete one
  straddling, \* requests that queried before the loader looked for keys
  late,       \* keys stored by such a request after that
  loads

requestVars == <<at, key, tries, saw, status>>
rateVars == <<count, accepted, wiped>>
loaderVars == <<loader, snapshot, scanned, failed, straddling, loads>>
graphVars == <<upstream, graph, cache, redisUp, late>>
vars == <<graphVars, requestVars, rateVars, loaderVars>>

Place == {"idle", "counting", "cache", "center", "rows", "store", "answered"}
LoadStep == {"idle", "delete", "companies", "relationships", "scan", "drop"}

\* What the graph answers to a question; an unknown company is a 404.
Known(k, g) == k = "listing" \/ Center \in g.nodes

Answer(k, g) ==
  CASE k = "company" -> [nodes |-> {Center}, links |-> {}]
    [] k = "listing" -> [nodes |-> g.nodes, links |-> {}]
    [] k = "network" -> [nodes |-> {Center} \cup UNION {{l[1], l[2]} : l \in g.links},
                         links |-> g.links]

CorpGraphTypeOK ==
  /\ upstream \in Graph /\ graph \in Graph /\ snapshot \in Graph
  /\ DOMAIN cache \subseteq Key /\ \A k \in DOMAIN cache : cache[k] \in Graph
  /\ redisUp \in BOOLEAN /\ wiped \in BOOLEAN /\ failed \in BOOLEAN
  /\ at \in [Request -> Place] /\ key \in [Request -> Key]
  /\ tries \in [Request -> 0 .. MaxRetries] /\ saw \in [Request -> Graph]
  /\ status \in [Request -> {0, 200, 401, 404, 429, 500, 503, 504}]
  /\ count \in 0 .. (Limit + 1) /\ accepted \in 0 .. (Limit * (MaxLoads + 1))
  /\ loader \in LoadStep /\ scanned \subseteq Key \cup {"ratelimit"}
  /\ straddling \subseteq Request /\ late \subseteq DOMAIN cache /\ loads \in 0 .. MaxLoads

CorpGraphInit ==
  /\ upstream = [nodes |-> {Center}, links |-> {}] /\ graph = upstream
  /\ cache = [k \in {} |-> Empty] /\ redisUp = TRUE /\ late = {}
  /\ at = [r \in Request |-> "idle"] /\ key = [r \in Request |-> "listing"]
  /\ tries = [r \in Request |-> 0] /\ saw = [r \in Request |-> Empty]
  /\ status = [r \in Request |-> 0]
  /\ count = 0 /\ accepted = 0 /\ wiped = FALSE
  /\ loader = "idle" /\ snapshot = Empty /\ scanned = {} /\ failed = FALSE
  /\ straddling = {} /\ loads = 0

-----------------------------------------------------------------------------
\* A step of request r: its place, its failures so far and what it has read.
GoOn(r, place, t, read) ==
  /\ at' = [at EXCEPT ![r] = place]
  /\ tries' = [tries EXCEPT ![r] = t] /\ saw' = [saw EXCEPT ![r] = read]
  /\ UNCHANGED <<key, status, straddling>>

Reply(r, code) ==
  /\ at' = [at EXCEPT ![r] = "answered"] /\ status' = [status EXCEPT ![r] = code]
  /\ key' = [key EXCEPT ![r] = "listing"] /\ straddling' = straddling \ {r}
  /\ tries' = [tries EXCEPT ![r] = 0] /\ saw' = [saw EXCEPT ![r] = Empty]

Others == <<graphVars, loader, snapshot, scanned, failed, loads>>

\* Routes and their parameters; queries are built from an allowlist.
Arrive(r, k) ==
  /\ at[r] = "idle"
  /\ at' = [at EXCEPT ![r] = "counting"] /\ key' = [key EXCEPT ![r] = k]
  /\ UNCHANGED <<tries, saw, status, straddling, rateVars, Others>>

\* ApiSecurityMiddleware: a wrong key is turned away before it is counted.
Unauthorized(r) ==
  /\ at[r] = "counting" /\ Reply(r, 401) /\ UNCHANGED <<rateVars, Others>>

\* A slip in reach of this code: compared before it is counted.
CountRequestOffByOne(r) ==
  /\ at[r] = "counting" /\ redisUp
  /\ count' = IF count > Limit THEN count ELSE count + 1
  /\ IF count > Limit THEN Reply(r, 429) /\ UNCHANGED accepted
     ELSE GoOn(r, "cache", 0, Empty) /\ accepted' = accepted + 1
  /\ UNCHANGED <<wiped, Others>>

\* increment, atomic in Redis, and the comparison with the limit.
CountRequest(r) ==
  /\ at[r] = "counting" /\ redisUp
  /\ count' = IF count > Limit THEN count ELSE count + 1
  /\ IF count' > Limit THEN Reply(r, 429) /\ UNCHANGED accepted
     ELSE GoOn(r, "cache", 0, Empty) /\ accepted' = accepted + 1
  /\ UNCHANGED <<wiped, Others>>

\* Any Redis error, here or at the cache, ends the request with a 503.
CacheError(r) ==
  /\ at[r] \in {"counting", "cache", "store"} /\ ~redisUp
  /\ Reply(r, 503) /\ UNCHANGED <<rateVars, Others>>

\* A network asks for its center first.
ReadCache(r) ==
  /\ at[r] = "cache" /\ redisUp
  /\ IF key[r] \in DOMAIN cache THEN Reply(r, 200)
     ELSE GoOn(r, IF key[r] = "network" THEN "center" ELSE "rows", 0, Empty)
  /\ UNCHANGED <<rateVars, Others>>

QueryCenter(r) ==
  /\ at[r] = "center"
  /\ IF Known("network", graph) THEN GoOn(r, "rows", 0, Empty) ELSE Reply(r, 404)
  /\ UNCHANGED <<rateVars, Others>>

QueryRows(r) ==
  /\ at[r] = "rows"
  /\ IF key[r] = "company" /\ ~Known(key[r], graph) THEN Reply(r, 404)
     ELSE GoOn(r, "store", 0, Answer(key[r], graph))
  /\ UNCHANGED <<rateVars, Others>>

\* execute_query: a transient error is retried; the last attempt (503), a
\* timeout (504) and a rejected query (500) end the request.
QueryFails(r) ==
  /\ at[r] \in {"center", "rows"}
  /\ \/ tries[r] < MaxRetries /\ GoOn(r, at[r], tries[r] + 1, Empty)
     \/ tries[r] = MaxRetries /\ Reply(r, 503)
     \/ \E code \in {500, 504} : Reply(r, code)
  /\ UNCHANGED <<rateVars, Others>>

StoreAnswer(r) ==
  /\ at[r] = "store" /\ redisUp
  /\ cache' = [k \in DOMAIN cache \cup {key[r]} |-> IF k = key[r] THEN saw[r] ELSE cache[k]]
  /\ late' = IF r \in straddling THEN late \cup {key[r]} ELSE late \ {key[r]}
  /\ Reply(r, 200)
  /\ UNCHANGED <<upstream, graph, redisUp, rateVars, loader, snapshot, scanned, failed, loads>>

\* HttpMetricsMiddleware counts the answer in its finally clause.
Record(r) ==
  /\ at[r] = "answered"
  /\ at' = [at EXCEPT ![r] = "idle"] /\ status' = [status EXCEPT ![r] = 0]
  /\ UNCHANGED <<key, tries, saw, straddling, rateVars, Others>>

-----------------------------------------------------------------------------
\* A slip in reach of this code: a network is cached without a time to live.
ExpireUnlessNetwork(k) ==
  /\ k \in DOMAIN cache /\ k # "network"
  /\ cache' = [x \in DOMAIN cache \ {k} |-> cache[x]] /\ late' = late \ {k}
  /\ UNCHANGED <<upstream, graph, redisUp, requestVars, rateVars, loaderVars>>

\* The TTL of a key ends.
Expire(k) ==
  /\ k \in DOMAIN cache
  /\ cache' = [x \in DOMAIN cache \ {k} |-> cache[x]] /\ late' = late \ {k}
  /\ UNCHANGED <<upstream, graph, redisUp, requestVars, rateVars, loaderVars>>

WindowEnds ==
  /\ count > 0 \/ wiped
  /\ count' = 0 /\ accepted' = 0 /\ wiped' = FALSE /\ scanned' = scanned \ {"ratelimit"}
  /\ UNCHANGED <<graphVars, requestVars, loader, snapshot, failed, straddling, loads>>

RedisFlips ==
  /\ redisUp' = ~redisUp
  /\ UNCHANGED <<upstream, graph, cache, late, requestVars, rateVars, loaderVars>>

UpstreamMoves ==
  /\ upstream' = [nodes |-> Company, links |-> {<<Center, Child>>}] /\ upstream' # upstream
  /\ UNCHANGED <<graph, cache, redisUp, late, requestVars, rateVars, loaderVars>>

\* run: collect, write_snapshot, then load_public_data.
StartLoad(replace) ==
  /\ loader = "idle" /\ loads < MaxLoads
  /\ loads' = loads + 1 /\ snapshot' = upstream
  /\ loader' = IF replace THEN "delete" ELSE "companies"
  /\ UNCHANGED <<graphVars, requestVars, rateVars, scanned, failed, straddling>>

Rewrite(step, g, next) ==
  /\ loader = step /\ graph' = g /\ loader' = next
  /\ UNCHANGED <<upstream, cache, redisUp, late, requestVars, rateVars,
                 snapshot, scanned, failed, straddling, loads>>

\* --replace-wikidata: DETACH DELETE takes the relationships along.
DeleteOld == Rewrite("delete", Empty, "companies")

UpsertCompanies ==
  Rewrite("companies", [graph EXCEPT !.nodes = @ \cup snapshot.nodes], "relationships")

\* A slip in reach of this code: the loader leaves the cache alone.
UpsertAndLeave ==
  Rewrite("relationships",
          [graph EXCEPT !.links = @ \cup {l \in snapshot.links : {l[1], l[2]} \subseteq graph.nodes}],
          "idle")

\* public_relationship_query MATCHes both ends before it MERGEs.
UpsertRelationships ==
  Rewrite("relationships",
          [graph EXCEPT !.links = @ \cup {l \in snapshot.links : {l[1], l[2]} \subseteq graph.nodes}],
          "scan")

\* scan_iter(match="corpgraph:*"), which also finds the rate counters.
ScanKeys ==
  /\ loader = "scan" /\ redisUp
  /\ scanned' = DOMAIN cache \cup (IF count > 0 THEN {"ratelimit"} ELSE {}) /\ loader' = "drop"
  /\ straddling' = {r \in Request : at[r] \in {"center", "rows", "store"}}
  /\ UNCHANGED <<graphVars, requestVars, rateVars, snapshot, failed, loads>>

DropKeys ==
  /\ loader = "drop" /\ redisUp
  /\ cache' = [k \in DOMAIN cache \ scanned |-> cache[k]] /\ late' = late \ scanned
  /\ IF "ratelimit" \in scanned THEN wiped' = TRUE /\ count' = 0 ELSE UNCHANGED <<wiped, count>>
  /\ loader' = "idle" /\ failed' = FALSE /\ scanned' = {}
  /\ UNCHANGED <<upstream, graph, redisUp, requestVars, accepted, snapshot, straddling, loads>>

\* Any step raises, and the loader ends there; so does a kill.
LoadFails ==
  /\ loader # "idle"
  /\ loader' = "idle" /\ failed' = TRUE /\ scanned' = {}
  /\ UNCHANGED <<graphVars, requestVars, rateVars, snapshot, straddling, loads>>

LoaderNext ==
  \/ \E replace \in BOOLEAN : StartLoad(replace)
  \/ DeleteOld \/ UpsertCompanies \/ UpsertRelationships \/ ScanKeys \/ DropKeys \/ LoadFails

Serve(r) ==
  \/ Unauthorized(r) \/ CountRequest(r) \/ CacheError(r) \/ ReadCache(r)
  \/ QueryCenter(r) \/ QueryRows(r) \/ QueryFails(r) \/ StoreAnswer(r) \/ Record(r)

CorpGraphNext ==
  \/ \E r \in Request : Serve(r) \/ \E k \in Key : Arrive(r, k)
  \/ \E k \in Key : Expire(k)
  \/ WindowEnds \/ RedisFlips \/ UpstreamMoves \/ LoaderNext

\* The event loop runs every request; time passes.
CorpGraphFairness ==
  /\ \A r \in Request : WF_vars(Serve(r))
  /\ \A k \in Key : WF_vars(Expire(k))

CorpGraphSpec == CorpGraphInit /\ [][CorpGraphNext]_vars /\ CorpGraphFairness

-----------------------------------------------------------------------------
Stale(k) == ~Known(k, graph) \/ cache[k] # Answer(k, graph)

(* "Load collected public records and invalidate API caches"               *)
(* (load_public_data): after a complete load no cached answer differs from *)
(* the graph, but those that a request put back which had queried before.  *)
CacheFollowsLoad ==
  loader = "idle" /\ ~failed => \A k \in DOMAIN cache : Stale(k) => k \in late

(* At most Limit requests pass per window of the counter, unless the       *)
(* loader dropped the counter along with the cache.                        *)
LimitHolds == accepted <= Limit \/ wiped

(* Once the loader is at rest, stale answers are gone for good after a     *)
(* while: the time to live limits what the invalidation race leaves.       *)
StaleAnswersExpire ==
  <>[](loader = "idle") => <>[](\A k \in DOMAIN cache : ~Stale(k))
=============================================================================
