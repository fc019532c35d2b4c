-------------------------- MODULE CorpGraphProofs ---------------------------
(***************************************************************************)
(* The CorpGraph service and its console, for any number of requests,      *)
(* companies, records, nodes and links.  From the moment the loader has    *)
(* looked for keys the graph stands still, and only requests that had      *)
(* queried before can put anything older into the cache.  The collector    *)
(* holds what its breadth-first walk has reached; sets that no matching    *)
(* pair joins are never merged, whatever order pairs are compared in; and  *)
(* what the console shows belongs to the choice it names.                  *)
(***************************************************************************)
EXTENDS CorpGraph, WikidataCollector, EntityResolution, NetworkConsole,
        SequenceTheorems, DataLemmas

PlacesOK ==
  /\ at \in [Request -> Place] /\ key \in [Request -> Key]
  /\ saw = [r \in Request |-> saw[r]]
  /\ DOMAIN cache \subseteq Key
  /\ loader # "drop" => scanned = {}

\* The graph is final: a load is complete, or has only keys to drop.
Settled == loader = "drop" \/ (loader = "idle" /\ ~failed)

\* A request that is not marked holds what the graph answers.
UpToDate(r) ==
  r \notin straddling =>
    /\ at[r] = "store" => Known(key[r], graph) /\ saw[r] = Answer(key[r], graph)
    /\ at[r] = "rows" /\ key[r] = "network" => Known("network", graph)

RequestsUpToDate == Settled => \A r \in Request : UpToDate(r)

\* What is not about to be dropped is no older than the graph, or marked.
KeptIsFresh == Settled => \A k \in DOMAIN cache \ scanned : Stale(k) => k \in late

\* Within a window no more is accepted than counted, and counted up to Limit.
CountedFirst ==
  /\ count \in Nat /\ accepted \in Nat
  /\ wiped \/ (accepted <= count /\ accepted <= Limit)

CacheInv == PlacesOK /\ RequestsUpToDate /\ KeptIsFresh

-----------------------------------------------------------------------------
\* A request whose own reading is up to date harms nothing; its answer goes
\* into the cache last.
LEMMA RequestKeeps ==
  ASSUME CacheInv, NEW r \in Request, PlacesOK',
         UNCHANGED <<graph, loader, failed, scanned>>,
         \A q \in Request \ {r} :
           at'[q] = at[q] /\ key'[q] = key[q] /\ saw'[q] = saw[q]
             /\ (q \in straddling' <=> q \in straddling),
         Settled => UpToDate(r)', KeptIsFresh'
  PROVE  CacheInv'
<1>1. Settled' <=> Settled
  BY DEF Settled
<1>2. Settled => \A q \in Request \ {r} : UpToDate(q)'
  BY DEF CacheInv, RequestsUpToDate, UpToDate
<1>3. RequestsUpToDate'
  BY <1>1, <1>2 DEF RequestsUpToDate
<1> QED
  BY <1>3 DEF CacheInv

\* A reply ends what a request has read.
LEMMA ReplyEnds ==
  ASSUME PlacesOK, NEW r \in Request, NEW code, Reply(r, code)
  PROVE  /\ at' \in [Request -> Place] /\ key' \in [Request -> Key]
         /\ saw' = [q \in Request |-> saw'[q]] /\ at'[r] = "answered"
         /\ \A q \in Request \ {r} :
              at'[q] = at[q] /\ key'[q] = key[q] /\ saw'[q] = saw[q]
                /\ (q \in straddling' <=> q \in straddling)
  BY DEF PlacesOK, Reply, Place, Key

\* A step of a request.
LEMMA StepMoves ==
  ASSUME PlacesOK, NEW r \in Request, NEW place \in Place, NEW t, NEW read, GoOn(r, place, t, read)
  PROVE  /\ at' \in [Request -> Place] /\ key' = key /\ straddling' = straddling
         /\ saw' = [q \in Request |-> saw'[q]] /\ at'[r] = place /\ saw'[r] = read
         /\ \A q \in Request \ {r} :
              at'[q] = at[q] /\ key'[q] = key[q] /\ saw'[q] = saw[q]
                /\ (q \in straddling' <=> q \in straddling)
  BY DEF PlacesOK, GoOn

\* Nothing of the cache or the graph changes: what is kept stays fresh.
LEMMA SameCache ==
  ASSUME KeptIsFresh, UNCHANGED <<graphVars, loader, scanned, failed>>
  PROVE  KeptIsFresh'
  BY DEF KeptIsFresh, Settled, Stale, graphVars

\* Replies that read nothing.
LEMMA RepliesKeep ==
  ASSUME CacheInv, NEW r \in Request, NEW code, Reply(r, code), UNCHANGED Others
  PROVE  CacheInv'
<1>1. PlacesOK /\ KeptIsFresh /\ UNCHANGED <<graphVars, loader, scanned, failed>>
  BY DEF CacheInv, Others
<1>2. PlacesOK'
  BY <1>1, ReplyEnds DEF PlacesOK, graphVars
<1>3. UpToDate(r)'
  BY <1>1, ReplyEnds DEF UpToDate
<1> QED
  BY <1>1, <1>2, <1>3, ReplyEnds, SameCache, RequestKeeps DEF graphVars

\* Steps that read what the graph answers, or read nothing yet.
LEMMA StepsKeep ==
  ASSUME CacheInv, NEW r \in Request, NEW place \in Place, NEW t, NEW read,
         GoOn(r, place, t, read), UNCHANGED Others,
         place = "store" => read = Answer(key[r], graph) /\
           (Settled /\ r \notin straddling => Known(key[r], graph)),
         place = "rows" /\ key[r] = "network" =>
           (Settled /\ r \notin straddling => Known("network", graph))
  PROVE  CacheInv'
<1>1. PlacesOK /\ KeptIsFresh /\ UNCHANGED <<graphVars, loader, scanned, failed>>
  BY DEF CacheInv, Others
<1>2. PlacesOK'
  BY <1>1, StepMoves DEF PlacesOK, graphVars
<1>3. Settled => UpToDate(r)'
  BY <1>1, StepMoves DEF UpToDate, graphVars
<1> QED
  BY <1>1, <1>2, <1>3, StepMoves, SameCache, RequestKeeps DEF graphVars

\* The whole way of a request.
LEMMA ServeKeeps ==
  ASSUME CacheInv, NEW r \in Request, Serve(r)
  PROVE  CacheInv'
<1>1. PlacesOK /\ RequestsUpToDate /\ KeptIsFresh
  BY DEF CacheInv
<1>2. {"cache", "center", "rows", "store"} \subseteq Place /\ key[r] \in Key
  BY <1>1 DEF Place, PlacesOK
<1>3. CASE Unauthorized(r) \/ CacheError(r)
  BY <1>3, RepliesKeep DEF Unauthorized, CacheError
<1>4. CASE CountRequest(r)
  <2>1. (Reply(r, 429) \/ GoOn(r, "cache", 0, Empty)) /\ UNCHANGED Others
    BY <1>4 DEF CountRequest
  <2> QED
    BY <1>2, <2>1, RepliesKeep, StepsKeep
<1>5. CASE ReadCache(r)
  <2>1. /\ UNCHANGED Others
        /\ \/ Reply(r, 200)
           \/ key[r] = "network" /\ GoOn(r, "center", 0, Empty)
           \/ key[r] # "network" /\ GoOn(r, "rows", 0, Empty)
    BY <1>5 DEF ReadCache
  <2> QED
    BY <1>2, <2>1, RepliesKeep, StepsKeep
<1>6. CASE QueryCenter(r)
  <2>1. /\ UNCHANGED Others
        /\ \/ Reply(r, 404)
           \/ Known("network", graph) /\ GoOn(r, "rows", 0, Empty)
    BY <1>6 DEF QueryCenter
  <2> QED
    BY <1>2, <2>1, RepliesKeep, StepsKeep
<1>7. CASE QueryRows(r)
  <2>1. /\ UNCHANGED Others /\ at[r] = "rows"
        /\ \/ Reply(r, 404)
           \/ /\ key[r] = "company" => Known(key[r], graph)
              /\ GoOn(r, "store", 0, Answer(key[r], graph))
    BY <1>7 DEF QueryRows
  <2>2. Settled /\ r \notin straddling /\ key[r] = "network" => Known(key[r], graph)
    BY <1>1, <2>1 DEF RequestsUpToDate, UpToDate
  <2>3. key[r] = "listing" => Known(key[r], graph)
    BY DEF Known
  <2>4. CASE Reply(r, 404)
    BY <2>1, <2>4, RepliesKeep
  <2>5. CASE /\ key[r] = "company" => Known(key[r], graph)
             /\ GoOn(r, "store", 0, Answer(key[r], graph))
    <3>1. Settled /\ r \notin straddling => Known(key[r], graph)
      BY <1>2, <2>2, <2>3, <2>5 DEF Key
    <3> QED
      BY <1>2, <2>1, <2>5, <3>1, StepsKeep
  <2> QED
    BY <2>1, <2>4, <2>5
<1>8. CASE QueryFails(r)
  <2>1. /\ UNCHANGED Others /\ at[r] \in {"center", "rows"}
        /\ \/ \E code \in {500, 503, 504} : Reply(r, code)
           \/ GoOn(r, at[r], tries[r] + 1, Empty)
    BY <1>8 DEF QueryFails
  <2>2. at[r] = "rows" /\ key[r] = "network" =>
          (Settled /\ r \notin straddling => Known("network", graph))
    BY <1>1 DEF RequestsUpToDate, UpToDate
  <2> QED
    BY <1>2, <2>1, <2>2, RepliesKeep, StepsKeep
<1>9. CASE StoreAnswer(r)
  <2>1. /\ at[r] = "store" /\ Reply(r, 200)
        /\ cache' = [k \in DOMAIN cache \cup {key[r]} |-> IF k = key[r] THEN saw[r] ELSE cache[k]]
        /\ late' = IF r \in straddling THEN late \cup {key[r]} ELSE late \ {key[r]}
        /\ UNCHANGED <<graph, loader, scanned, failed>>
    BY <1>9 DEF StoreAnswer
  <2>2. PlacesOK'
    BY <1>1, <1>2, <2>1, ReplyEnds DEF PlacesOK
  <2>3. UpToDate(r)'
    BY <1>1, <2>1, ReplyEnds DEF UpToDate
  <2>4. ASSUME Settled, NEW k \in DOMAIN cache' \ scanned, Stale(k)'
        PROVE  k \in late'
    <3>1. CASE k = key[r]
      <4>1. cache'[k] = saw[r] /\ graph' = graph
        BY <2>1, <3>1
      <4>2. r \in straddling
        BY <1>1, <2>1, <2>4, <3>1, <4>1 DEF RequestsUpToDate, UpToDate, Stale
      <4> QED
        BY <2>1, <3>1, <4>2
    <3>2. CASE k # key[r]
      <4>1. k \in DOMAIN cache \ scanned /\ cache'[k] = cache[k] /\ graph' = graph
        BY <2>1, <3>2
      <4> QED
        BY <1>1, <2>1, <2>4, <3>2, <4>1 DEF KeptIsFresh, Stale
    <3> QED
      BY <3>1, <3>2
  <2>5. KeptIsFresh'
    BY <2>1, <2>4 DEF KeptIsFresh, Settled
  <2> QED
    BY <1>1, <2>1, <2>2, <2>3, <2>5, ReplyEnds, RequestKeeps
<1>10. CASE Record(r)
  <2>1. /\ at' = [at EXCEPT ![r] = "idle"] /\ UNCHANGED <<key, saw, straddling, Others>>
    BY <1>10 DEF Record
  <2>2. PlacesOK' /\ at'[r] = "idle" /\ \A q \in Request \ {r} : at'[q] = at[q]
    BY <1>1, <2>1 DEF PlacesOK, Others, graphVars, Place
  <2>3. UpToDate(r)' /\ KeptIsFresh'
    BY <1>1, <2>1, <2>2, SameCache DEF UpToDate, Others
  <2> QED
    BY <2>1, <2>2, <2>3, RequestKeeps DEF Others, graphVars
<1> QED
  BY <1>3, <1>4, <1>5, <1>6, <1>7, <1>8, <1>9, <1>10 DEF Serve

\* A new request has read nothing.
LEMMA ArriveKeeps ==
  ASSUME CacheInv, NEW r \in Request, NEW k \in Key, Arrive(r, k)
  PROVE  CacheInv'
<1>1. PlacesOK /\ KeptIsFresh
  BY DEF CacheInv
<1>2. /\ at' = [at EXCEPT ![r] = "counting"] /\ key' = [key EXCEPT ![r] = k]
      /\ UNCHANGED <<saw, straddling, Others>>
  BY DEF Arrive
<1>3. /\ PlacesOK' /\ at'[r] = "counting"
      /\ \A q \in Request \ {r} : at'[q] = at[q] /\ key'[q] = key[q]
  BY <1>1, <1>2 DEF PlacesOK, Others, graphVars, Place
<1>4. UpToDate(r)' /\ KeptIsFresh'
  BY <1>1, <1>2, <1>3, SameCache DEF UpToDate, Others
<1> QED
  BY <1>2, <1>3, <1>4, RequestKeeps DEF Others, graphVars

\* Requests stand still while the loader, the clock or Redis acts: then only
\* what is kept and what is marked matters.
LEMMA StandingStill ==
  ASSUME CacheInv, PlacesOK', UNCHANGED <<at, key, saw>>, KeptIsFresh',
         Settled' => \/ Settled /\ UNCHANGED <<graph, straddling>>
                     \/ \A r \in Request : r \in straddling' \/ at[r] \notin {"rows", "store"}
  PROVE  CacheInv'
<1>1. ASSUME Settled', NEW r \in Request
      PROVE  UpToDate(r)'
  <2>1. CASE Settled /\ UNCHANGED <<graph, straddling>>
    BY <2>1 DEF CacheInv, RequestsUpToDate, UpToDate
  <2>2. CASE r \in straddling' \/ at[r] \notin {"rows", "store"}
    BY <2>2 DEF UpToDate
  <2> QED
    BY <1>1, <2>1, <2>2
<1> QED
  BY <1>1 DEF CacheInv, RequestsUpToDate

\* The clock, Redis and the world upstream.
LEMMA SurroundingsKeep ==
  ASSUME CacheInv, (\E k \in Key : Expire(k)) \/ WindowEnds \/ RedisFlips \/ UpstreamMoves
  PROVE  CacheInv'
<1>1. PlacesOK /\ KeptIsFresh
  BY DEF CacheInv
<1>2. UNCHANGED <<at, key, saw, graph, straddling, loader, failed>> /\ (Settled' <=> Settled)
  <2>1. UNCHANGED <<at, key, saw, graph>>
    BY DEF Expire, WindowEnds, RedisFlips, UpstreamMoves, requestVars, graphVars
  <2>2. UNCHANGED <<straddling, loader, failed>>
    BY DEF Expire, WindowEnds, RedisFlips, UpstreamMoves, loaderVars
  <2> QED
    BY <2>1, <2>2 DEF Settled
<1>3. CASE \E k \in Key : Expire(k)
  <2>1. PICK k \in Key : /\ cache' = [x \in DOMAIN cache \ {k} |-> cache[x]]
                         /\ late' = late \ {k} /\ scanned' = scanned
    BY <1>3 DEF Expire, loaderVars
  <2>2. PlacesOK'
    BY <1>1, <1>2, <2>1 DEF PlacesOK
  <2>3. KeptIsFresh'
    BY <1>1, <1>2, <2>1 DEF KeptIsFresh, Stale
  <2> QED
    BY <1>2, <2>2, <2>3, StandingStill
<1>4. CASE WindowEnds
  <2>1. UNCHANGED <<cache, late>> /\ scanned' = scanned \ {"ratelimit"}
    BY <1>4 DEF WindowEnds, graphVars
  <2>2. PlacesOK' /\ DOMAIN cache \ scanned' \subseteq DOMAIN cache \ scanned
    BY <1>1, <1>2, <2>1 DEF PlacesOK, Key
  <2>3. KeptIsFresh'
    BY <1>1, <1>2, <2>1, <2>2 DEF KeptIsFresh, Stale
  <2> QED
    BY <1>2, <2>2, <2>3, StandingStill
<1>5. CASE RedisFlips \/ UpstreamMoves
  <2>1. UNCHANGED <<cache, late, scanned>>
    BY <1>5 DEF RedisFlips, UpstreamMoves, loaderVars
  <2>2. PlacesOK' /\ KeptIsFresh'
    BY <1>1, <1>2, <2>1 DEF PlacesOK, KeptIsFresh, Stale
  <2> QED
    BY <1>2, <2>2, StandingStill
<1> QED
  BY <1>3, <1>4, <1>5

\* The loader: nothing is promised while it rewrites the graph; when it looks
\* for keys all of them are found and all readers marked.
LEMMA LoaderKeeps ==
  ASSUME CacheInv, LoaderNext
  PROVE  CacheInv'
<1>1. PlacesOK /\ KeptIsFresh
  BY DEF CacheInv
<1>2. UNCHANGED <<at, key, saw>>
  BY DEF LoaderNext, StartLoad, DeleteOld, UpsertCompanies, UpsertRelationships, Rewrite, ScanKeys,
         DropKeys, LoadFails, requestVars
<1>3. CASE (\E replace \in BOOLEAN : StartLoad(replace)) \/ DeleteOld \/ UpsertCompanies
           \/ UpsertRelationships \/ LoadFails
  <2>1. ~Settled' /\ UNCHANGED cache /\ loader' # "drop"
    BY <1>3 DEF StartLoad, DeleteOld, UpsertCompanies, UpsertRelationships, Rewrite, LoadFails,
                graphVars, Settled
  <2>2. scanned' = {}
    BY <1>1, <1>3 DEF PlacesOK, StartLoad, DeleteOld, UpsertCompanies, UpsertRelationships, Rewrite,
                      LoadFails
  <2>3. PlacesOK' /\ KeptIsFresh'
    BY <1>1, <1>2, <2>1, <2>2 DEF PlacesOK, KeptIsFresh
  <2> QED
    BY <1>2, <2>1, <2>3, StandingStill
<1>4. CASE ScanKeys
  <2>1. /\ UNCHANGED cache /\ DOMAIN cache \subseteq scanned' /\ loader' = "drop"
        /\ straddling' = {r \in Request : at[r] \in {"center", "rows", "store"}}
    BY <1>4 DEF ScanKeys, graphVars
  <2>2. PlacesOK' /\ KeptIsFresh'
    BY <1>1, <1>2, <2>1 DEF PlacesOK, KeptIsFresh
  <2> QED
    BY <1>2, <2>1, <2>2, StandingStill
<1>5. CASE DropKeys
  <2>1. /\ loader = "drop" /\ loader' = "idle" /\ scanned' = {}
        /\ cache' = [k \in DOMAIN cache \ scanned |-> cache[k]] /\ late' = late \ scanned
        /\ UNCHANGED <<graph, straddling>>
    BY <1>5 DEF DropKeys
  <2>2. PlacesOK' /\ KeptIsFresh'
    BY <1>1, <1>2, <2>1 DEF PlacesOK, KeptIsFresh, Settled, Stale
  <2> QED
    BY <1>2, <2>1, <2>2, StandingStill DEF Settled
<1> QED
  BY <1>3, <1>4, <1>5 DEF LoaderNext

(* "Load collected public records and invalidate API caches": after a      *)
(* complete load, the cache differs from the graph only where a request    *)
(* had queried before the loader looked for keys, for any number of        *)
(* requests and loads, with Redis and the database failing at any time.    *)
THEOREM LoadsReachTheCache == CorpGraphSpec => []CacheFollowsLoad
<1>1. CorpGraphInit => CacheInv
  BY DEF CorpGraphInit, CacheInv, PlacesOK, RequestsUpToDate, UpToDate, KeptIsFresh, Place, Key
<1>2. CacheInv /\ [CorpGraphNext]_vars => CacheInv'
  <2> SUFFICES ASSUME CacheInv, [CorpGraphNext]_vars
               PROVE  CacheInv'
    OBVIOUS
  <2>1. ASSUME NEW r \in Request, Serve(r) \/ \E k \in Key : Arrive(r, k)
        PROVE  CacheInv'
    BY <2>1, ServeKeeps, ArriveKeeps
  <2>2. CASE (\E k \in Key : Expire(k)) \/ WindowEnds \/ RedisFlips \/ UpstreamMoves
    BY <2>2, SurroundingsKeep
  <2>3. CASE LoaderNext
    BY <2>3, LoaderKeeps
  <2>4. CASE UNCHANGED vars
    BY <2>4 DEF vars, graphVars, requestVars, rateVars, loaderVars, CacheInv, PlacesOK,
                RequestsUpToDate, UpToDate, KeptIsFresh, Settled, Stale
  <2> QED
    BY <2>1, <2>2, <2>3, <2>4 DEF CorpGraphNext
<1>3. CacheInv => CacheFollowsLoad
  BY DEF CacheInv, PlacesOK, KeptIsFresh, Settled, CacheFollowsLoad
<1> QED
  BY <1>1, <1>2, <1>3, PTL DEF CorpGraphSpec

(* ApiSecurityMiddleware counts in Redis before it compares, so whatever   *)
(* requests overlap, no more than Limit pass in a window, unless a load    *)
(* dropped the counter.                                                    *)
THEOREM LimitIsKept == CorpGraphSpec => []LimitHolds
<1>1. CorpGraphInit => CountedFirst
  BY CorpGraphAssumption DEF CorpGraphInit, CountedFirst
<1>2. CountedFirst /\ [CorpGraphNext]_vars => CountedFirst'
  <2> SUFFICES ASSUME CountedFirst, [CorpGraphNext]_vars
               PROVE  CountedFirst'
    OBVIOUS
  <2>1. ASSUME NEW r \in Request, CountRequest(r)
        PROVE  CountedFirst'
    BY <2>1, CorpGraphAssumption DEF CountRequest, CountedFirst
  <2>2. CASE WindowEnds \/ DropKeys
    BY <2>2, CorpGraphAssumption DEF WindowEnds, DropKeys, CountedFirst
  <2>3. CASE UNCHANGED rateVars
    BY <2>3 DEF rateVars, CountedFirst
  <2>4. \/ \E r \in Request : CountRequest(r)
        \/ WindowEnds \/ DropKeys
        \/ UNCHANGED rateVars
    BY DEF CorpGraphNext, vars, Serve, Arrive, Unauthorized, CacheError, ReadCache, QueryCenter,
           QueryRows, QueryFails, StoreAnswer, Record, Expire, RedisFlips, UpstreamMoves, LoaderNext,
           StartLoad, DeleteOld, UpsertCompanies, UpsertRelationships, Rewrite, ScanKeys, LoadFails
  <2> QED
    BY <2>1, <2>2, <2>3, <2>4
<1>3. CountedFirst => LimitHolds
  BY DEF CountedFirst, LimitHolds
<1> QED
  BY <1>1, <1>2, <1>3, PTL DEF CorpGraphSpec

-----------------------------------------------------------------------------
Below(P) == {c \in Item \ gone : \E p \in P : <<p, c>> \in declared}

\* The recursion that defines Within has a solution, so that Within is one.
LEMMA WithinIs ==
  /\ Within[0] = Roots \ gone
  /\ \A n \in 1 .. 3 : Within[n] = Within[n - 1] \cup Below(Within[n - 1])
<1> DEFINE w0 == Roots \ gone
           w1 == w0 \cup Below(w0)
           w2 == w1 \cup Below(w1)
           w3 == w2 \cup Below(w2)
           W == [n \in 0 .. 3 |-> IF n = 0 THEN w0 ELSE IF n = 1 THEN w1 ELSE IF n = 2 THEN w2 ELSE w3]
           Equation(f) == f = [n \in 0 .. 3 |-> IF n = 0 THEN Roots \ gone ELSE
                                f[n - 1] \cup {c \in Item \ gone : \E p \in f[n - 1] : <<p, c>> \in declared}]
<1>1. Equation(W)
  <2>1. W[0] = w0 /\ W[1] = w1 /\ W[2] = w2 /\ W[3] = w3
    OBVIOUS
  <2>2. w1 = W[0] \cup Below(W[0]) /\ w2 = W[1] \cup Below(W[1]) /\ w3 = W[2] \cup Below(W[2])
    BY <2>1
  <2>3. W = [n \in 0 .. 3 |-> W[n]]
    OBVIOUS
  <2>4. \A n \in 0 .. 3 : W[n] = IF n = 0 THEN Roots \ gone ELSE W[n - 1] \cup Below(W[n - 1])
    <3> HIDE DEF W, w1, w2, w3
    <3> SUFFICES ASSUME NEW n \in 0 .. 3
                 PROVE  W[n] = IF n = 0 THEN Roots \ gone ELSE W[n - 1] \cup Below(W[n - 1])
      OBVIOUS
    <3>1. CASE n = 0
      BY <2>1, <3>1
    <3>2. CASE n = 1
      <4>1. n - 1 = 0 /\ n # 0 /\ W[n] = w1
        BY <2>1, <3>2
      <4>2. W[n] = W[0] \cup Below(W[0])
        BY <2>2, <4>1
      <4> QED
        BY <4>1, <4>2
    <3>3. CASE n = 2
      <4>1. n - 1 = 1 /\ n # 0 /\ W[n] = w2
        BY <2>1, <3>3
      <4>2. W[n] = W[1] \cup Below(W[1])
        BY <2>2, <4>1
      <4> QED
        BY <4>1, <4>2
    <3>4. CASE n = 3
      <4>1. n - 1 = 2 /\ n # 0 /\ W[n] = w3
        BY <2>1, <3>4
      <4>2. W[n] = W[2] \cup Below(W[2])
        BY <2>2, <4>1
      <4> QED
        BY <4>1, <4>2
    <3> QED
      BY <3>1, <3>2, <3>3, <3>4
  <2> HIDE DEF W
  <2> QED
    BY <2>3, <2>4 DEF Below
<1> HIDE DEF W
<1>2. \E f : Equation(f)
  BY <1>1
<1>3. Within = CHOOSE f : Equation(f)
  BY DEF Within
<1>4. Equation(Within)
  BY <1>2, <1>3
<1>5. \A n \in 0 .. 3 : Within[n] = IF n = 0 THEN Roots \ gone ELSE Within[n - 1] \cup Below(Within[n - 1])
  <2> SUFFICES ASSUME NEW n \in 0 .. 3
               PROVE  Within[n] = IF n = 0 THEN Roots \ gone ELSE Within[n - 1] \cup Below(Within[n - 1])
    OBVIOUS
  <2> HIDE DEF w0, w1, w2, w3
  <2> QED
    BY <1>4 DEF Below
<1>6. ASSUME NEW n \in 1 .. 3
      PROVE  Within[n] = Within[n - 1] \cup Below(Within[n - 1])
  BY <1>5
<1> QED
  BY <1>5, <1>6

\* The children of a set of companies that are not known yet.
Discovered(known, from) == {c \in Item \ known : \E p \in from : <<p, c>> \in declared}

\* What the next level asks for.
LEMMA NextFrontier ==
  ASSUME NEW known, IsFiniteSet(known), known \subseteq Item, NEW from, cap \in Nat \ {0},
         Cardinality(known) <= cap \/ known \subseteq Roots,
         NEW next \in Frontiers(known, from)
  PROVE  /\ next \subseteq Discovered(known, from)
         /\ next = Discovered(known, from) \/ Cardinality(known \cup next) >= cap
         /\ Cardinality(known \cup next) <= cap \/ (next = {} /\ known \subseteq Roots)
<1> DEFINE discovered == Discovered(known, from)
           remaining == IF cap > Cardinality(known) THEN cap - Cardinality(known) ELSE 0
<1>1. IsFiniteSet(discovered) /\ discovered \cap known = {}
  BY CollectorAssumption, FS_Subset DEF Discovered
<1>2. Cardinality(known) \in Nat
  BY FS_CardinalityType
<1>3. \/ Cardinality(discovered) <= remaining /\ next = discovered
      \/ next \subseteq discovered /\ Cardinality(next) = remaining
  BY DEF Frontiers, kSubset, Discovered
<1> HIDE DEF discovered
<1>4. next \subseteq discovered
  BY <1>3
<1>5. IsFiniteSet(next) /\ Cardinality(next) \in Nat
  BY <1>1, <1>4, FS_Subset, FS_CardinalityType
<1>6. Cardinality(known \cup next) = Cardinality(known) + Cardinality(next)
  <2>1. known \cap next = {}
    BY <1>1, <1>4
  <2>2. Cardinality(known \cap next) = 0
    BY <2>1, FS_EmptySet
  <2>3. Cardinality(known \cup next) = Cardinality(known) + Cardinality(next) - Cardinality(known \cap next)
    BY <1>5, FS_Union
  <2> QED
    BY <1>2, <1>5, <2>2, <2>3
<1>7. Cardinality(next) <= remaining
  BY <1>2, <1>3
<1>8. Cardinality(next) = 0 => next = {}
  BY <1>5, FS_EmptySet
<1>9. next = discovered \/ Cardinality(known \cup next) >= cap
  BY <1>2, <1>3, <1>6
<1>10. Cardinality(known \cup next) <= cap \/ (next = {} /\ known \subseteq Roots)
  BY <1>2, <1>5, <1>6, <1>7, <1>8
<1> QED
  BY <1>4, <1>9, <1>10 DEF discovered

\* Each level holds the ones before it.
LEMMA WithinGrows ==
  ASSUME NEW n \in 0 .. 3, NEW m \in n .. 3
  PROVE  Within[n] \subseteq Within[m]
<1>1. \A k \in 1 .. 3 : Within[k - 1] \subseteq Within[k]
  BY WithinIs
<1>2. Within[0] \subseteq Within[1] /\ Within[1] \subseteq Within[2] /\ Within[2] \subseteq Within[3]
  <2>1. Within[1 - 1] \subseteq Within[1] /\ Within[2 - 1] \subseteq Within[2] /\ Within[3 - 1] \subseteq Within[3]
    BY <1>1
  <2> QED
    BY <2>1
<1>3. n \in {0, 1, 2, 3} /\ m \in {0, 1, 2, 3} /\ n <= m
  OBVIOUS
<1> QED
  BY <1>2, <1>3

\* A level that declares nothing new is the last.
LEMMA WithinStops ==
  ASSUME NEW n \in 0 .. 3, NEW m \in n .. 3, Below(Within[n]) \subseteq Within[n]
  PROVE  Within[m] = Within[n]
<1>1. ASSUME NEW k \in 1 .. 3, Within[k - 1] = Within[n]
      PROVE  Within[k] = Within[n]
  BY <1>1, WithinIs
<1>2. n + 1 <= 3 => Within[n + 1] = Within[n]
  <2>1. n + 1 <= 3 => n + 1 \in 1 .. 3 /\ (n + 1) - 1 = n
    OBVIOUS
  <2> QED
    BY <1>1, <2>1
<1>3. n + 2 <= 3 => Within[n + 2] = Within[n]
  <2>1. n + 2 <= 3 => n + 2 \in 1 .. 3 /\ (n + 2) - 1 = n + 1 /\ n + 1 <= 3
    OBVIOUS
  <2> QED
    BY <1>1, <1>2, <2>1
<1>4. n + 3 <= 3 => Within[n + 3] = Within[n]
  <2>1. n + 3 <= 3 => n + 3 \in 1 .. 3 /\ (n + 3) - 1 = n + 2 /\ n + 2 <= 3
    OBVIOUS
  <2> QED
    BY <1>1, <1>3, <2>1
<1>5. m = n \/ m = n + 1 \/ m = n + 2 \/ m = n + 3
  OBVIOUS
<1> QED
  BY <1>2, <1>3, <1>4, <1>5

-----------------------------------------------------------------------------
CollectorTypeOK ==
  /\ entities \subseteq Item \ gone /\ frontier \subseteq Item /\ gone \subseteq Item
  /\ depth \in 0 .. 3 /\ cap \in Nat \ {0}
  /\ stage \in {"roots", "children", "labels", "done", "failed"}

\* The companies known after n levels: all of them, or as many as the limit lets in.
Collected(known, n) ==
  /\ known \subseteq Within[n]
  /\ known = Within[n] \/ Cardinality(known \cup gone) >= cap
  /\ Cardinality(known) <= cap \/ known \subseteq Roots

\* The frontier completes the next level, unless the limit cut it short.
Underway ==
  /\ level \in 1 .. depth
  /\ entities \cup (frontier \ gone) \subseteq Within[level]
  /\ \/ entities = Within[level - 1] /\ entities \cup (frontier \ gone) = Within[level]
     \/ Cardinality((entities \cup frontier) \cup gone) >= cap
  /\ Cardinality(entities \cup frontier) <= cap

WalkOK ==
  /\ stage = "roots" => entities = {} /\ frontier = Roots
  /\ stage = "children" => Underway
  /\ stage = "labels" => Collected(entities, depth)
  /\ stage = "done" => Collected(snapshotOf.companies, depth)

CollectorInv == CollectorTypeOK /\ WalkOK

\* One answered batch completes a level, up to the limit.
LEMMA LevelComplete ==
  ASSUME CollectorInv, stage \in {"roots", "children"},
         NEW n, n = IF stage = "roots" THEN 0 ELSE level,
         NEW known, known = entities \cup (frontier \ gone)
  PROVE  /\ n \in 0 .. depth /\ known \subseteq Item \ gone /\ IsFiniteSet(known)
         /\ Collected(known, n)
         /\ (known = Within[n] /\ Below(entities) \subseteq known) \/ Cardinality(known \cup gone) >= cap
<1>0. CollectorTypeOK /\ WalkOK
  BY DEF CollectorInv
<1>1. known \subseteq Item \ gone /\ IsFiniteSet(known) /\ IsFiniteSet(entities \cup frontier)
  <2>1. known \subseteq Item \ gone /\ entities \cup frontier \subseteq Item
    BY <1>0 DEF CollectorTypeOK
  <2>2. known \in SUBSET Item /\ entities \cup frontier \in SUBSET Item
    BY <2>1
  <2> QED
    BY <2>1, <2>2, CollectorAssumption, FS_Subset
<1>2. CASE stage = "roots"
  <2>1. n = 0 /\ known = Roots \ gone /\ entities = {}
    BY <1>0, <1>2 DEF WalkOK
  <2>2. Within[0] = Roots \ gone
    BY WithinIs
  <2>3. n \in 0 .. depth
    BY <1>0, <2>1 DEF CollectorTypeOK
  <2> QED
    BY <1>1, <2>1, <2>2, <2>3 DEF Collected, Below
<1>3. CASE stage = "children"
  <2>1. n = level /\ Underway
    BY <1>0, <1>3 DEF WalkOK
  <2>2. n \in 0 .. depth /\ n \in 1 .. 3
    BY <1>0, <2>1 DEF Underway, CollectorTypeOK
  <2>3. known \cup gone = (entities \cup frontier) \cup gone
    OBVIOUS
  <2>4. \/ known = Within[n] /\ Below(entities) \subseteq known
        \/ Cardinality(known \cup gone) >= cap
    <3>1. CASE Cardinality((entities \cup frontier) \cup gone) >= cap
      BY <2>3, <3>1
    <3>2. CASE entities = Within[n - 1] /\ known = Within[n]
      BY <2>2, <3>2, WithinIs
    <3> QED
      BY <2>1, <3>1, <3>2 DEF Underway
  <2>5. Cardinality(known) <= cap
    <3>1. known \in SUBSET (entities \cup frontier)
      OBVIOUS
    <3>2. Cardinality(known) <= Cardinality(entities \cup frontier)
      BY <1>1, <3>1, FS_Subset
    <3>3. Cardinality(known) \in Nat /\ Cardinality(entities \cup frontier) \in Nat /\ cap \in Nat
      BY <1>0, <1>1, FS_CardinalityType DEF CollectorTypeOK
    <3> QED
      BY <2>1, <3>2, <3>3 DEF Underway
  <2> QED
    BY <1>1, <2>1, <2>2, <2>4, <2>5 DEF Collected, Underway
<1> QED
  BY <1>2, <1>3

\* What lies within reach changes only with what is declared and present.
LEMMA WithinStays ==
  ASSUME UNCHANGED <<declared, gone>>
  PROVE  Within' = Within
BY DEF Within

\* A level that has been fetched is the next one of the walk.
LEMMA FetchedKeeps ==
  ASSUME CollectorInv, Fetched
  PROVE  CollectorInv'
<1> DEFINE found == frontier \ gone
           known == entities \cup found
           n == IF stage = "roots" THEN 0 ELSE level
<1>0. CollectorTypeOK /\ WalkOK
  BY DEF CollectorInv
<1>1. /\ n \in 0 .. depth /\ known \subseteq Item \ gone /\ IsFiniteSet(known)
      /\ Collected(known, n)
      /\ (known = Within[n] /\ Below(entities) \subseteq known) \/ Cardinality(known \cup gone) >= cap
  BY LevelComplete DEF Fetched
<1>2. /\ entities' = known /\ UNCHANGED <<declared, officer, gone, retired, depth, cap, snapshotOf>>
      /\ \E next \in IF n < depth THEN Frontiers(known, found) ELSE {{}} :
           /\ frontier' = next
           /\ IF next = {} THEN stage' = "labels" /\ UNCHANGED level
              ELSE stage' = "children" /\ level' = n + 1
  BY DEF Fetched
<1>3. Within' = Within
  BY <1>2, WithinStays
<1>4. \A K, m : Collected(K, m)' = Collected(K, m)
  BY <1>2, <1>3 DEF Collected
<1>5. depth \in 0 .. 3 /\ n \in 0 .. 3 /\ depth \in n .. 3 /\ n \in Nat /\ cap \in Nat \ {0} /\ gone \subseteq Item
  BY <1>0, <1>1 DEF CollectorTypeOK
<1>6. found \subseteq known /\ known = entities \cup found
  OBVIOUS
<1> HIDE DEF n, known, found
<1>7. PICK next : /\ next \in IF n < depth THEN Frontiers(known, found) ELSE {{}}
                  /\ frontier' = next
                  /\ IF next = {} THEN stage' = "labels" /\ UNCHANGED level
                     ELSE stage' = "children" /\ level' = n + 1
  BY <1>2
<1>8. CASE n = depth
  <2>1. next = {}
    BY <1>5, <1>7, <1>8
  <2>2. CollectorTypeOK'
    BY <1>0, <1>1, <1>2, <1>7, <2>1 DEF CollectorTypeOK
  <2>3. WalkOK'
    BY <1>1, <1>2, <1>4, <1>7, <1>8, <2>1 DEF WalkOK, Collected
  <2> QED
    BY <2>2, <2>3 DEF CollectorInv
<1>9. CASE n < depth
  <2> DEFINE discovered == Discovered(known, found)
  <2>1. /\ next \subseteq discovered
        /\ next = discovered \/ Cardinality(known \cup next) >= cap
        /\ Cardinality(known \cup next) <= cap \/ (next = {} /\ known \subseteq Roots)
    <3>1. next \in Frontiers(known, found)
      BY <1>7, <1>9
    <3>2. known \subseteq Item /\ (Cardinality(known) <= cap \/ known \subseteq Roots)
      BY <1>1 DEF Collected
    <3> QED
      BY <1>1, <1>5, <3>1, <3>2, NextFrontier
  <2>2. next \subseteq Item
    BY <2>1 DEF Discovered
  <2>3. IsFiniteSet(known \cup gone) /\ IsFiniteSet((known \cup next) \cup gone)
    <3>1. known \cup gone \in SUBSET Item /\ (known \cup next) \cup gone \in SUBSET Item
      BY <1>1, <1>5, <2>2
    <3> QED
      BY <3>1, CollectorAssumption, FS_Subset
  <2>4. /\ Cardinality(known) >= cap => Cardinality(known \cup gone) >= cap
        /\ Cardinality(known \cup gone) >= cap => Cardinality((known \cup next) \cup gone) >= cap
        /\ Cardinality(known \cup next) >= cap => Cardinality((known \cup next) \cup gone) >= cap
    <3>1. /\ known \in SUBSET (known \cup gone) /\ known \cup gone \in SUBSET ((known \cup next) \cup gone)
          /\ known \cup next \in SUBSET ((known \cup next) \cup gone)
      OBVIOUS
    <3>2. /\ Cardinality(known) <= Cardinality(known \cup gone)
          /\ Cardinality(known \cup gone) <= Cardinality((known \cup next) \cup gone)
          /\ Cardinality(known \cup next) <= Cardinality((known \cup next) \cup gone)
          /\ IsFiniteSet(known \cup next)
      BY <2>3, <3>1, FS_Subset
    <3>3. /\ Cardinality(known) \in Nat /\ Cardinality(known \cup gone) \in Nat
          /\ Cardinality((known \cup next) \cup gone) \in Nat /\ Cardinality(known \cup next) \in Nat
      BY <1>1, <2>3, <3>2, FS_CardinalityType
    <3> QED
      BY <1>5, <3>2, <3>3
  <2>5. known \cup (discovered \ gone) = known \cup Below(found)
    BY <1>1 DEF Below, Discovered
  <2>6. ASSUME known = Within[n], Below(entities) \subseteq known
        PROVE  known \cup (discovered \ gone) = known \cup Below(known)
    BY <1>6, <2>5, <2>6 DEF Below
  <2>7. n + 1 \in 1 .. 3 /\ (n + 1) - 1 = n /\ n + 1 \in 1 .. depth
    BY <1>5, <1>9
  <2>8. Within[n + 1] = Within[n] \cup Below(Within[n])
    BY <2>7, WithinIs
  <2> HIDE DEF discovered
  <2>9. CASE next = {}
    <3>1. CollectorTypeOK'
      BY <1>0, <1>1, <1>2, <1>7, <2>9 DEF CollectorTypeOK
    <3>2. known \subseteq Within[depth]
      BY <1>1, <1>5, WithinGrows DEF Collected
    <3>3. known = Within[depth] \/ Cardinality(known \cup gone) >= cap
      <4>1. CASE Cardinality(known \cup gone) >= cap
        BY <4>1
      <4>2. CASE known = Within[n] /\ Below(entities) \subseteq known /\ discovered = {}
        <5>1. Below(Within[n]) \subseteq Within[n]
          BY <2>6, <4>2
        <5> QED
          BY <1>5, <4>2, <5>1, WithinStops
      <4>3. CASE Cardinality(known \cup next) >= cap
        <5>1. known \cup next = known
          BY <2>9
        <5> QED
          BY <2>4, <4>3, <5>1
      <4> QED
        BY <1>1, <2>1, <2>9, <4>1, <4>2, <4>3
    <3>4. Collected(known, depth)
      BY <1>1, <3>2, <3>3 DEF Collected
    <3>5. WalkOK'
      BY <1>2, <1>4, <1>7, <2>9, <3>4 DEF WalkOK
    <3> QED
      BY <3>1, <3>5 DEF CollectorInv
  <2>10. CASE next # {}
    <3>1. stage' = "children" /\ level' = n + 1 /\ frontier' = next
      BY <1>7, <2>10
    <3>2. CollectorTypeOK'
      BY <1>0, <1>1, <1>2, <2>2, <3>1 DEF CollectorTypeOK
    <3>3. known \cup (next \ gone) \subseteq Within[n + 1]
      <4>1. next \ gone \subseteq Below(found) \cup known
        BY <2>1, <2>5
      <4>2. Below(found) \subseteq Below(Within[n]) /\ known \subseteq Within[n]
        BY <1>1, <1>6 DEF Below, Collected
      <4> QED
        BY <2>8, <4>1, <4>2
    <3>4. \/ known = Within[n] /\ known \cup (next \ gone) = Within[n + 1]
          \/ Cardinality((known \cup next) \cup gone) >= cap
      <4>1. CASE Cardinality(known \cup gone) >= cap \/ Cardinality(known \cup next) >= cap
        BY <2>4, <4>1
      <4>2. CASE known = Within[n] /\ Below(entities) \subseteq known /\ next = discovered
        BY <2>6, <2>8, <4>2
      <4> QED
        BY <1>1, <2>1, <4>1, <4>2
    <3>5. Cardinality(known \cup next) <= cap
      BY <2>1, <2>10
    <3>6. Underway'
      BY <1>2, <1>3, <2>7, <3>1, <3>3, <3>4, <3>5 DEF Underway
    <3>7. WalkOK'
      BY <3>1, <3>6 DEF WalkOK
    <3> QED
      BY <3>2, <3>7 DEF CollectorInv
  <2> QED
    BY <2>9, <2>10
<1> QED
  BY <1>1, <1>5, <1>8, <1>9

\* Every step of the collector keeps its invariant.
LEMMA CollectorStep == CollectorInv /\ [CollectorNext]_collectorVars => CollectorInv'
<1> SUFFICES ASSUME CollectorInv, [CollectorNext]_collectorVars PROVE CollectorInv'
  OBVIOUS
<1>0. CollectorTypeOK /\ WalkOK
  BY DEF CollectorInv
<1>1. CASE Fetched
  BY <1>1, FetchedKeeps
<1>2. ASSUME UNCHANGED <<declared, gone, depth, cap, level, entities, frontier>>
      PROVE  /\ stage' = "failed" => CollectorInv'
             /\ UNCHANGED <<stage, snapshotOf>> => CollectorInv'
             /\ stage = "labels" /\ stage' = "done" /\ snapshotOf'.companies = entities => CollectorInv'
  <2>1. Within' = Within
    BY <1>2, WithinStays
  <2>2. \A K, m : Collected(K, m)' = Collected(K, m)
    BY <1>2, <2>1 DEF Collected
  <2>3. Underway' = Underway
    BY <1>2, <2>1 DEF Underway
  <2>4. stage' = "failed" => CollectorInv'
    BY <1>0, <1>2 DEF CollectorInv, CollectorTypeOK, WalkOK
  <2>5. ASSUME UNCHANGED <<stage, snapshotOf>>
        PROVE  CollectorInv'
    BY <1>0, <1>2, <2>2, <2>3, <2>5 DEF CollectorInv, CollectorTypeOK, WalkOK
  <2>6. ASSUME stage = "labels", stage' = "done", snapshotOf'.companies = entities
        PROVE  CollectorInv'
    <3>1. Collected(entities, depth)
      BY <1>0, <2>6 DEF WalkOK
    <3>2. CollectorTypeOK'
      BY <1>0, <1>2, <2>6 DEF CollectorTypeOK
    <3>3. WalkOK'
      BY <1>2, <2>2, <2>6, <3>1 DEF WalkOK
    <3> QED
      BY <3>2, <3>3 DEF CollectorInv
  <2> QED
    BY <2>4, <2>5, <2>6
<1>3. CASE Built
  BY <1>2, <1>3 DEF Built
<1>4. ASSUME NEW transient \in BOOLEAN, AttemptFails(transient)
      PROVE  CollectorInv'
  BY <1>2, <1>4 DEF AttemptFails
<1>5. CASE UNCHANGED collectorVars
  BY <1>2, <1>5 DEF collectorVars
<1> QED
  BY <1>1, <1>3, <1>4, <1>5 DEF CollectorNext

\* The walk starts at its roots.
LEMMA CollectorInitial == CollectorInit => CollectorInv
<1> SUFFICES ASSUME CollectorInit PROVE CollectorInv
  OBVIOUS
<1>1. depth \in 0 .. 3 /\ cap \in Nat \ {0} /\ gone \subseteq Item
  BY CollectorAssumption DEF CollectorInit
<1>2. CollectorTypeOK
  BY <1>1, CollectorAssumption DEF CollectorInit, CollectorTypeOK
<1> QED
  BY <1>2 DEF CollectorInit, CollectorInv, WalkOK

\* For any items and declarations, cyclic ones too, the collector saves the
\* companies within its depth and no others, or all that its limit allows,
\* however often an attempt fails before.
THEOREM CollectorTheorem == CollectorSpec => []CollectsWithinReach
<1>1. CollectorInit => CollectorInv
  BY CollectorInitial
<1>2. CollectorInv /\ [CollectorNext]_collectorVars => CollectorInv'
  BY CollectorStep
<1>3. CollectorInv => CollectsWithinReach
  BY DEF CollectorInv, WalkOK, Collected, CollectsWithinReach
<1> QED
  BY <1>1, <1>2, <1>3, PTL DEF CollectorSpec

-----------------------------------------------------------------------------
\* Of two different names one comes first.
LEMMA AlphabeticalTotal ==
  ASSUME NEW n \in Nat, NEW a \in [1 .. n -> Nat], NEW b \in [1 .. n -> Nat], a # b
  PROVE  Alphabetical(a, b) \/ Alphabetical(b, a)
<1> DEFINE differ == {m \in 1 .. n : a[m] # b[m]}
<1>1. differ # {} /\ differ \subseteq Nat
  <2>1. PICK m \in 1 .. n : a[m] # b[m]
    OBVIOUS
  <2>2. m \in differ
    BY <2>1
  <2>3. differ \subseteq Nat
    OBVIOUS
  <2> HIDE DEF differ
  <2> QED
    BY <2>2, <2>3
<1>2. PICK k \in differ : \A m \in differ : k <= m
  BY <1>1, LeastNat
<1>3. k \in DOMAIN a /\ k \in DOMAIN b /\ \A m \in 1 .. k - 1 : a[m] = b[m]
  BY <1>2
<1>4. a[k] \in Nat /\ b[k] \in Nat /\ a[k] # b[k]
  BY <1>2
<1>5. CASE a[k] < b[k]
  BY <1>3, <1>5 DEF Alphabetical
<1>6. CASE b[k] < a[k]
  <2>1. \A m \in 1 .. k - 1 : b[m] = a[m]
    BY <1>3
  <2> QED
    BY <1>3, <1>6, <2>1 DEF Alphabetical
<1> QED
  BY <1>4, <1>5, <1>6

\* What comes before one that comes before a third comes before it.
LEMMA AlphabeticalTransitive ==
  ASSUME NEW n \in Nat, NEW a \in [1 .. n -> Nat], NEW b \in [1 .. n -> Nat], NEW c \in [1 .. n -> Nat],
         Alphabetical(a, b), Alphabetical(b, c)
  PROVE  Alphabetical(a, c)
<1>1. PICK j \in 1 .. n : a[j] < b[j] /\ \A m \in 1 .. j - 1 : a[m] = b[m]
  BY DEF Alphabetical
<1>2. PICK k \in 1 .. n : b[k] < c[k] /\ \A m \in 1 .. k - 1 : b[m] = c[m]
  BY DEF Alphabetical
<1>3. \A m \in 1 .. n : a[m] \in Nat /\ b[m] \in Nat /\ c[m] \in Nat
  OBVIOUS
<1>4. CASE j <= k
  <2>1. a[j] < c[j] /\ \A m \in 1 .. j - 1 : a[m] = c[m]
    <3>1. b[j] <= c[j]
      <4>1. CASE j = k
        BY <1>2, <1>3, <4>1
      <4>2. CASE j < k
        <5>1. j \in 1 .. k - 1
          BY <4>2
        <5> QED
          BY <1>2, <1>3, <5>1
      <4> QED
        BY <1>4, <4>1, <4>2
    <3>2. \A m \in 1 .. j - 1 : a[m] = b[m] /\ b[m] = c[m]
      <4>1. 1 .. j - 1 \subseteq 1 .. k - 1
        BY <1>4
      <4> QED
        BY <1>1, <1>2, <4>1
    <3> QED
      BY <1>1, <1>3, <3>1, <3>2
  <2> QED
    BY <2>1 DEF Alphabetical
<1>5. CASE k < j
  <2>1. a[k] < c[k] /\ \A m \in 1 .. k - 1 : a[m] = c[m]
    <3>1. a[k] = b[k]
      BY <1>1, <1>5
    <3>2. \A m \in 1 .. k - 1 : a[m] = b[m] /\ b[m] = c[m]
      BY <1>1, <1>2, <1>5
    <3> QED
      BY <1>2, <1>3, <3>1, <3>2
  <2> QED
    BY <2>1 DEF Alphabetical
<1> QED
  BY <1>4, <1>5

\* No name comes before itself, nor before one that comes before it.
LEMMA AlphabeticalStrict ==
  ASSUME NEW n \in Nat, NEW a \in [1 .. n -> Nat], NEW b \in [1 .. n -> Nat], Alphabetical(a, b)
  PROVE  a # b /\ ~Alphabetical(b, a)
<1>1. PICK j \in 1 .. n : a[j] < b[j] /\ \A m \in 1 .. j - 1 : a[m] = b[m]
  BY DEF Alphabetical
<1>2. \A m \in 1 .. n : a[m] \in Nat /\ b[m] \in Nat
  OBVIOUS
<1>3. a # b
  BY <1>1, <1>2
<1>4. ASSUME NEW k \in 1 .. n, b[k] < a[k], \A m \in 1 .. k - 1 : b[m] = a[m]
      PROVE  FALSE
  BY <1>1, <1>2, <1>4
<1> QED
  BY <1>3, <1>4 DEF Alphabetical


RecordsOK == records \in [Index -> Description]

\* What a record is ranked by can be compared: a count, and a name.
LEMMA Rankable ==
  ASSUME RecordsOK, NEW i \in Index
  PROVE  /\ Populated(records[i]) \in Nat /\ Len(records[i].name) \in Nat
         /\ records[i].name \in [1 .. Len(records[i].name) -> Nat]
         /\ records[i].name \in Seq(Nat) /\ records[i].name # <<>>
<1> DEFINE fields == {"place", "number", "year"}
<1>1. records[i].name \in Seq(Nat) /\ records[i].name # <<>>
  BY ResolutionAssumption DEF RecordsOK
<1>2. Len(records[i].name) \in Nat /\ records[i].name \in [1 .. Len(records[i].name) -> Nat]
  BY <1>1, LenProperties
<1>3. IsFiniteSet(fields)
  <2>1. IsFiniteSet({"place"})
    BY FS_Singleton
  <2>2. IsFiniteSet({"place"} \cup {"number"})
    BY <2>1, FS_AddElement
  <2>3. IsFiniteSet(({"place"} \cup {"number"}) \cup {"year"})
    BY <2>2, FS_AddElement
  <2>4. fields = ({"place"} \cup {"number"}) \cup {"year"}
    OBVIOUS
  <2> QED
    BY <2>3, <2>4
<1>4. Populated(records[i]) \in Nat
  <2> DEFINE full == {f \in fields : records[i][f] # ""}
  <2>1. IsFiniteSet(full)
    BY <1>3, FS_Subset
  <2>2. Cardinality(full) \in Nat
    BY <2>1, FS_CardinalityType
  <2> QED
    BY <2>2 DEF Populated
<1> QED
  BY <1>1, <1>2, <1>4

\* Of two records one ranks.
LEMMA RanksTotal ==
  ASSUME RecordsOK, NEW i \in Index, NEW j \in Index
  PROVE  Ranks(i, j) \/ Ranks(j, i)
<1> DEFINE a == records[i]
           b == records[j]
<1>1. /\ Populated(a) \in Nat /\ Len(a.name) \in Nat /\ a.name \in [1 .. Len(a.name) -> Nat]
      /\ Populated(b) \in Nat /\ Len(b.name) \in Nat /\ b.name \in [1 .. Len(b.name) -> Nat]
  BY Rankable
<1>2. i \in Nat /\ j \in Nat
  BY DEF Index
<1>3. CASE Populated(a) = Populated(b) /\ Len(a.name) = Len(b.name)
  <2>1. CASE a.name = b.name
    BY <1>2, <1>3, <2>1 DEF Ranks
  <2>2. CASE a.name # b.name
    <3>1. Alphabetical(a.name, b.name) \/ Alphabetical(b.name, a.name)
      BY <1>1, <1>3, <2>2, AlphabeticalTotal
    <3> QED
      BY <1>3, <3>1 DEF Ranks
  <2> QED
    BY <2>1, <2>2
<1>4. CASE Populated(a) # Populated(b) \/ Len(a.name) # Len(b.name)
  BY <1>1, <1>4 DEF Ranks
<1> QED
  BY <1>3, <1>4

\* Of two pairs of numbers in order, one not the same, the outer are in order.
LEMMA PairsChain ==
  ASSUME NEW p \in Nat, NEW q \in Nat, NEW r \in Nat, NEW k \in Nat, NEW l \in Nat, NEW m \in Nat,
         p > q \/ (p = q /\ k <= l), q > r \/ (q = r /\ l <= m), ~(p = q /\ k = l /\ q = r /\ l = m)
  PROVE  p > r \/ (p = r /\ k < m)
OBVIOUS

\* Ranking can be chained.
LEMMA RanksTransitive ==
  ASSUME RecordsOK, NEW i \in Index, NEW j \in Index, NEW k \in Index, Ranks(i, j), Ranks(j, k)
  PROVE  Ranks(i, k)
<1> DEFINE a == records[i]
           b == records[j]
           c == records[k]
<1>1. /\ Populated(a) \in Nat /\ Len(a.name) \in Nat /\ a.name \in [1 .. Len(a.name) -> Nat]
      /\ Populated(b) \in Nat /\ Len(b.name) \in Nat /\ b.name \in [1 .. Len(b.name) -> Nat]
      /\ Populated(c) \in Nat /\ Len(c.name) \in Nat /\ c.name \in [1 .. Len(c.name) -> Nat]
  BY Rankable
<1>2. i \in Nat /\ j \in Nat /\ k \in Nat
  BY DEF Index
<1>3. CASE /\ Populated(a) = Populated(b) /\ Len(a.name) = Len(b.name)
           /\ Populated(b) = Populated(c) /\ Len(b.name) = Len(c.name)
  <2>1. Alphabetical(a.name, b.name) \/ (a.name = b.name /\ i <= j)
    BY <1>1, <1>3 DEF Ranks
  <2>2. Alphabetical(b.name, c.name) \/ (b.name = c.name /\ j <= k)
    BY <1>1, <1>3 DEF Ranks
  <2>3. Alphabetical(a.name, b.name) /\ Alphabetical(b.name, c.name) => Alphabetical(a.name, c.name)
    BY <1>1, <1>3, AlphabeticalTransitive
  <2>4. Alphabetical(a.name, c.name) \/ (a.name = c.name /\ i <= k)
    BY <1>2, <2>1, <2>2, <2>3
  <2> QED
    BY <1>3, <2>4 DEF Ranks
<1>4. CASE ~(/\ Populated(a) = Populated(b) /\ Len(a.name) = Len(b.name)
             /\ Populated(b) = Populated(c) /\ Len(b.name) = Len(c.name))
  <2>1. /\ Populated(a) > Populated(b) \/ (Populated(a) = Populated(b) /\ Len(a.name) <= Len(b.name))
        /\ Populated(b) > Populated(c) \/ (Populated(b) = Populated(c) /\ Len(b.name) <= Len(c.name))
    BY <1>1 DEF Ranks
  <2>2. Populated(a) > Populated(c) \/ (Populated(a) = Populated(c) /\ Len(a.name) < Len(c.name))
    <3>1. PICK p \in Nat, q \in Nat, r \in Nat :
            p = Populated(a) /\ q = Populated(b) /\ r = Populated(c)
      BY <1>1, Zenon
    <3>2. PICK u \in Nat, v \in Nat, w \in Nat :
            u = Len(a.name) /\ v = Len(b.name) /\ w = Len(c.name)
      BY <1>1, Zenon
    <3>3. p > q \/ (p = q /\ u <= v)
      BY <2>1, <3>1, <3>2
    <3>4. q > r \/ (q = r /\ v <= w)
      BY <2>1, <3>1, <3>2
    <3>5. ~(p = q /\ u = v /\ q = r /\ v = w)
      BY <1>4, <3>1, <3>2
    <3>6. p > r \/ (p = r /\ u < w)
      BY <3>3, <3>4, <3>5, PairsChain
    <3> QED
      BY <3>1, <3>2, <3>6
  <2> QED
    BY <2>2 DEF Ranks
<1> QED
  BY <1>3, <1>4

\* Two records never rank before each other: the index breaks ties.
LEMMA RanksAntisymmetric ==
  ASSUME RecordsOK, NEW i \in Index, NEW j \in Index, Ranks(i, j), Ranks(j, i)
  PROVE  i = j
<1> DEFINE a == records[i]
           b == records[j]
<1>1. /\ Populated(a) \in Nat /\ Len(a.name) \in Nat /\ a.name \in [1 .. Len(a.name) -> Nat]
      /\ Populated(b) \in Nat /\ Len(b.name) \in Nat /\ b.name \in [1 .. Len(b.name) -> Nat]
  BY Rankable
<1>2. i \in Nat /\ j \in Nat
  BY DEF Index
<1>3. Populated(a) = Populated(b) /\ Len(a.name) = Len(b.name)
  BY <1>1 DEF Ranks
<1>4. /\ Alphabetical(a.name, b.name) \/ (a.name = b.name /\ i <= j)
      /\ Alphabetical(b.name, a.name) \/ (b.name = a.name /\ j <= i)
  BY <1>1, <1>3 DEF Ranks
<1>5. ~(Alphabetical(a.name, b.name) /\ (Alphabetical(b.name, a.name) \/ a.name = b.name))
  BY <1>1, <1>3, AlphabeticalStrict
<1>6. ~(Alphabetical(b.name, a.name) /\ (Alphabetical(a.name, b.name) \/ a.name = b.name))
  BY <1>1, <1>3, AlphabeticalStrict
<1> QED
  BY <1>2, <1>4, <1>5, <1>6

\* Every set of records that is not empty has a first in rank.
LEMMA FirstInRank ==
  ASSUME RecordsOK, NEW some \in SUBSET Index, some # {}
  PROVE  \E j \in some : \A k \in some : Ranks(j, k)
<1> DEFINE R == {p \in Index \X Index : Ranks(p[1], p[2])}
<1>1. \A i, j \in Index : <<i, j>> \in R <=> Ranks(i, j)
  OBVIOUS
<1> HIDE DEF R
<1>2. IsFiniteSet(some)
  <2>1. IsFiniteSet(1 .. Size)
    BY FS_Interval, ResolutionAssumption
  <2> QED
    BY <2>1, FS_Subset DEF Index
<1>3. \A x, y \in some : <<x, y>> \in R \/ <<y, x>> \in R
  BY <1>1, RanksTotal
<1>4. \A x, y, z \in some : <<x, y>> \in R /\ <<y, z>> \in R => <<x, z>> \in R
  BY <1>1, RanksTransitive
<1>5. \E x \in some : \A y \in some : <<x, y>> \in R
  BY <1>2, <1>3, <1>4, FirstOfFinite
<1> QED
  BY <1>1, <1>5

-----------------------------------------------------------------------------
\* What matches and has been compared is joined.
Joined == \A p \in MatchingPairs : p \in todo \/ root[p[1]] = root[p[2]]

\* No cluster reaches across a set of records that no match leads out of.
Separate == \A apart \in SUBSET Index :
  (\A p \in MatchingPairs : p[1] \in apart <=> p[2] \in apart) =>
    \A i, j \in Index : root[i] = root[j] => (i \in apart <=> j \in apart)

\* Every pair of records is a link still to rewrite, a loop, or there already.
LinksKept ==
  /\ resolution = "matching" => links = {p \in Index \X Index : p[1] < p[2]}
  /\ resolution = "done" => links = {}
  /\ resolution # "matching" => \A i, j \in Index : i < j =>
       \/ <<i, j>> \in links \/ EntityId(i) = EntityId(j)
       \/ <<EntityId(i), EntityId(j)>> \in rewritten

ResolutionTypeOK ==
  /\ RecordsOK /\ root \in [Index -> Index] /\ todo \subseteq CandidatePairs(records)
  /\ resolution \in {"matching", "rewriting", "done"}
  /\ resolution # "matching" => todo = {}

ResolutionInv ==
  ResolutionTypeOK /\ Joined /\ Separate /\ ConflictsNeedABridge /\ LinksKept

\* A union joins two clusters and leaves the others as they are.
LEMMA UnionMerges ==
  ASSUME root \in [Index -> Index], NEW i \in Index, NEW j \in Index
  PROVE  /\ Union(i, j) \in [Index -> Index]
         /\ \A k, l \in Index : Union(i, j)[k] = Union(i, j)[l] <=>
              \/ root[k] = root[l]
              \/ root[k] \in {root[i], root[j]} /\ root[l] \in {root[i], root[j]}
<1>1. Lower(root[i], root[j]) \in {root[i], root[j]} /\ root[i] \in Index /\ root[j] \in Index
  BY DEF Lower
<1> QED
  BY <1>1 DEF Union

\* Candidates are pairs of records.
LEMMA CandidatesAre ==
  ASSUME NEW p \in CandidatePairs(records)
  PROVE  p[1] \in Index /\ p[2] \in Index /\ p = <<p[1], p[2]>>
<1>1. p \in Index \X Index
  BY DEF CandidatePairs
<1> QED
  BY <1>1

\* Of two pairs one comes first.
LEMMA BeforeTotal ==
  ASSUME NEW p \in Index \X Index, NEW q \in Index \X Index
  PROVE  Before(p, q) \/ Before(q, p)
BY DEF Before, Index

\* The order of pairs can be chained.
LEMMA BeforeTransitive ==
  ASSUME NEW p \in Index \X Index, NEW q \in Index \X Index, NEW r \in Index \X Index,
         Before(p, q), Before(q, r)
  PROVE  Before(p, r)
BY DEF Before, Index

\* The pair compared next exists.
LEMMA NextPair ==
  ASSUME NEW some \in SUBSET (Index \X Index), some # {}
  PROVE  \E p \in some : \A q \in some : Before(p, q)
<1> DEFINE R == {x \in (Index \X Index) \X (Index \X Index) : Before(x[1], x[2])}
<1>1. \A p, q \in Index \X Index : <<p, q>> \in R <=> Before(p, q)
  OBVIOUS
<1> HIDE DEF R
<1>2. IsFiniteSet(some)
  <2>1. IsFiniteSet(Index)
    BY FS_Interval, ResolutionAssumption DEF Index
  <2>2. IsFiniteSet(Index \X Index)
    BY <2>1, FS_Product
  <2> QED
    BY <2>2, FS_Subset
<1>3. \A x, y \in some : <<x, y>> \in R \/ <<y, x>> \in R
  BY <1>1, BeforeTotal
<1>4. \A x, y, z \in some : <<x, y>> \in R /\ <<y, z>> \in R => <<x, z>> \in R
  BY <1>1, BeforeTransitive
<1>5. \E x \in some : \A y \in some : <<x, y>> \in R
  BY <1>2, <1>3, <1>4, FirstOfFinite
<1> QED
  BY <1>1, <1>5

\* With no pair compared every record is a set of its own.
LEMMA ResolutionInitial == ResolutionInit => ResolutionInv
<1> SUFFICES ASSUME ResolutionInit PROVE ResolutionInv
  OBVIOUS
<1>1. root = [i \in Index |-> i] /\ RecordsOK /\ todo = CandidatePairs(records) /\ resolution = "matching"
  BY DEF ResolutionInit, RecordsOK
<1>2. ResolutionTypeOK
  BY <1>1 DEF ResolutionTypeOK
<1>3. Joined
  BY <1>1 DEF Joined, MatchingPairs
<1>4. Separate
  BY <1>1 DEF Separate
<1>5. ConflictsNeedABridge
  BY <1>1 DEF ConflictsNeedABridge, Conflicting
<1>6. LinksKept
  BY <1>1 DEF LinksKept, ResolutionInit
<1> QED
  BY <1>2, <1>3, <1>4, <1>5, <1>6 DEF ResolutionInv

\* A pair that matches is joined without a conflict, and without leaving a set no match leads out of.
LEMMA UnionKeeps ==
  ASSUME ResolutionTypeOK, Separate, ConflictsNeedABridge, UNCHANGED records,
         NEW p \in MatchingPairs, root' = Union(p[1], p[2])
  PROVE  Separate' /\ ConflictsNeedABridge'
<1> DEFINE i == p[1]
           j == p[2]
<1>1. i \in Index /\ j \in Index /\ Matches(records[i], records[j])
  BY CandidatesAre DEF MatchingPairs
<1>2. root \in [Index -> Index]
  BY DEF ResolutionTypeOK
<1>3. \A k, l \in Index : root'[k] = root'[l] <=>
        \/ root[k] = root[l]
        \/ root[k] \in {root[i], root[j]} /\ root[l] \in {root[i], root[j]}
  <2>1. ASSUME NEW a \in Index, NEW b \in Index
        PROVE  \A k, l \in Index : Union(a, b)[k] = Union(a, b)[l] <=>
                 \/ root[k] = root[l]
                 \/ root[k] \in {root[a], root[b]} /\ root[l] \in {root[a], root[b]}
    BY <1>2, UnionMerges
  <2> QED
    BY <1>1, <2>1
<1>4. MatchingPairs' = MatchingPairs
  BY DEF MatchingPairs
<1>5. Separate'
  <2> SUFFICES ASSUME NEW apart \in SUBSET Index,
                      \A q \in MatchingPairs : q[1] \in apart <=> q[2] \in apart,
                      NEW k \in Index, NEW l \in Index, root'[k] = root'[l]
               PROVE  k \in apart <=> l \in apart
    BY <1>4 DEF Separate
  <2>1. \A m, n \in Index : root[m] = root[n] => (m \in apart <=> n \in apart)
    BY DEF Separate
  <2>2. i \in apart <=> j \in apart
    OBVIOUS
  <2>3. \A m \in Index : root[m] \in {root[i], root[j]} => (m \in apart <=> i \in apart)
    BY <1>1, <2>1, <2>2
  <2> QED
    BY <1>3, <2>1, <2>3
<1>6. ConflictsNeedABridge'
  <2> SUFFICES ASSUME NEW k \in Index, NEW l \in Index, root'[k] = root'[l], Conflicting(k, l)
               PROVE  \E m \in Index : root'[m] = root'[k] /\ records[m].number = ""
    BY DEF ConflictsNeedABridge, Conflicting, Members
  <2>0. \A m, n \in Index : root[m] = root[n] /\ Conflicting(m, n)
                             => \E o \in Index : root[o] = root[m] /\ records[o].number = ""
    BY DEF ConflictsNeedABridge, Members
  <2>1. CASE root[k] = root[l]
    BY <1>3, <2>0, <2>1
  <2>2. CASE root[k] \in {root[i], root[j]} /\ root[l] \in {root[i], root[j]}
    <3>1. \A m \in Index : root[m] \in {root[i], root[j]} => root'[m] = root'[k]
      BY <1>3, <2>2
    <3>2. SUFFICES ASSUME \A m \in Index : root[m] \in {root[i], root[j]} => records[m].number # ""
                   PROVE  FALSE
      BY <3>1, <3>2
    <3>3. \A m, n \in Index : root[m] \in {root[i], root[j]} /\ root[m] = root[n]
                              => records[m].number = records[n].number
      BY <2>0, <3>2 DEF Conflicting
    <3>4. records[i].number = records[j].number
      BY <1>1, <3>2 DEF Matches
    <3>5. \A m \in Index : root[m] \in {root[i], root[j]} => records[m].number = records[i].number
      BY <1>1, <3>3, <3>4
    <3> QED
      BY <2>2, <3>5 DEF Conflicting
  <2> QED
    BY <1>3, <2>1, <2>2
<1> QED
  BY <1>5, <1>6

\* An entity keeps its id while no record and no set changes.
LEMMA IdsStay ==
  ASSUME UNCHANGED <<records, root>>, NEW i \in Index
  PROVE  EntityId(i)' = EntityId(i)
<1>1. \A j, k : Ranks(j, k)' = Ranks(j, k)
  BY DEF Ranks
<1>2. Members(i)' = Members(i)
  BY DEF Members
<1>3. Foremost(i)' = Foremost(i)
  BY <1>1, <1>2 DEF Foremost
<1>4. MergedName(i)' = MergedName(i)
  BY <1>3 DEF MergedName
<1>5. ASSUME NEW field
      PROVE  Merged(i, field)' = Merged(i, field)
  <2> DEFINE having == {j \in Members(i) : records[j][field] # ""}
             first == CHOOSE j \in having : \A k \in having : Ranks(j, k)
  <2>1. having' = having
    BY <1>2
  <2>2. first' = first
    BY <1>1, <2>1
  <2>3. Merged(i, field) = IF having = {} THEN "" ELSE records[first][field]
    BY DEF Merged
  <2>4. Merged(i, field)' = IF having' = {} THEN "" ELSE records'[first'][field]
    BY DEF Merged
  <2> HIDE DEF having, first
  <2> QED
    BY <2>1, <2>2, <2>3, <2>4
<1> QED
  BY <1>4, <1>5 DEF EntityId

\* Comparing the next pair keeps the sets joined along matches and apart
\* otherwise: the root that find reaches is one record of each set.
LEMMA CompareKeeps ==
  ASSUME ResolutionInv, Compare
  PROVE  ResolutionInv'
<1>0. ResolutionTypeOK /\ Joined /\ Separate /\ ConflictsNeedABridge /\ LinksKept
  BY DEF ResolutionInv
<1>1. UNCHANGED <<records, links, rewritten, resolution>> /\ resolution = "matching"
  BY DEF Compare
<1>2. PICK p \in todo : /\ todo' = todo \ {p}
                        /\ IF Matches(records[p[1]], records[p[2]])
                           THEN root' = Union(p[1], p[2]) ELSE UNCHANGED root
  <2>1. todo \subseteq Index \X Index
    BY <1>0 DEF ResolutionTypeOK, CandidatePairs
  <2>2. \E q \in todo : \A other \in todo : Before(q, other)
    BY <2>1, NextPair DEF Compare
  <2> QED
    BY <2>2 DEF Compare
<1>3. p \in CandidatePairs(records)
  BY <1>0, <1>2 DEF ResolutionTypeOK
<1>4. MatchingPairs' = MatchingPairs /\ CandidatePairs(records)' = CandidatePairs(records)
  BY <1>1 DEF MatchingPairs
<1>5. CASE ~Matches(records[p[1]], records[p[2]])
  <2>1. UNCHANGED root
    BY <1>2, <1>5
  <2>2. ResolutionTypeOK'
    BY <1>0, <1>1, <1>2, <1>4, <2>1 DEF ResolutionTypeOK, RecordsOK
  <2>3. Joined'
    BY <1>0, <1>2, <1>4, <1>5, <2>1 DEF Joined, MatchingPairs
  <2>4. Separate' /\ ConflictsNeedABridge'
    BY <1>0, <1>1, <1>4, <2>1 DEF Separate, ConflictsNeedABridge, Conflicting, Members
  <2>5. LinksKept'
    BY <1>0, <1>1 DEF LinksKept
  <2> QED
    BY <2>2, <2>3, <2>4, <2>5 DEF ResolutionInv
<1>6. CASE Matches(records[p[1]], records[p[2]])
  <2>1. p \in MatchingPairs /\ root' = Union(p[1], p[2])
    BY <1>2, <1>3, <1>6 DEF MatchingPairs
  <2>2. p[1] \in Index /\ p[2] \in Index
    BY <1>3, CandidatesAre
  <2>3. ASSUME NEW a \in Index, NEW b \in Index
        PROVE  /\ Union(a, b) \in [Index -> Index]
               /\ \A k, l \in Index : Union(a, b)[k] = Union(a, b)[l] <=>
                    \/ root[k] = root[l]
                    \/ root[k] \in {root[a], root[b]} /\ root[l] \in {root[a], root[b]}
    BY <1>0, UnionMerges DEF ResolutionTypeOK
  <2>9. /\ Union(p[1], p[2]) \in [Index -> Index]
        /\ \A k, l \in Index : Union(p[1], p[2])[k] = Union(p[1], p[2])[l] <=>
             \/ root[k] = root[l]
             \/ root[k] \in {root[p[1]], root[p[2]]} /\ root[l] \in {root[p[1]], root[p[2]]}
    BY <2>2, <2>3
  <2>8. \A k, l \in Index : root'[k] = root'[l] <=>
           \/ root[k] = root[l]
           \/ root[k] \in {root[p[1]], root[p[2]]} /\ root[l] \in {root[p[1]], root[p[2]]}
    BY <2>1, <2>9
  <2>4. ResolutionTypeOK'
    <3>1. root' \in [Index -> Index]
      BY <2>1, <2>9
    <3> QED
      BY <1>0, <1>1, <1>2, <1>4, <3>1 DEF ResolutionTypeOK, RecordsOK
  <2>5. Joined'
    <3> SUFFICES ASSUME NEW q \in MatchingPairs, q \notin todo'
                 PROVE  root'[q[1]] = root'[q[2]]
      BY <1>4 DEF Joined
    <3>1. q[1] \in Index /\ q[2] \in Index
      BY CandidatesAre DEF MatchingPairs
    <3>2. CASE q = p
      BY <2>2, <2>8, <3>2
    <3>3. CASE q # p
      <4>1. root[q[1]] = root[q[2]]
        BY <1>0, <1>2, <3>3 DEF Joined
      <4> QED
        BY <2>8, <3>1, <4>1
    <3> QED
      BY <3>2, <3>3
  <2>6. Separate' /\ ConflictsNeedABridge'
    BY <1>0, <1>1, <2>1, UnionKeeps
  <2>7. LinksKept'
    BY <1>0, <1>1 DEF LinksKept
  <2> QED
    BY <2>4, <2>5, <2>6, <2>7 DEF ResolutionInv
<1> QED
  BY <1>5, <1>6

\* So does every other step of a resolution.
LEMMA ResolutionStep ==
  ASSUME ResolutionInv, [ResolutionNext]_resolutionVars
  PROVE  ResolutionInv'
<1>0. ResolutionTypeOK /\ Joined /\ Separate /\ ConflictsNeedABridge /\ LinksKept
  BY DEF ResolutionInv
<1>1. ASSUME UNCHANGED <<records, root, todo>>,
             resolution' \in {"matching", "rewriting", "done"},
             resolution' # "matching" => todo = {}
      PROVE  (ResolutionTypeOK /\ Joined /\ Separate /\ ConflictsNeedABridge)'
  <2>1. MatchingPairs' = MatchingPairs /\ CandidatePairs(records)' = CandidatePairs(records)
    BY <1>1 DEF MatchingPairs
  <2>2. ResolutionTypeOK'
    BY <1>0, <1>1, <2>1 DEF ResolutionTypeOK, RecordsOK
  <2>3. Joined' /\ Separate' /\ ConflictsNeedABridge'
    BY <1>0, <1>1, <2>1 DEF Joined, Separate, ConflictsNeedABridge, Conflicting, Members
  <2> QED
    BY <2>2, <2>3
<1>2. CASE Compare
  BY <1>2, CompareKeeps
<1>3. CASE AssignIds
  <2>1. (ResolutionTypeOK /\ Joined /\ Separate /\ ConflictsNeedABridge)'
    BY <1>1, <1>3 DEF AssignIds
  <2>2. LinksKept'
    BY <1>0, <1>3 DEF AssignIds, LinksKept
  <2> QED
    BY <2>1, <2>2 DEF ResolutionInv
<1>4. ASSUME NEW p \in links, RewriteLink(p)
      PROVE  ResolutionInv'
  <2>1. (ResolutionTypeOK /\ Joined /\ Separate /\ ConflictsNeedABridge)'
    <3>1. resolution = "rewriting" /\ todo = {}
      BY <1>0, <1>4 DEF RewriteLink, ResolutionTypeOK
    <3> QED
      BY <1>1, <1>4, <3>1 DEF RewriteLink
  <2>2. \A i \in Index : EntityId(i)' = EntityId(i)
    BY <1>4, IdsStay DEF RewriteLink
  <2>3. /\ resolution = "rewriting" /\ resolution' = "rewriting" /\ links' = links \ {p}
        /\ rewritten' = IF EntityId(p[1]) = EntityId(p[2]) THEN rewritten
                        ELSE rewritten \cup {<<EntityId(p[1]), EntityId(p[2])>>}
    BY <1>4 DEF RewriteLink
  <2>4. LinksKept'
    <3> SUFFICES ASSUME NEW i \in Index, NEW j \in Index, i < j
                 PROVE  \/ <<i, j>> \in links' \/ EntityId(i) = EntityId(j)
                        \/ <<EntityId(i), EntityId(j)>> \in rewritten'
      BY <2>2, <2>3 DEF LinksKept
    <3>1. \/ <<i, j>> \in links \/ EntityId(i) = EntityId(j)
          \/ <<EntityId(i), EntityId(j)>> \in rewritten
      BY <1>0, <2>3 DEF LinksKept
    <3> QED
      BY <2>3, <3>1
  <2> QED
    BY <2>1, <2>4 DEF ResolutionInv
<1>5. CASE Report
  <2>0. resolution = "rewriting" /\ todo = {}
    BY <1>0, <1>5 DEF Report, ResolutionTypeOK
  <2>1. (ResolutionTypeOK /\ Joined /\ Separate /\ ConflictsNeedABridge)'
    BY <1>1, <1>5, <2>0 DEF Report
  <2>2. \A i \in Index : EntityId(i)' = EntityId(i)
    BY <1>5, IdsStay DEF Report
  <2>3. LinksKept'
    BY <1>0, <1>5, <2>2 DEF Report, LinksKept
  <2> QED
    BY <2>1, <2>3 DEF ResolutionInv
<1>6. CASE UNCHANGED resolutionVars
  <2>1. (ResolutionTypeOK /\ Joined /\ Separate /\ ConflictsNeedABridge)'
    BY <1>0, <1>1, <1>6 DEF resolutionVars, ResolutionTypeOK
  <2>2. \A i \in Index : EntityId(i)' = EntityId(i)
    BY <1>6, IdsStay DEF resolutionVars
  <2>3. LinksKept'
    BY <1>0, <1>6, <2>2 DEF resolutionVars, LinksKept
  <2> QED
    BY <2>1, <2>3 DEF ResolutionInv
<1> QED
  BY <1>2, <1>3, <1>4, <1>5, <1>6 DEF ResolutionNext

\* Points scored and points possible: none, or all of them.
EmptyOrFull(w, e) == e[2] \in {0, w} /\ e[1] = 100 * e[2]

\* Evidence that does not differ counts in full, or not at all.
LEMMA PairOfPoints ==
  ASSUME NEW w, w = 1 \/ w = 3, NEW e, e = <<0, 0>> \/ e = <<100 * w, w>>
  PROVE  EmptyOrFull(w, e)
BY DEF EmptyOrFull

\* A signal without evidence scores nothing out of nothing.
LEMMA NothingScored ==
  ASSUME NEW e, e = <<0, 0>>
  PROVE  e[1] = 0 /\ e[2] = 0
OBVIOUS

\* A field that two records share, or that one of them lacks, is all its weight
\* or none of it.
LEMMA EvidenceAlike ==
  ASSUME NEW x, NEW y, x = "" \/ y = "" \/ x = y
  PROVE  EmptyOrFull(1, Evidence(1, x, y)) /\ EmptyOrFull(3, Evidence(3, x, y))
<1>1. Evidence(1, x, y) = <<0, 0>> \/ Evidence(1, x, y) = <<100 * 1, 1>>
  BY DEF Evidence
<1>2. Evidence(3, x, y) = <<0, 0>> \/ Evidence(3, x, y) = <<100 * 3, 3>>
  BY DEF Evidence
<1>3. EmptyOrFull(1, Evidence(1, x, y))
  BY <1>1, PairOfPoints
<1>4. EmptyOrFull(3, Evidence(3, x, y))
  BY <1>2, PairOfPoints
<1> QED
  BY <1>3, <1>4

\* What a name, and places and years of weights x and y, score when they agree.
Full(t, x, y) == 4 * 100 + 100 * x + 0 + 100 * y >= t * (4 + x + 0 + y)

\* A full score reaches every threshold.
LEMMA FullScore ==
  ASSUME NEW t \in Nat, t <= 100, NEW x \in {0, 3}, NEW y \in {0, 1}
  PROVE  Full(t, x, y)
<1> USE DEF Full
<1>1. t * 4 <= 400 /\ t * 5 <= 500 /\ t * 7 <= 700 /\ t * 8 <= 800
  OBVIOUS
<1>2. CASE x = 0 /\ y = 0
  BY <1>1, <1>2
<1>3. CASE x = 0 /\ y = 1
  BY <1>1, <1>3
<1>4. CASE x = 3 /\ y = 0
  BY <1>1, <1>4
<1>5. CASE x = 3 /\ y = 1
  BY <1>1, <1>5
<1> QED
  BY <1>2, <1>3, <1>4, <1>5

\* The threshold is a part of a hundred.
LEMMA ThresholdIs == Threshold \in Nat /\ Threshold <= 100
<1>1. Threshold \in 0 .. 100
  BY ResolutionAssumption
<1> QED
  BY <1>1

\* Two records of one name without a number match when neither place nor year tells them apart.
LEMMA AlikeMatch ==
  ASSUME NEW a, NEW b, a.name = b.name, a.number = "" \/ b.number = "",
         a.place = "" \/ b.place = "" \/ a.place = b.place,
         a.year = "" \/ b.year = "" \/ a.year = b.year
  PROVE  Matches(a, b)
<1> DEFINE place == Evidence(3, a.place, b.place)
           number == Evidence(2, a.number, b.number)
           year == Evidence(1, a.year, b.year)
<1>1. Similarity(a.name, b.name) = 100
  BY DEF Similarity
<1>2. number = <<0, 0>>
  BY DEF Evidence
<1>3. EmptyOrFull(3, place) /\ EmptyOrFull(1, year)
  BY EvidenceAlike
<1>4. /\ place[2] \in {0, 3} /\ place[1] = 100 * place[2]
      /\ year[2] \in {0, 1} /\ year[1] = 100 * year[2]
  BY <1>3 DEF EmptyOrFull
<1>5. 4 * 100 + 100 * place[2] + 0 + 100 * year[2] >= Threshold * (4 + place[2] + 0 + year[2])
  <2> HIDE DEF place, year
  <2>1. place[2] \in {0, 3} /\ year[2] \in {0, 1}
    BY <1>4
  <2>2. Full(Threshold, place[2], year[2])
    BY <2>1, FullScore, ThresholdIs
  <2> QED
    BY <2>2, Zenon DEF Full
<1>6. number[1] = 0 /\ number[2] = 0
  BY <1>2, NothingScored
<1>7. 4 * Similarity(a.name, b.name) + place[1] + number[1] + year[1]
        >= Threshold * (4 + place[2] + number[2] + year[2])
  BY <1>1, <1>4, <1>5, <1>6
<1> QED
  BY <1>7 DEF Matches

\* A cluster has a foremost record, and a merged field is that record's when it has it.
LEMMA ForemostLeads ==
  ASSUME ResolutionTypeOK, NEW i \in Index
  PROVE  /\ Foremost(i) \in Members(i)
         /\ \A k \in Members(i) : Ranks(Foremost(i), k)
<1>1. i \in Members(i) /\ Members(i) \in SUBSET Index /\ RecordsOK
  BY DEF Members, ResolutionTypeOK
<1>2. \E j \in Members(i) : \A k \in Members(i) : Ranks(j, k)
  BY <1>1, FirstInRank
<1> QED
  BY <1>2 DEF Foremost

\* The field of an entity is that of its foremost record, unless that is empty.
LEMMA MergedField ==
  ASSUME ResolutionTypeOK, NEW i \in Index, NEW field
  PROVE  /\ Merged(i, field) = "" => records[Foremost(i)][field] = ""
         /\ records[Foremost(i)][field] # "" => Merged(i, field) = records[Foremost(i)][field]
<1> DEFINE having == {j \in Members(i) : records[j][field] # ""}
           first == CHOOSE j \in having : \A k \in having : Ranks(j, k)
<1>1. Merged(i, field) = IF having = {} THEN "" ELSE records[first][field]
  BY DEF Merged
<1>2. Foremost(i) \in Members(i) /\ \A k \in Members(i) : Ranks(Foremost(i), k)
  BY ForemostLeads
<1>3. RecordsOK /\ Members(i) \in SUBSET Index
  BY DEF Members, ResolutionTypeOK
<1>4. having # {} => first \in having /\ \A k \in having : Ranks(first, k)
  <2>1. having \in SUBSET Index
    BY <1>3
  <2> QED
    BY <1>3, <2>1, FirstInRank
<1>5. ASSUME records[Foremost(i)][field] # ""
      PROVE  first = Foremost(i) /\ having # {}
  <2>1. Foremost(i) \in having
    BY <1>2, <1>5
  <2>2. Ranks(first, Foremost(i)) /\ Ranks(Foremost(i), first)
    BY <1>2, <1>4, <2>1
  <2>3. first \in Index /\ Foremost(i) \in Index
    BY <1>2, <1>3, <1>4, <2>1
  <2> QED
    BY <1>3, <2>1, <2>2, <2>3, RanksAntisymmetric
<1>6. Members(i) \subseteq Index
  BY <1>3
<1> HIDE DEF first
<1> QED
  BY <1>1, <1>5

\* The invariant says what the three properties promise.
LEMMA ResolutionInvariantSays ==
  ASSUME ResolutionInv
  PROVE  ClustersAreComponents /\ ConflictsNeedABridge /\ LostOnlyWhenAlike
<1>0. ResolutionTypeOK /\ Joined /\ Separate /\ ConflictsNeedABridge /\ LinksKept
  BY DEF ResolutionInv
<1>1. ClustersAreComponents
  <2> SUFFICES ASSUME resolution = "done" PROVE ClustersAreComponents
    BY DEF ClustersAreComponents
  <2>1. todo = {}
    BY <1>0 DEF ResolutionTypeOK
  <2> QED
    BY <1>0, <2>1 DEF ClustersAreComponents, Joined, Separate
<1>2. LostOnlyWhenAlike
  <2> SUFFICES ASSUME resolution = "done", NEW i \in Index, NEW j \in Index, i < j,
                      root[i] # root[j], <<EntityId(i), EntityId(j)>> \notin rewritten
               PROVE  /\ Merged(i, "number") = Merged(j, "number")
                      /\ Merged(i, "number") = "" =>
                           /\ records[Foremost(i)].name = records[Foremost(j)].name
                           /\ records[Foremost(i)].year # records[Foremost(j)].year
                           /\ "" \notin {records[Foremost(i)].year, records[Foremost(j)].year}
    BY DEF LostOnlyWhenAlike
  <2> DEFINE a == records[Foremost(i)]
             b == records[Foremost(j)]
  <2>1. EntityId(i) = EntityId(j)
    BY <1>0 DEF LinksKept
  <2>2. \A x, y, z : <<x>> # <<y, z>>
    <3> SUFFICES ASSUME NEW x, NEW y, NEW z, <<x>> = <<y, z>> PROVE FALSE
      OBVIOUS
    <3>1. Len(<<x>>) = 1 /\ Len(<<y, z>>) = 2
      OBVIOUS
    <3> QED
      BY <3>1
  <2>3. CASE Merged(i, "number") # "" \/ Merged(j, "number") # ""
    <3>1. Merged(i, "number") # "" /\ Merged(j, "number") # ""
      BY <2>1, <2>2, <2>3 DEF EntityId
    <3>2. <<Merged(i, "number")>> = <<Merged(j, "number")>>
      BY <2>1, <3>1 DEF EntityId
    <3>3. Merged(i, "number") = Merged(j, "number")
      BY <3>2
    <3> QED
      BY <3>1, <3>3
  <2>4. CASE Merged(i, "number") = "" /\ Merged(j, "number") = ""
    <3>1. <<MergedName(i), Merged(i, "place")>> = <<MergedName(j), Merged(j, "place")>>
      BY <2>1, <2>4 DEF EntityId
    <3>2. a.name = b.name /\ Merged(i, "place") = Merged(j, "place")
      BY <3>1 DEF MergedName
    <3>3. a["number"] = "" /\ b["number"] = ""
      BY <1>0, <2>4, MergedField
    <3>4. a["place"] = "" \/ b["place"] = "" \/ a["place"] = b["place"]
      <4>1. a["place"] # "" => Merged(i, "place") = a["place"]
        BY <1>0, MergedField
      <4>2. b["place"] # "" => Merged(j, "place") = b["place"]
        BY <1>0, MergedField
      <4> QED
        BY <3>2, <4>1, <4>2
    <3>5. /\ Foremost(i) \in Index /\ root[Foremost(i)] = root[i]
          /\ Foremost(j) \in Index /\ root[Foremost(j)] = root[j]
      BY <1>0, ForemostLeads DEF Members
    <3>6. ASSUME a.year = "" \/ b.year = "" \/ a.year = b.year
          PROVE  FALSE
      <4>1. Matches(a, b) /\ Matches(b, a)
        BY <3>2, <3>3, <3>4, <3>6, AlikeMatch
      <4>2. <<Foremost(i), Foremost(j)>> \in MatchingPairs \/ <<Foremost(j), Foremost(i)>> \in MatchingPairs
        <5>1. Foremost(i) < Foremost(j) \/ Foremost(j) < Foremost(i)
          BY <3>5 DEF Index
        <5>2. Head(a.name) = Head(b.name)
          BY <3>2
        <5> QED
          BY <3>5, <4>1, <5>1, <5>2 DEF MatchingPairs, CandidatePairs
      <4>3. root[Foremost(i)] = root[Foremost(j)]
        BY <1>0, <4>2 DEF Joined, ResolutionTypeOK
      <4> QED
        BY <3>5, <4>3
    <3> QED
      BY <2>4, <3>2, <3>6
  <2> QED
    BY <2>3, <2>4
<1> QED
  BY <1>0, <1>1, <1>2

\* For any records and links, the sets that resolve_entities ends with are the
\* components of the matches among candidates, a conflict within a set has a
\* record without number in it, and a link is lost only between clusters whose
\* ids are the same, which takes one number, or one name and two years.
THEOREM ClustersTheorem == ResolutionSpec => [](ClustersAreComponents /\ ConflictsNeedABridge /\ LostOnlyWhenAlike)
<1>1. ResolutionInit => ResolutionInv
  BY ResolutionInitial
<1>2. ResolutionInv /\ [ResolutionNext]_resolutionVars => ResolutionInv'
  BY ResolutionStep
<1>3. ResolutionInv => ClustersAreComponents /\ ConflictsNeedABridge /\ LostOnlyWhenAlike
  BY ResolutionInvariantSays
<1> QED
  BY <1>1, <1>2, <1>3, PTL DEF ResolutionSpec

-----------------------------------------------------------------------------
\* What the filter keeps of a network are its own nodes.
LEMMA RetainedNodes ==
  ASSUME NEW n, NEW N, n.net.links \in Seq(N \X N), n.net.nodes = N, n.net.flagged \subseteq N
  PROVE  Retained(n) \subseteq N
<1> DEFINE ls == n.net.links
           S == DOMAIN ls
           base == n.net.flagged \cup ({n.about.center} \cap n.net.nodes)
           op(l, kept) == IF {l[1], l[2]} \cap kept = {} THEN kept ELSE kept \cup {l[1], l[2]}
           ch == [T \in SUBSET S |-> Max(T)]
           st == [p \in S \X SUBSET N |-> op(ls[p[1]], p[2])]
           Equation(g) == g = [T \in SUBSET S |-> IF T = {} THEN base ELSE op(ls[Max(T)], g[T \ {Max(T)}])]
           it == CHOOSE g : Equation(g)
<1>0. Retained(n) = it[S]
  BY DEF Retained, FoldLeft, MapThenFoldSet
<1>1. PICK len \in Nat : S = 1 .. len /\ \A i \in S : ls[i] \in N \X N
  <2>1. Len(ls) \in Nat /\ DOMAIN ls = 1 .. Len(ls) /\ \A i \in 1 .. Len(ls) : ls[i] \in N \X N
    OBVIOUS
  <2> QED
    BY <2>1
<1>2. base \in SUBSET N
  OBVIOUS
<1>3. ASSUME NEW l \in N \X N, NEW kept \in SUBSET N
      PROVE  op(l, kept) \in SUBSET N
  <2>1. l[1] \in N /\ l[2] \in N
    OBVIOUS
  <2> QED
    BY <2>1
<1> HIDE DEF ls, S, base, op
<1>4. IsFiniteSet(S)
  BY <1>1, FS_Interval
<1>5. \A T \in SUBSET S : T # {} => Max(T) \in T /\ Max(T) \in S
  BY <1>1, MaxIn
<1>6. \A T \in SUBSET S : ch[T] = Max(T)
  OBVIOUS
<1>7. st \in [S \X SUBSET N -> SUBSET N] /\ \A i \in S, K \in SUBSET N : st[<<i, K>>] = op(ls[i], K)
  BY <1>1, <1>3
<1> HIDE DEF ch, st
<1>8. Picks(ch, S)
  BY <1>5, <1>6 DEF Picks
<1>9. PICK g : Solves(g, S, base, ch, st) /\ Steps(g, S, SUBSET N, ch, st)
  BY <1>2, <1>4, <1>7, <1>8, RecursionSolved
<1>10. \A T \in SUBSET S : g[T] \in SUBSET N
  BY <1>9 DEF Steps
<1>11. Equation(g)
  <2>1. ASSUME NEW T \in SUBSET S, T # {}
        PROVE  st[<<ch[T], g[T \ {ch[T]}]>>] = op(ls[Max(T)], g[T \ {Max(T)}])
    <3>1. ch[T] = Max(T) /\ Max(T) \in S /\ g[T \ {Max(T)}] \in SUBSET N
      BY <1>5, <1>6, <1>10, <2>1
    <3> QED
      BY <1>7, <3>1
  <2> QED
    BY <1>9, <2>1 DEF Solves
<1>12. Equation(it)
  BY <1>11
<1> DEFINE F == {T \in SUBSET S : it[T] \notin SUBSET N}
<1>13. F = {}
  <2> SUFFICES ASSUME F # {} PROVE FALSE
    OBVIOUS
  <2>1. F \subseteq SUBSET S
    OBVIOUS
  <2> HIDE DEF F, it
  <2>2. PICK T \in F : \A U \in F : ~(U \subseteq T /\ U # T)
    BY <1>4, <2>1, SmallestSubset
  <2>3. T \in SUBSET S /\ it[T] \notin SUBSET N
    BY <2>1, <2>2 DEF F
  <2>4. T # {} => it[T] = op(ls[Max(T)], it[T \ {Max(T)}])
    BY <1>12, <2>3
  <2>5. T # {}
    BY <1>2, <1>12, <2>3
  <2>6. T \ {Max(T)} \in SUBSET S /\ T \ {Max(T)} \subseteq T /\ T \ {Max(T)} # T
    BY <1>5, <2>3, <2>5
  <2>7. it[T \ {Max(T)}] \in SUBSET N
    BY <2>2, <2>6 DEF F
  <2>8. ls[Max(T)] \in N \X N
    BY <1>1, <1>5, <2>3, <2>5
  <2>9. op(ls[Max(T)], it[T \ {Max(T)}]) \in SUBSET N
    BY <1>3, <2>7, <2>8
  <2> QED
    BY <2>3, <2>4, <2>5, <2>9
<1>14. it[S] \in SUBSET N
  BY <1>13
<1> QED
  BY <1>0, <1>14

-----------------------------------------------------------------------------
\* Results belong to the query that is typed, and a short one has none.
ResultsBelong ==
  /\ searching => query \in Long /\ results = None
  /\ query \in Short => results = None
  /\ results \in {None, query}

\* The network on display is of the choice, unless it is awaited or failed.
NetworkBelongs == ~loading /\ ~failure /\ choice.center # None => network.about = choice

\* A profile is of a link, or of a node of the network.
ProfileBelongs ==
  /\ network = NoNetwork \/ network.net \in Networks
  /\ node \in network.net.nodes \cup {None}
  /\ link = <<>> \/ \E a, b : link = <<a, b>>

ConsoleInv == ResultsBelong /\ NetworkBelongs /\ ProfileBelongs

\* Filters hide nodes and links of the network and add none.
LEMMA NetworkIsWhole ==
  ASSUME ProfileBelongs
  PROVE  /\ VisibleNodes \subseteq network.net.nodes
         /\ \A l \in VisibleLinks : \E a, b : l = <<a, b>>
<1>1. network # NoNetwork => /\ network.net.links \in Seq(network.net.nodes \X network.net.nodes)
                            /\ network.net.flagged \subseteq network.net.nodes
  BY ConsoleAssumption DEF ProfileBelongs
<1>2. network # NoNetwork => Retained(network) \subseteq network.net.nodes
  BY <1>1, RetainedNodes
<1>3. VisibleNodes \subseteq network.net.nodes
  BY <1>2 DEF VisibleNodes
<1>4. ASSUME NEW l \in VisibleLinks
      PROVE  \E a, b : l = <<a, b>>
  <2>1. network # NoNetwork
    <3>1. {l[1], l[2]} \subseteq VisibleNodes
      BY DEF VisibleLinks
    <3> QED
      BY <3>1 DEF VisibleNodes
  <2>2. network.net.links \in Seq(network.net.nodes \X network.net.nodes)
    BY <1>1, <2>1
  <2>3. l \in Range(network.net.links)
    BY DEF VisibleLinks
  <2>4. l \in network.net.nodes \X network.net.nodes
    BY <2>2, <2>3 DEF Range
  <2> QED
    BY <2>4
<1> QED
  BY <1>3, <1>4

\* Results, network and profile that belong to the choice are what is promised.
LEMMA ConsoleInvariantSays == ConsoleInv => ConsoleShowsChoice
<1> SUFFICES ASSUME ConsoleInv PROVE ConsoleShowsChoice
  OBVIOUS
<1>1. /\ SearchPanel = "matches" => results \in {None, query}
      /\ SearchPanel # "matches" => results = None
  BY DEF ConsoleInv, ResultsBelong, SearchPanel
<1>2. Canvas.map = "drawn" /\ ~failure /\ choice.center # None => network.about = choice
  BY DEF ConsoleInv, NetworkBelongs, Canvas
<1>3. Len(Profile) = 1 => Head(Profile) \in network.net.nodes
  <2>1. link = <<>> \/ \E a, b : link = <<a, b>>
    BY DEF ConsoleInv, ProfileBelongs
  <2>2. CASE \E a, b : link = <<a, b>>
    BY <2>2 DEF Profile
  <2>3. CASE link = <<>>
    <3>1. CASE node = None
      BY <2>3, <3>1 DEF Profile
    <3>2. CASE node # None
      <4>1. node \in network.net.nodes
        BY <3>2 DEF ConsoleInv, ProfileBelongs
      <4>2. Profile = <<node>>
        BY <2>3, <3>2 DEF Profile
      <4> QED
        BY <4>1, <4>2
    <3> QED
      BY <3>1, <3>2
  <2> QED
    BY <2>1, <2>2, <2>3
<1> QED
  BY <1>1, <1>2, <1>3 DEF ConsoleShowsChoice

\* Nothing is chosen and nothing shown at first.
LEMMA ConsoleInitial == ConsoleInit => ConsoleInv
<1> SUFFICES ASSUME ConsoleInit PROVE ConsoleInv
  OBVIOUS
<1>1. ResultsBelong
  BY DEF ConsoleInit, ResultsBelong
<1>2. NetworkBelongs
  BY DEF ConsoleInit, NetworkBelongs
<1>3. ProfileBelongs
  BY DEF ConsoleInit, ProfileBelongs
<1> QED
  BY <1>1, <1>2, <1>3 DEF ConsoleInv

\* A search, a choice, a reset, a filter and every answer, late or not, keep it.
LEMMA ConsoleStep == ConsoleInv /\ [ConsoleNext]_consoleVars => ConsoleInv'
<1> SUFFICES ASSUME ConsoleInv, [ConsoleNext]_consoleVars PROVE ConsoleInv'
  OBVIOUS
<1>0. ResultsBelong /\ NetworkBelongs /\ ProfileBelongs
  BY DEF ConsoleInv
<1>1. UNCHANGED <<query, searching, results>> => ResultsBelong'
  BY <1>0 DEF ResultsBelong
<1>2. UNCHANGED <<network, node>> /\ link' \in {link, <<>>} => ProfileBelongs'
  BY <1>0 DEF ProfileBelongs
<1>3. UNCHANGED <<choice, network>> /\ (loading' = loading) /\ (failure => failure') => NetworkBelongs'
  BY <1>0 DEF NetworkBelongs
<1>4. ASSUME NEW c, Choose(c) PROVE ConsoleInv'
  <2>1. NetworkBelongs'
    BY <1>4 DEF Choose, NetworkBelongs
  <2> QED
    BY <1>1, <1>2, <1>4, <2>1 DEF Choose, ConsoleInv
<1>5. ASSUME NEW net \in Networks, NetworkAnswers(net) PROVE ConsoleInv'
  <2>1. network' = [about |-> choice, net |-> net] /\ UNCHANGED <<choice, link>> /\ node' \in net.nodes
    BY <1>5 DEF NetworkAnswers
  <2>2. network'.about = choice /\ network'.net = net
    BY <2>1
  <2>3. NetworkBelongs'
    BY <2>1, <2>2 DEF NetworkBelongs
  <2>4. ProfileBelongs'
    BY <1>0, <2>1, <2>2 DEF ProfileBelongs
  <2> QED
    BY <1>1, <1>5, <2>3, <2>4 DEF NetworkAnswers, ConsoleInv
<1>6. CASE NetworkFails
  <2>1. NetworkBelongs'
    BY <1>6 DEF NetworkFails, NetworkBelongs
  <2> QED
    BY <1>1, <1>2, <1>6, <2>1 DEF NetworkFails, ConsoleInv
<1>7. ASSUME NEW q \in Short \cup Long, Type(q) PROVE ConsoleInv'
  <2>1. ResultsBelong'
    BY <1>7, ConsoleAssumption DEF Type, ResultsBelong
  <2> QED
    BY <1>2, <1>3, <1>7, <2>1 DEF Type, ConsoleInv
<1>8. CASE SearchAnswers
  <2>1. ResultsBelong'
    BY <1>0, <1>8, ConsoleAssumption DEF SearchAnswers, ResultsBelong
  <2> QED
    BY <1>2, <1>3, <1>8, <2>1 DEF SearchAnswers, ConsoleInv
<1>9. CASE SearchFails
  <2>1. ResultsBelong'
    BY <1>0, <1>9, ConsoleAssumption DEF SearchFails, ResultsBelong
  <2> QED
    BY <1>2, <1>3, <1>9, <2>1 DEF SearchFails, ConsoleInv
<1>10. CASE StatsSettle
  BY <1>1, <1>2, <1>3, <1>10 DEF StatsSettle, ConsoleInv
<1>11. CASE ToggleRisk
  BY <1>1, <1>2, <1>3, <1>11 DEF ToggleRisk, ConsoleInv
<1>12. ASSUME NEW n \in VisibleNodes, TapNode(n) PROVE ConsoleInv'
  <2>1. n \in network.net.nodes
    BY <1>0, NetworkIsWhole
  <2>2. ProfileBelongs'
    BY <1>0, <1>12, <2>1 DEF TapNode, ProfileBelongs
  <2> QED
    BY <1>1, <1>3, <1>12, <2>2 DEF TapNode, ConsoleInv
<1>13. ASSUME NEW l \in VisibleLinks, TapLink(l) PROVE ConsoleInv'
  <2>1. \E a, b : l = <<a, b>>
    BY <1>0, NetworkIsWhole
  <2>2. ProfileBelongs'
    BY <1>0, <1>13, <2>1 DEF TapLink, ProfileBelongs
  <2> QED
    BY <1>1, <1>3, <1>13, <2>2 DEF TapLink, ConsoleInv
<1>14. CASE UNCHANGED consoleVars
  BY <1>1, <1>2, <1>3, <1>14 DEF consoleVars, ConsoleInv
<1> QED
  BY <1>4, <1>5, <1>6, <1>7, <1>8, <1>9, <1>10, <1>11, <1>12, <1>13, <1>14 DEF ConsoleNext

\* For any companies and queries, and however late answers come, the console
\* shows results of what is typed and, unless it loads or failed, the network
\* that is chosen: each effect of CompanyNetworkPanel drops what it overtook.
THEOREM ConsoleTheorem == ConsoleSpec => []ConsoleShowsChoice
<1>1. ConsoleInit => ConsoleInv
  BY ConsoleInitial
<1>2. ConsoleInv /\ [ConsoleNext]_consoleVars => ConsoleInv'
  BY ConsoleStep
<1>3. ConsoleInv => ConsoleShowsChoice
  BY ConsoleInvariantSays
<1> QED
  BY <1>1, <1>2, <1>3, PTL DEF ConsoleSpec
=============================================================================
