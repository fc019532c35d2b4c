# World Money: verification project

TLA+ modules of the World Money terminal, the TLC runs that check them on small
instances, and TLAPS proofs that hold for every instance. Paths are those of the
repository. `PROJECT.json` lists the components, the runs, a mutated definition for
every property (a plausible bug that the property catches), the source lines of every
definition, the disagreements found between code and documents, and the hazards of
the code with the properties that cover them.

    tlasany M.tla                      parse a module
    tlc -config MCx.cfg MCx            model-check a run
    tlapm XProofs.tla                  check the proofs of a module

## 1. The system

World Money is a trading and investigation terminal: a React client, a Node API
server, a Python daemon that keeps a Markdown vault of financial reference data, and
CorpGraph, a Python service over a graph of companies with a console of its own.
JavaScript is single-threaded: code between two `await`s runs without interruption,
and everything else can happen at an `await`. So an action of a module is what a call
does between two awaits, and concurrency is the interleaving of calls.

### 1.1 The order path (client)

| Component | State | Operations | Talks to |
|---|---|---|---|
| Order ticket, `components/Terminal/OrderTicket.jsx` | the kill switch | place an order, toggle the switch | routing, guardrails |
| Guardrails, `src/services/liveExecutionGuardrails.js` | limits, `newOrdersPaused`, own log | `validateOrder`, `pauseNewOrders`, `resumeOrders` | - |
| Routing, `src/services/orderRouting.js` | none of its own | `routeOrderSubmission` | all of the others |
| Circuit breaker, `src/services/brokers/circuitBreaker.js` | `state`, `failureCount`, `successCount`, `lastFailureTime` | `execute`, `onSuccess`, `onFailure`, `reset` | the primary and the fallback it is given |
| Alpaca connector, `src/services/brokers/alpacaConnector.js` | API keys | `submitOrder` | the broker over HTTP |
| Client audit log, `src/services/auditLog/immutableAuditLog.js` | `lastHash`, `localLog` | two log methods, `verifyChainIntegrity` | the server over HTTP |

An order is validated, then sent to the broker through the breaker, or filled by the
simulator when the breaker is open or the broker fails. The receipt is recorded in the
audit log before the caller gets it. What is hard: any number of orders overlap at five
awaits; the breaker hears of answers in an order of their own; a throw inside the
audit call is, to the breaker, a broker failure; the answer to an order may be lost
after the broker has accepted it. Correct means: a receipt names where the order
really went; a refused order goes nowhere; a halt, however it is engaged, stops the next order; every
approved order is answered; receipt, record and answer agree; the log is one chain.

### 1.2 The API server

| Component | State | Operations | Talks to |
|---|---|---|---|
| Store, `src/server/server.mjs` | `db` (audit ledger, cases and notes, interface events, vault), one JSON file | about fifteen handlers, `saveDb`, `initDb`, `appendReadAudit` | pages, PostgreSQL |
| Rate limiter, `src/server/middleware/rateLimiter.js` | timestamps per key | `check` | the handlers |
| Credential vault client, `src/services/credentialVault.js` | token cache | store, get, revoke | the vault endpoints |
| PostgreSQL client and procedures, `src/db/dbClient.js`, `scripts/migrations/` | the audit chain, paper orders, reservations, read models | `append_audit_event`, reservation statement | the server |
| Projector and reconciliations, `src/services/ledgerProjector.js`, `projectionReconciliation.js`, `fillReconciliation.js` | checkpointed read models | project, compare | PostgreSQL |

What is hard: handlers overlap at the wait for a body or for PostgreSQL; the file is
rewritten in place and errors are swallowed; the process can die in a write; two
transactions can read the same last hash; events can be delivered twice. Correct means:
an intact ledger whatever happens, nothing answered and then lost, no more requests
than the limit, one chain per database, a projection that applies each event once.

### 1.3 Paper trading controls

| Component | State | Operations | Talks to |
|---|---|---|---|
| `src/services/paperOrderManager.js` | orders by idempotency key, reserved cash, kill switch | `accept`, engage and clear the switch | - |
| `src/services/fourEyesApproval.js` | approvals by order id | submit, approve | - |
| `src/services/signedPolicySnapshot.js` | required version | publish, invalidate, validate | - |

So far only tests call them. What is hard: a retry across a kill switch, a resubmission after
an approval, a policy published late. Correct means: what is reserved is what was accepted;
one key, one answer; an approval is another person's and for what stands.

### 1.4 Market data and the Python bridge

| Component | State | Operations | Talks to |
|---|---|---|---|
| `src/services/marketDataAdapter.js` | `pollTimer`, `watchlist`, cached ticks | `startPolling`, `stopPolling`, `pollNext` | the provider under a quota |
| `streamWorker.js` | socket, buffer, `reconnectTimer` | CONNECT, DISCONNECT, flush | a WebSocket and the page |
| `src/services/pythonBridge.js`, `python_engine/main.py` | pending requests, the child process | `initialize`, `call`, `handleMessage`, `terminate` | lines over stdin and stdout |

What is hard: timers that outlive what started them, late answers, check-then-act across an
await. Correct means: requests within the allowance; one socket per buffer; every call
answered by its own answer or by the fallback.

### 1.5 The vault daemon

`obsidian_finance_daemon.py`: threads run the jobs that are due, refresh cached sources, merge
generated text into notes that users edit, and replace JSON exports. What is hard: a user's
edit between read and replace, two jobs with one temporary file, caches read while
they are written, a process killed halfway. Correct means: what the user wrote stays, and
what is stale is caught up with.

### 1.6 CorpGraph

| Component | State | Operations | Talks to |
|---|---|---|---|
| API, `corpgraph/corpgraph/api/` | nothing but Redis: cached answers, rate counters | company, search, network | Neo4j, Redis |
| Loader and collector, `corpgraph/corpgraph/scrapers/wikidata.py` | the walk under way | `collect`, `load_public_data` | Wikidata, Neo4j, Redis |
| Entity resolution, `corpgraph/corpgraph/entity_resolution/` | clusters of records | `resolve_entities`, rewriting of relationships | - |
| Console, `corpgraph/frontend/src/App.tsx` | query, results, center, network, selection | type, choose, filter, select | the API |

What is hard: a request that queried before a load and caches after it; redirected and missing
items in a bounded walk; scores that are pairwise while clusters are transitive; fetches that are
overtaken or aborted. Correct means: answers follow the graph, the walk covers its
depth, clusters are what the matches connect, and the console shows what is chosen.

### 1.7 The analyst interface

| Component | State | Operations |
|---|---|---|
| Workbench, `App.jsx`, `lib/investigationUtils.mjs` | entities, flows, filters, selection, trace, saved view, role | import, filter, select, trace, save and restore, flag |
| Cases, the same and `src/services/apiClient.js` | the page's cases, the active one | open, add, set the status, post |
| Views, `NetworkCanvas.jsx`, `BloombergBlotter.jsx`, `ConnectionFinder.jsx` | focus, sort and selection, the finder's ends | click, focus, triage, find |
| Company panel, `CompanyNetworkPanel.jsx` | center, network, path of crumbs, modes | open, expand, go back, load a saved network |

What is hard: files are read asynchronously against what was there when they were chosen; the cases
have two copies and posts overtake each other; openings are not cancelled. Correct
means: whatever is shown is connected to what is known; the copies agree unless
something was lost.

### 1.8 Left aside

The analytics and backtests (numerical), search, news, macro and assistant services
(stateless), the risk alert engine (thresholds over floating-point values), the connection pool
and its quota (`lib/connectionPool.js`: only its tests use it), the SEC collector (a sequence of
fetches), drawing and layout, data and prototypes. `PROJECT.json` gives the reason for each.

## 2. The modules

| Module | Models | State and its counterpart |
|---|---|---|
| `CircuitBreaker` | the breaker's fields and methods | `state`, `failureCount`, `successCount`; `elapsed` is `Date.now() - lastFailureTime` in ticks |
| `BreakerCalls` | overlapping `execute` calls with any primary and fallback | `call[c]`: before, in the primary, in the fallback |
| `HashChain` | abstract: a ledger that grows by linked records, each once | `chain`, `head` |
| `AuditLog` | the two log methods, cut at their awaits | `lastHash`, `localLog`; `step`, `content`, `covers` are the local variables of the calls |
| `AuditCalls` | overlapping log calls | - |
| `Guardrails` | `validateOrder`, the switch | `paused`, `refused` (the orders in its log) |
| `OrderLifecycle` | abstract: an order is recorded once, then answered with what is recorded | `ledger`, `answer` |
| `OrderRouting` | `routeOrderSubmission` and everything it calls | `pc[o]` where an order is, `verdict[o]` its receipt, `broker[o]` what the broker saw, `keys` whether the connector has API keys |
| `RateLimiter` | one key of a limiter | `hits`, the timestamps as ages |
| `ServerStore` | the server's ledger and notes, saves, crashes, restarts, pages | `ledger`, `notes`, `disk`, `request[e]`; `lastSave`, `faulted`, `age` only observe |
| `VaultDaemon` | the four jobs of the daemon with feeds, caches, notes, export, user and process | `pc[j]` and `local[j]` a job's thread; `cache`, `torn` the cache files; `text`, `shown`, `file`, `pending` notes, export and temporary files; `saved`, `raced` only observe |
| `CorpGraph` | API requests, cache, counter, and a load of the graph | `at[r]`, `key[r]`, `saw[r]` a request; `graph`, `cache`, `count`, `loader`, `snapshot`, `scanned`; `late`, `straddling`, `accepted`, `wiped` only observe |
| `WikidataCollector` | `collect` and its retried batches | `level`, `frontier`, `entities`, `attempt` |
| `EntityResolution` | clusters, ids, rewritten relationships | `root` (the union-find parents), `todo`, `links` |
| `NetworkConsole` | the console's choices and its fetches | what is typed, chosen, shown and under way |
| `Lists` | `filter()` and `slice()` on lists, as functions lemmas can be stated of | - |
| `Workbench` | a page's entities and flows, filters, selection, trace, imports | the states of `App` of the same purpose |
| `Casework` (extends `Workbench`) | the cases of page and server, their notes, the posts between them, another page | `held` (the page's copy), `active`, `stored` and `notes` (the server's), `fetched` (the notes of the page's copies), `elsewhere` (the other page's); `posts` and `noting` are under way; `landed`, `upset` only observe |
| `FlowViews` (extends `Workbench`) | graph, blotter, connection finder | `focusMode`, `blotter`, `finder` |
| `NetworkPanel` | the company panel and its openings | center, network, path, modes, openings not yet answered |
| `PythonBridge` | calls, handlers, timeouts, the engine | `handlers` and `timers` by request id, `stdout` the lines not yet read |
| `MarketFeed` | loops of polls, start, stop, watchlist | `loops`, `handle` (`pollTimer`), `inFlight`, `fetching`, `cursor`; `requests`, `cutShort`, `skipped`, `doubled` only observe |
| `StreamWorker` | sockets, buffer, reconnection | the sockets' states, the one the worker holds, the timer |
| `TokenVault` | the server's token in memory and file, and the copies of pages | `vault`, `vaultFile`, `cached` with their lifetimes, fetches and revocations under way; `behind`, `reverted`, `dead`, `stray` only observe |
| `PgChain` | overlapping `append_audit_event` transactions | `rows`, `nextId`; `doing[w]`, `link[w]`, `row[w]` a transaction |
| `LedgerView` | the projector's batches, the reconciliation | the row (`exists`, `reserved`, `rowSeq`), checkpoint; the events of the batch that are not applied yet |
| `MCOrderHalt`, `MCFeedBurst` | an endpoint beside the order path; the minutes of the poller | `haltPosted`; `recent`, the requests of the last intervals |
| `PaperControls` | submissions, approvals, policy versions | the fields of the three classes |

`OrderRouting` composes `CircuitBreaker`, `AuditLog` and `Guardrails` (EXTENDS: it is
one program, and an action of it is one synchronous stretch through all of them).
`ServerStore` composes `RateLimiter`. The client's audit log and the server's ledger
are both held against `HashChain`. `Casework` and `FlowViews` build on `Workbench`, whose
entities, flows and selection they read and write. Nothing else shares state: those
modules stand alone and are put together by the MC modules only. Definitions marked "a slip in reach of this code", and
the variants of an action or operator that no specification uses (they stand right
before the definition they vary), are the mutated forms; they are no part of a specification.

### Correspondence, module by module

*CircuitBreaker / BreakerCalls.* `execute` up to its first await is `Admit` (let
through, and OPEN to HALF_OPEN after the cooldown) or `CoolingDown` (to the fallback).
`onSuccess` has three branches, each an operator; `onFailure` is one. Both run in
whatever state the breaker is in when the answer comes, which is where the difficulty is.
The count of failures is held at the threshold and the time at `Timeout + 1`, beyond
which the code asks nothing of them. A call's error may or may not find a fallback. `reset()` has no caller in
the application, and is kept since it is public.

*AuditLog / AuditCalls.* A digest is named by the entry it is of, which takes SHA-256 to
be injective and entries to be distinct (their ids hold a time and a random part).
`covers` remembers what went into the digest. Without `crypto.subtle` (a page not served
over HTTPS or localhost) `computeSha256` throws and the call fails. The POST's
outcome is ignored by the code and is one action.

*Guardrails / OrderRouting.* An order is the set of limits it breaches: the comparisons
of amounts with limits are data. The broker is external: it acts on a
request at any time after it was sent, also after the connection broke, and either
accepts or refuses. As in the connector, any 2xx answer is a fill. A connector without keys
never calls the broker and confirms by itself (`sandbox`). `RecordThrows` is the audit
call's exception: inside the primary it makes the breaker count a failure and the
fallback fill the order; elsewhere the caller of `routeOrderSubmission` gets it.

*RateLimiter / ServerStore.* The file is written in place: `SaveDb` writes it whole, or
fails before touching it, or fails after truncating it. `CrashInSave` truncates it too. A
truncated JSON object never parses, so `torn` is one state. `Start` is `initDb`. An
append is let in by the limiter (`ReceivePost`, `RefusePost`), then handled when its body
is there (`AppendRecord`); a read of market data or research awaits PostgreSQL
(`ReadInPostgres`) and is appended locally otherwise, by the same action. PostgreSQL is
external. A page fetches the cases once and later posts its whole copy (`SyncCase`),
which also overwrites the notes. The pages outlive the server's crashes. `MCOrderHalt` adds the one
endpoint that the runbook takes for a halt: it appends an event, and nobody reads it.

*VaultDaemon.* A job goes through its `Steps`, cut where another thread can run: a feed is
fetched, its cache file truncated and written (`SaveCache`), a note read under its lock
(`BeginNote`) and replaced (`ReplaceNote`). One note stands for each folder; rates
are versions. A cycle (`RunDue`) ends when the last of its jobs does. `Kill` ends the process
anywhere and leaves temporary and torn files. The user's editor knows no lock
(`Edit`). `raced` marks a save that fell into the one window the daemon leaves.

*CorpGraph and its parts.* A request's round trips are its steps: count, read the cache, query
the center, query the rows, store. The loader deletes, upserts and then drops the keys it has
scanned. The counter of requests is a Redis key like the others, so a load wipes it.
`WikidataCollector` takes a batch per level, cut to what is left of the limit before it is
fetched; items can be redirected or missing. `EntityResolution` takes records in
normalized form, a name as its words, and the comparison of names as equal, subset or unlike; the
pairs that share a blocking key are compared in the order of the sorted pairs. `NetworkConsole` has at most one live request of each kind, because
each choice aborts the one before.

*The interface.* An action is one handler with the effects React runs after it. Imports hold
the entities of the moment the file was chosen (`importing`). A post carries the whole case
and may be lost or overtaken (`posts`). A note is posted alone (`SaveNote`) and added to the server's case; the
page's own list of notes is never read again and is left out. The copies of a page that has fetched its cases
have the notes of that time, and every later post of such a copy puts them back (`Bring`), while the
built-in copies have no notes and leave the server's alone. The other page posts copies of any earlier time, so its posts
need no delay of their own. In `NetworkPanel` no opening is ever cancelled; the
selection is the id that was asked for, which may be no node's (`Elsewhere`: `Q312` where the graph has
`wikidata_Q312`), and so may what the other visualizers select.
Lists are shown in order, so entities and flows are sequences; risk is one of three levels. A file is
merged entry by entry as into a `Map` (`Put`): a key that is there keeps its place, and of two
entries of a file with one key the last stands. The breadth-first search of `findDirectedPath` is a
queue of routes (`Expand` is its inner loop, `Searched` the outer one); the outer loop is bounded by
the number of entities, and `SearchReaches` of section 4 proves that this leaves nothing out.

*Bridge, feeds, tokens.* `stdin` and `stdout` are the lines on their way; a
request id is an index of `asked`. Polls, sockets and fetches are kept until they are
answered, whatever became of their starter. Time in `MarketFeed` goes by intervals, and a timer is less than
one late. A write to an engine that has ended while its exit is not reported is an unhandled error
(`WriteBreaks`): Node ends, and the next one begins anew. In `TokenVault` each handler that changes the vault
saves the whole db (`SaveVault`: written, left as it was, or cut off and so begun anew), as the other handlers
do (`SaveElsewhere`), and a restart reads the file.

*PostgreSQL and paper controls.* `SelectLast`, `Insert` and `Commit` are what one transaction
does under READ COMMITTED; `during` marks the rows that others committed meanwhile. In
`LedgerView` each event is its own transaction, and the next one is the least number not applied
yet. `Reconciled` looks at one account, which every event of the window names: without a row it is missing
whatever the sum. The calls of `PaperControls` run to their end; what is modelled is their order. An amount
that is not positive gets the answer "invalid" and reserves nothing.

## 3. The runs

| Run | Instance | Distinct states | What it shows |
|---|---|---|---|
| `breaker_probes` (violation) | 1 caller, thresholds 2 and 2 | | One probe can close the breaker: a success of a failed probing phase is still counted |
| `audit_hash` (violation) | 2 calls | | A record's hash need not cover the hash its `previousHash` names |
| `order_routing` | 2 orders, breached and not, thresholds 1, cooldown 1; beside them 2 pages, 1 token of lifetime 1, 2 ticks | 327 443 | Venue, refusal, record and answer agree; no approved order is lost; a revoked token stays revoked but for a restart on a file that a failed save left behind |
| `order_halt` (violation) | 1 order | | An order that follows the runbook's halt by `POST /api/audit` goes on to the broker |
| `failover_outage` (violation) | 1 order | | The simulator fills an order that the broker refused, or accepted |
| `server_store` | 3 posted records, limit 2 in 3 ticks, 1 read, 1 page, 1 note | 882 494 | The ledger stays intact through everything; answered records survive crashes between requests |
| `server_durability` (violation) | 2 posted records, 1 read | | An answered record is gone after a failed or cut save and a restart |
| `vault_refresh` | 2 teams of jobs, 1 edited note, 1 event of rate, save or kill | 41 384 | Notes keep what was saved; stale and blank notes are caught up with again and again |
| `vault_export` (violation) | the same | | A half-written export is put in place |
| `services` | 1 request slot with 1 retry, limit 1, 1 load; 3 items, depth up to 2; 3 records; 2 companies; 3 breaker calls, thresholds 3 and 2, cooldown 2; 4 log calls | 446 272 | Answers follow loads; the walk, the clusters and the console are what they claim; late answers never close an open breaker or leave it closed past its threshold, and it recovers; overlapping log calls implement a hash chain |
| `desk` | fourteen parts, each with 1 to 4 of what it counts | 441 763 | See below |
| `feed_burst` (violation) | 2 starts, a minute of 2 intervals | | Two loops poll, and a minute has more requests than the allowance |

`MCServices`, `MCDesk` and `MCOrderRouting` put modules that share no state into one run: the variable `focus`
picks the part a behaviour runs, and the others rest in one state. So nothing is multiplied and each part is
explored as if alone. The parts of `services` are the four of CorpGraph, the breaker and the audit log; those of
`desk` are: `workbench` (imports, filters, trace), `duty` (the roles), `casework`, `graph` (with imports and
filters under it), `blotter`, `panel`, `bridge`, `feed`,
`worker`, `chain`, `projection`, `orders`, `approvals`, `policy`; its
properties, in the order of section 2:

- `ShownIsConnected`: both ends of every visible flow are visible, and the highlighted route is one.
- `CopiesAgree`: page and server have the same cases unless a post was lost or overtaken or another page
  changed one; notes are erased only by a page that had fetched its copies before they were saved.
- `NeighboursShown`: the graph keeps the neighbours it promises; the finder finds what there is.
- `PanelShowsLast`: path, graph and settings agree once everything is answered.
- `EveryCallSettles`: each call has its own answer, the fallback, or its timeout to come.
- `PollsWithinAllowance`: never two requests at once; unless polling was started while a loop lived
  (`doubled`), one loop, one request an interval and every instrument in its turn. In an
  interval in which polling was stopped (`cutShort`) each start after a stop may make its first request. What
  a second start does is `feed_burst`.
- `OneSocketFeeds`: the exception is a CONNECT before the old socket has closed.
- `ForksNeedOverlap`, `ControlsHold`.
- `ViewFollowsLedger`: in the instance the ledger begins with a fill of an account without row and ends with a
  release, so that all three verdicts of the reconciliation occur.

Several properties name the circumstances in which the code does not keep what one might expect (a
late request, a save in the window, an overtaken post). Those circumstances are observed by variables of
their own; the property says that nothing else breaks it, and the mutants that it is
broken as soon as something else does. They do not catch the circumstance itself going wrong, and the
hazards in `PROJECT.json` say so one by one: a straddling request's answer (`late`), a wiped counter, a save
in the window (`raced`), a crossed CONNECT, an overtaken answer, a token fetched across its revocation
(`stray`) or given back by a restart (`reverted`), a redelivered event (`inOrder`), a fork by overlap.

Bounds. Every constant of a run is a bound, and no guard holds a bound of its own
except the ones named in section 2 (counts and ages held where the code stops telling them apart). Three
breaker calls allow one to be late in each direction while a third trips or closes the
breaker, and the threshold of 3 leaves room for a count that is neither zero nor
tripping. Four audit calls let a digest be under way while others
start, append and return on both sides. Two orders are enough for one to change breaker,
log, and switch at each await of the other; with thresholds of 1 one failure trips,
one success closes, and every breaker state is met in the middle of an order. The server run
has one record more than the limiter allows, and a window of 3 ticks with 2 ticks to the
second, so that rounding the retry time matters; crashes are unbounded. What would grow for ever in
the later modules is bounded by a constant that the module marks as a bound: `MaxRate`,
`MaxEdits`, `MaxEvents`, `MaxLoads`, `MaxImports`, `MaxPosts`, `MaxOpenings`, `Loops`, `Sockets`, `MaxClock`,
`MaxRows`, `MaxBatches`, `MaxTicks`. Four bounds are in the MC modules, each marked there: the tokens' part stops
once a restart took the server back, for nothing is said of what follows; the other page of the cases
fetches once and changes one case once; one file is imported under the graph; and one switch of the company panel at
a time is other than it was. One event is enough for the vault because jobs and feeds
interleave without bound around it; one request slot is used by any number of requests in
turn, each of which can straddle the load, and the proofs speak of any number at once. Four rows let two
transactions fork the chain and two more follow the fork; three openings let the
first answer come last and a third stand between. Deadlock is
checked except where the clients may have nothing left to do (`order_routing`
and the violation runs on the same modules; in `services` and `desk` the
commands end and what is counted runs out), which their configurations say. No symmetry is used:
most runs check a temporal property.

Fairness. `OrderRouting` assumes weak fairness of `Proceed(o)` for each order: every
await settles, because a fetch ends in a response or an error and a digest is computed or
fails. The POST of a record has no timeout in the code, so a ledger server that accepts
a connection and never answers is outside that assumption; it is listed as a hazard. No
fairness is assumed of callers, operator, broker or clock. `Recovers` needs no fairness: it speaks of behaviours
in which successes keep coming and failures stop. `VaultFairness`: launchd restarts the daemon, a running thread goes on,
every job falls due again and again (strong fairness, since it is due only between cycles), and
a feed answers now and then (strong fairness of `Fetch`: attempts are not all in vain).
`CorpGraphFairness`: the event loop serves every request and a time to live ends. The other
specifications assume none.

## 4. What is proved

Every safety invariant and every action property that a passing run checks, and both
refinements, for every value of the constants. What is assumed of the constants are the named
assumptions of the modules, and they are what the code is given:

- thresholds, cooldown, window and limits are positive; the genesis hash is no entry's, and
  records posted (finitely many) and read are different; the two companies of `CorpGraph` differ;
- what stands for "none" (no token, no answer, no version, no company) is no value of its kind;
- the collector's items are finitely many, its depth at most 3 and its limit at most 2000, as
  `collect` itself checks; a record's name has a word, and scores are percentages;
- the networks an API answers with list their nodes and link only those; there is a first case;
- what every page starts with refers to entities it has. Nothing is assumed of imported files.

Each theorem rests on one inductive invariant, checked in the order `Init`, each action,
what it says.

*Orders, breaker, audit log.*

- `BreakerCallsProofs`: `TypeCorrect`, `NeverClosedPastThreshold`,
  `OnlyDocumentedChanges`. The type invariant and `ClosedBelowThreshold` are inductive
  together: each failure is counted and compared in one step, and each way back to CLOSED
  clears the count.
- `AuditCallsProofs`: `TypeCorrect`, `AlwaysLinked`, `HashesCoverTheirPast`,
  `ImplementsLedger`. Linkedness alone is not inductive. `LoggedAfterChain` (a call whose
  digest is not back has no record) gives that no record appears twice;
  `HashingIsPrepared` (the hash under a pending digest is genesis or one already in the log)
  gives that digests cover the past. The refinement maps `Chain` to the abstract `Extend` and
  every other step to a stutter.
- `OrderRoutingProofs`: `ReceiptsAreHonest`, `RefusalsAreFinal`,
  `ImplementsLifecycle`. The strengthening is `Itinerary` (how far an order can be without a
  receipt, and that only a broker fill can be on its way from an exception to the fallback) and
  `KeysDecide` (which answers a connector with or without keys can get). For the refinement,
  `CallMatchesOrder` ties an order's audit call to the place of the order and `LogMatchesCalls` the log
  to the calls; `KindsOfStep` sorts the actions by what they do to log and receipts, and each kind maps to
  one step of `OrderLifecycle` or to none.

*The server and its files.*

- `ServerStoreProofs`: `LedgerStaysIntact`, `CrashesLoseNothing`, `SavesHeal`,
  `OneRecordAtATime`. The strengthening is `OnlyAnswered` (whatever stands in a ledger, in
  memory or file, was answered: so a request under way is in none and is appended once),
  `NothingUnreadable` (a file that does not parse holds nothing) and `FileIsCurrent` (without a fault the
  file is memory). `SaveKeeps` says once what the three outcomes of a save preserve.
- `LimiterTheorem`, in the same module, for `WindowHolds` and `RetryAfterSuffices`. `LimiterInv`:
  there is a mapping of the recent POSTs to timestamps of their age, one to one. Of those only as many are kept
  as may pass. Each pruning of the list and each tick gives a new mapping.
- `VaultProofs`: `NotesAreKept`. `OneWriter` (the lock per path makes a job that has read a
  note the only one that writes it) and `HoldsSaved` (what it holds is what the user saved, or a
  save raced it) with the types make `NotesKept` inductive; no note is ever half written, unlike the export.
- `RevocationHolds`, in the same module. `TokenInv`: a dead token is back in the server's memory only after a
  restart on a file that was left behind, and in the file only then or before that restart (`DeadStayDead`); who
  still gets it is marked (`StraysAreKnown`), and a copy outlives its fetch by one lifetime
  (`CopiesExpire`).

*CorpGraph* (`CorpGraphProofs`).

- `LoadsReachTheCache`, `LimitIsKept`. Once the loader has scanned the keys the
  graph stands still (`Settled`); `RequestsUpToDate` (who is not marked holds what the graph
  answers) and `KeptIsFresh` (what is not about to be dropped is fresh or marked) carry
  the first, `CountedFirst` (accepted requests were counted before) the second.
- `CollectorTheorem`. `WalkOK` gives the levels of the walk: what is discovered so far is what is reached by
  as many steps, and the frontier the last of it, unless the limit cut it.
- `ClustersTheorem`, for the three properties of entity resolution. `Joined`: a pair that was compared is in
  one cluster; `Separate`: no cluster reaches across a set of records that no match leads out of. The two
  together say that the clusters are the connected components, whatever the order of unions. `LinksKept`
  follows each relationship through the rewriting.
- `ConsoleTheorem`. `ResultsBelong`, `NetworkBelongs` and `ProfileBelongs` tie what is displayed to
  what is typed and chosen, across the fetches that are under way.

*The desk* (`DeskProofs`).

- `OnlyOverlapsFork`. `IdsTaken` (ids come from the sequence, each once) and
  `LinksToLast` (what was selected is the greatest id but for rows committed since).
- `CallsSettle`. `OneIdEach`, `UnbornIsUnusable` and `Settles`, which says of
  request ids what the property says of calls.
- `OneSocketFeedsTheorem` and `PollingHolds`. Unless a CONNECT crossed an open socket, the socket that the
  worker holds is the only one alive (`HoldsTheLive`); of the polls, one request is under way exactly when
  `pollInFlight` says so (`OneRequest`); unless polling was started while a loop lived, one loop lives, whose
  request it is (`OneLoop`).
- `CopiesAgreeTheorem`. `LatestIsUnderway`: where the copies of a case differ, its latest post is
  under way and carries the page's copy, or a named mishap has struck. `NotesInv`: posts bring the notes
  that the page fetched or none (`NotesBrought`), so that those, and without a fetch all that
  landed, stay (`NotesStay`).
- `LedgerViewTheorem`. `FollowsSoFar`: in order, what is reserved is the fold of the ledger up to
  the checkpoint, and the row is there from the first event that makes one. `RowIs`: no row, nothing reserved, and
  the row's number is no greater than the checkpoint's.
- `PaperTheorem`. `PaperInv` gives each order its answer and the reservations their sum (`OrdersAre`,
  `AnswersAre`), each approval two people in time (`ApprovalsAre`).
- `PanelTheorem`. Openings are numbered; the panel shows the highest that has answered (`ShowsHighest`),
  unless overtaken, and what a reopening asks for is what is shown (`ReopensShown`).
- `ShownTheorem` and `NeighboursTheorem`. `DataOK`: the flows that are held have different keys and both
  their entities, and what a file under way is compared with is still held when it is merged. That a file is
  validated against the entities of an earlier moment does no harm because none ever leaves before
  a reload, and a reload forgets the files. The rest is about the search: `Explores` says of a
  queue of routes that each is a route, that each entity seen has exactly one, and that nothing is seen without need;
  `SearchFollows` that what the first n routes lead to is seen. So if there were more routes than
  entities two would end in the same one (`NoLonger`, the pigeonhole), and the search of that length is complete:
  `SearchReaches`, `RouteFound`.
- `DataLemmas` holds what several of these need: least and greatest numbers, what a recursion over the
  subsets of a finite set or over the numbers up to n computes (`RecursionSolved`, `RecursionStays`,
  `CountingRecursion`), that a sum takes its elements in any order, that a filter keeps what it should.
  Induction over data is the choice of a smallest counterexample; the library's induction
  theorems take an operator as a parameter, which the provers do not instantiate. The folds of
  the community modules and the recursive functions of the models are of these forms. `SelectSeq` is not, which is
  why `Lists` has its own filter.

Two proofs failed at first because what they stated was false on instances the runs do not have. Relationships
between clusters are lost not only when registration numbers coincide: without one, two names
that are alike in one place become one id when their years differ, so the property is
`LostOnlyWhenAlike`. And an account that is released before anything made its row is passed over, since an
UPDATE that finds no row is no error: `ViewFollowsLedger` says so by `ReleasesFollow`.

Only model-checked: liveness (`Recovers`, `ZeroOrderLoss`, `NotesCatchUp`, `OverrideReturns`,
`StaleAnswersExpire`), which is out of the prover's reach, and the seven properties that the code violates.
The type invariants of `OrderRouting`, `ServerStore` and `AuditLog` are conjuncts of what is proved, as far as
they concern the proofs, and no run repeats them.

## 5. Where code and documents disagree

1. `breaker_probes`: `docs/EMERGENCY_RUNBOOK.md:44` wants two successful probes;
   `onFailure` does not clear `successCount`.
2. `audit_hash`: `docs/COMPLIANCE_RUNBOOK.md:38-39` defines a record's hash over its
   predecessor's; `lastHash` is read once before the await and again after it.
3. `failover_outage`: the comment at `src/services/orderRouting.js:62` has the simulator
   stand in on a broker outage; it does so on every error, also on a refusal and when the
   answer to an accepted order is lost.
4. `server_durability`: `src/db/dbClient.js:36` announces "local ACID-compliant storage";
   a save is neither atomic nor, when it fails, reported.
5. `vault_export`: the docstring at `obsidian_finance_daemon.py:730` promises an export
   "without exposing a partially written JSON document"; the temporary file has one fixed name
   (line 732) and two jobs may write it at once.

6. `order_halt`: `docs/EMERGENCY_RUNBOOK.md:22-29` engages the kill switch by `POST /api/audit` and says that
   all later orders are rejected; the handler (`server.mjs:608-623`) appends an event that nothing reads.
7. `feed_burst`: the comment at `src/services/marketDataAdapter.js:105-107` says that the adapter cannot burst
   past its allowance; a second `startPolling` during the first poll leaves two loops (lines 252-256).

Seen while modelling, without a run of their own:

- the comment at `components/NetworkCanvas.jsx:87` speaks of three hops where focus mode keeps two;
- `revokeAllTokens` (`src/services/credentialVault.js:57-63`) reports success when the server could not
  be reached, so that the token is still there; and a deletion whose save failed, which is only logged, is undone
  by the next restart (`server.mjs:80-87`, `682`);
- a page that has fetched its cases erases, with its next change of a case, the notes saved since then, those of
  its own too (`server.mjs:568`, `App.jsx:398-406`): no document promises otherwise;
- `append_audit_event` takes no lock, so two transactions that overlap fork the chain, which
  `docs/COMPLIANCE_RUNBOOK.md:38` does not provide for; the server appends from one connection pool, and
  `ForksNeedOverlap` confines the forks;
- an event that is delivered to the projector again is applied again (`ledgerProjector.js:2`), and the
  reconciliation adds releases up where the projector takes them away, so that an account with one is drifted;
  an account that has had fills only is missing;
- focus mode of the company panel draws nothing after a company was opened by an id without its prefix, since the
  selection keeps that id (`CompanyNetworkPanel.jsx:153`) and no node has it;
- a call of the Python bridge just after the engine ended can end Node: nobody listens to the error of
  the write (`pythonBridge.js:123`).

## 6. Plan

1. The client's audit log composed with the server's ledger: POSTs that arrive in another order than
   their digests were made in keep the links and lose the hashes.
2. Larger instances of CorpGraph (two slots at once) in a run without the other parts.
3. More of what the interface shows: the company intelligence pages, the entity browser and the graph
   of entities, once they keep state of their own.
4. `lib/connectionPool.js` and the risk alert engine's debounce, should the application come to use them.

## 7. Not modelled

Numbers (prices, risk, amounts against limits) and the fills' partial quantities; what a digest
covers byte for byte, and so tampering; the breaker's listeners, which nothing registers; metrics;
the list of interface events; entitlement checks, the live-trading gate, the adapter's status order
and `fillReconciliation`, which are pure functions of what they are given; the tables of paper orders
and reservations, which have no writer and whose uniqueness is PostgreSQL's own; `wsManager.js`, which
draws random ticks; templates and parsers of feeds; and what section 1.8 leaves aside.
