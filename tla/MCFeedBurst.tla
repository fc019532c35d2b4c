------------------------------ MODULE MCFeedBurst ------------------------------
(***************************************************************************)
(* MarketFeed as the server runs it: every GET /api/v1/market-data/tickers *)
(* calls startPolling and nothing calls stopPolling.  An interval is       *)
(* 60 s / maxCallsPerMinute, so PerMinute of them are a minute.            *)
(***************************************************************************)
EXTENDS MarketFeed, FiniteSetsExt, Functions

CONSTANT PerMinute      \* maxCallsPerMinute

VARIABLE recent         \* the requests of the intervals before, the latest first

BurstInit == FeedInit /\ recent = [i \in 1 .. (PerMinute - 1) |-> 0]

BurstNext ==
  \/ Serve /\ UNCHANGED recent
  \/ Interval /\ recent' = [i \in DOMAIN recent |-> IF i = 1 THEN requests ELSE recent[i - 1]]

BurstSpec == BurstInit /\ [][BurstNext]_<<feedVars, recent>>

\* "It deliberately serializes requests and defaults to five calls per minute so
\* a free-plan integration cannot burst past its declared allowance"
\* (marketDataAdapter.js:105-107): in no minute are there more requests than
\* maxCallsPerMinute.  startPolling looks at pollTimer, which is null until the
\* first poll is answered: two pages that ask during it leave two loops, each
\* with its request an interval.
CannotBurst == requests + FoldFunction(+, 0, recent) <= PerMinute
=============================================================================
