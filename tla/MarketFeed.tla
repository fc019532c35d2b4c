------------------------------ MODULE MarketFeed ------------------------------
(***************************************************************************)
(* PolygonMarketDataAdapter (marketDataAdapter.js): the poll loop that     *)
(* GET /api/v1/market-data/tickers starts.  startPolling looks at          *)
(* pollTimer, which is set only when the first poll has been answered, so  *)
(* several loops may run.  Time is counted in polling intervals.           *)
(***************************************************************************)
EXTENDS Naturals, FiniteSets

CONSTANTS
  Tickers,      \* how many instruments are watched
  Loops         \* bound: how often polling is started

ASSUME FeedAssumption == Tickers \in Nat \ {0} /\ Loops \in Nat

VARIABLES
  loops,        \* each loop: "unused", "polling", "waiting" and "due" for its timer, "cleared"
  handle,       \* pollTimer: the loop it belongs to, 0 for null
  inFlight,     \* pollInFlight
  fetching,     \* the requests underway: [loop, ticker]
  cursor,
  requests,     \* in this interval
  cutShort,     \* whether polling was stopped in this interval
  skipped,      \* whether an instrument was passed over
  doubled       \* whether polling was started while a loop lived

feedVars == <<loops, handle, inFlight, fetching, cursor, requests, cutShort, skipped, doubled>>

Loop == 1 .. Loops
Ticker == 1 .. Tickers

Lives(l) == loops[l] \in {"polling", "waiting", "due"}

FeedInit ==
  /\ loops = [l \in Loop |-> "unused"] /\ handle = 0 /\ inFlight = FALSE /\ fetching = {}
  /\ cursor = 1 /\ requests = 0 /\ cutShort = FALSE /\ skipped = FALSE /\ doubled = FALSE

\* A slip in reach of this code: pollInFlight is not looked at.
PollAnyway(l) ==
  /\ cursor' = (cursor % Tickers) + 1
  /\ loops' = [loops EXCEPT ![l] = "polling"] /\ inFlight' = TRUE
  /\ fetching' = fetching \cup {[loop |-> l, ticker |-> cursor]} /\ requests' = requests + 1
  /\ UNCHANGED <<handle, cutShort, skipped>>

\* The cursor moves on before pollNext looks whether a request is underway: the
\* instrument is skipped then, and the loop waits for its next turn.
Poll(l) ==
  /\ cursor' = (cursor % Tickers) + 1
  /\ IF inFlight
     THEN /\ loops' = [loops EXCEPT ![l] = "waiting"] /\ handle' = l /\ skipped' = TRUE
          /\ UNCHANGED <<inFlight, fetching, requests>>
     ELSE /\ loops' = [loops EXCEPT ![l] = "polling"] /\ inFlight' = TRUE
          /\ fetching' = fetching \cup {[loop |-> l, ticker |-> cursor]} /\ requests' = requests + 1
          /\ UNCHANGED <<handle, skipped>>
  /\ UNCHANGED cutShort

StartPolling(l) ==
  /\ handle = 0 /\ loops[l] = "unused" /\ \A k \in 1 .. (l - 1) : loops[k] # "unused"
  /\ Poll(l)
  /\ doubled' = (doubled \/ \E k \in Loop : Lives(k))

TimerFires(l) == loops[l] = "due" /\ Poll(l) /\ UNCHANGED doubled

\* The loop sets its timer again, even when polling was stopped meanwhile.
Answers(f) ==
  /\ f \in fetching /\ fetching' = fetching \ {f} /\ inFlight' = FALSE
  /\ loops' = [loops EXCEPT ![f.loop] = "waiting"] /\ handle' = f.loop
  /\ UNCHANGED <<cursor, requests, cutShort, skipped, doubled>>

\* clearTimeout of the one timer that is known.
StopPolling ==
  /\ handle' = 0 /\ cutShort' = TRUE
  /\ loops' = [l \in Loop |-> IF l = handle /\ loops[l] \in {"waiting", "due"} THEN "cleared" ELSE loops[l]]
  /\ UNCHANGED <<inFlight, fetching, cursor, requests, skipped, doubled>>

SetWatchlist ==
  /\ cursor' = 1
  /\ UNCHANGED <<loops, handle, inFlight, fetching, requests, cutShort, skipped, doubled>>

\* An interval passes; a timer is late, but not by an interval.
Interval ==
  /\ \A l \in Loop : loops[l] # "due"
  /\ loops' = [l \in Loop |-> IF loops[l] = "waiting" THEN "due" ELSE loops[l]]
  /\ requests' = 0 /\ cutShort' = FALSE
  /\ UNCHANGED <<handle, inFlight, fetching, cursor, skipped, doubled>>

\* What happens within an interval when nobody stops the adapter: in the
\* repository nothing does.
Serve ==
  \/ \E l \in Loop : StartPolling(l) \/ TimerFires(l)
  \/ \E f \in fetching : Answers(f)
  \/ SetWatchlist

FeedNext == Serve \/ StopPolling \/ Interval

FeedSpec == FeedInit /\ [][FeedNext]_feedVars

-----------------------------------------------------------------------------
(* The adapter "deliberately serializes requests"                          *)
(* (marketDataAdapter.js:105): never two at once, whoever starts and stops *)
(* it.  As long as polling was not started while a loop lived, one loop    *)
(* lives, no instrument loses its turn, and there is one request an        *)
(* interval, or the first of a new loop after a stop.  A start during the  *)
(* first poll is enough to lose all three: CannotBurst of MCFeedBurst.     *)
PollsWithinAllowance ==
  /\ Cardinality(fetching) <= 1
  /\ ~doubled => /\ \A k, l \in Loop : Lives(k) /\ Lives(l) => k = l
                 /\ ~skipped
                 /\ cutShort \/ requests <= 1
=============================================================================
