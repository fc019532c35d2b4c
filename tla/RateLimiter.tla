----------------------------- MODULE RateLimiter -----------------------------
(***************************************************************************)
(* One key of a RateLimiter of src/server/middleware/rateLimiter.js, which *)
(* lets "max" requests through in any stretch of "windowMs".  A timestamp  *)
(* is kept as its age, so that the clock needs no bound; an age of Window  *)
(* stands for every age from there on.                                     *)
(***************************************************************************)
EXTENDS Integers, Sequences, SequencesExt

CONSTANTS
  Window,    \* windowMs, in ticks
  Most,      \* max
  Second     \* ticks in the second that Retry-After is rounded up to

ASSUME LimiterAssumption ==
  /\ Window \in Nat \ {0}
  /\ Most \in Nat \ {0}
  /\ Second \in Nat \ {0}

VARIABLE hits    \* the ages of the timestamps kept for the key, oldest first

\* No more timestamps are kept than requests may pass.
LimiterTypeOK == hits \in Seq(0..Window) /\ Len(hits) <= Most

LimiterInit == hits = <<>>

-----------------------------------------------------------------------------
\* The timestamps that are younger than an age, in their order.
Younger(bound) == FoldLeft(LAMBDA kept, a : IF a < bound THEN Append(kept, a) ELSE kept, <<>>, hits)

\* A slip in reach of this code: the window one tick short.
LiveButOne == Younger(Window - 1)

\* check() filters the timestamps first, and stores the result only when it
\* lets the request through.
Live == Younger(Window)

Allowed == Len(Live) < Most

Hit == hits' = Append(Live, 0)

\* A slip in reach of this code: Math.floor for Math.ceil.
FlooredSeconds == (Window - Live[1]) \div Second

\* The seconds after which the oldest timestamp leaves the window, rounded up,
\* at least 1.
ResetSeconds == (Window - Live[1] + Second - 1) \div Second

TickLimiter == hits' = [i \in DOMAIN hits |-> IF hits[i] < Window THEN hits[i] + 1 ELSE Window]

\* The hits are kept in memory only.
ForgetHits == hits' = <<>>

-----------------------------------------------------------------------------
\* A client that was told 429 and waits the time it was told finds a free slot,
\* unless another request under the same key takes it first.
RetryAfterSuffices ==
  ~Allowed => Len(Younger(Window - ResetSeconds * Second)) < Most
=============================================================================
