\* No SYMMETRY: a liveness property is checked.  Orders that were all answered
\* leave the client, rightly, with nothing to do.
CONSTANTS
  Entry = {o1, o2}
  Content = {"ALPACA", "FAILOVER", "INTERNAL", "REJECTED"}
  Genesis = genesis
  BreachCase = {{}, {"notional"}}
  FailureThreshold = 1
  SuccessThreshold = 1
  Timeout = 1
  Page = {"p1", "p2"}
  Token = {"s1"}
  Ttl = 1
  MaxClock = 2
SPECIFICATION MCSpec
INVARIANTS
  VenueIsHonest
  RefusalIsFinal
  TokensStayRevoked
PROPERTIES
  KeepsOrderPromise
  ZeroOrderLoss
CHECK_DEADLOCK FALSE
