CONSTANTS
  Entry = {o1}
  Content = {"ALPACA", "FAILOVER", "INTERNAL", "REJECTED"}
  Genesis = genesis
  BreachCase = {{}}
  FailureThreshold = 2
  SuccessThreshold = 1
  Timeout = 1
SPECIFICATION Spec
INVARIANT FailoverMeansOutage
CHECK_DEADLOCK FALSE
