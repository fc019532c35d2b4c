\* One order that breaches no limit is enough.
CONSTANTS
  Entry = {o1}
  Content = {"ALPACA", "FAILOVER", "INTERNAL", "REJECTED"}
  Genesis = genesis
  BreachCase = {{}}
  FailureThreshold = 1
  SuccessThreshold = 1
  Timeout = 1
SPECIFICATION HaltSpec
PROPERTY HaltByApiStops
CHECK_DEADLOCK FALSE
