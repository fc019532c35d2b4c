CONSTANTS
  Entry = {e1, e2}
  Content = {"ORDER_SUBMITTED"}
  Genesis = genesis
SPECIFICATION LogSpec
INVARIANT HashCoversPrevious
CHECK_DEADLOCK FALSE
