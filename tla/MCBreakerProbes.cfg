CONSTANTS
  Call = {c1}
  FailureThreshold = 2
  SuccessThreshold = 2
  Timeout = 1
SPECIFICATION ProbeSpec
PROPERTY ProbesRestoreClosed
