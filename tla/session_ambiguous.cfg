SPECIFICATION Spec
CONSTANTS
  None = None
  Faults = {"traffic"}
  Switches = {TRUE}
  MaxRetries = 0
  MaxTurns = 1
  MaxRuns = 1
  MaxRequests = 2
  MaxSegments = 1
INVARIANTS AttributedToOwnRequest
CHECK_DEADLOCK FALSE
