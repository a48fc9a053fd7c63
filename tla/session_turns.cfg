SPECIFICATION Spec
CONSTANTS
  None = None
  Faults = {"timeout", "restart", "traffic"}
  Switches = {TRUE, FALSE}
  MaxRetries = 1
  MaxTurns = 2
  MaxRuns = 2
  MaxRequests = 3
  MaxSegments = 1
INVARIANTS TypeOK AttributedUnlessDisturbed CountedTrafficShows
CHECK_DEADLOCK FALSE
