SPECIFICATION Spec
CONSTANTS
  w1 = w1  w2 = w2  s1 = s1  s2 = s2  s3 = s3
  p1 = p1  p2 = p2
  None = None
  Paths <- MCPaths
  Setters <- MCSetters
  Shadows <- MCShadows
  HistoryLimit = 2
  Faults = {"crash", "expiry", "lost", "outage"}
  MaxSets = 3
SYMMETRY Symmetry
INVARIANTS TypeOK LostOnlyToBlindWrites ReadersAgree ReverseFollowsLastMapping
