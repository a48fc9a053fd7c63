SPECIFICATION Spec
CONSTANTS
  w1 = w1
  w2 = w2
  s1 = s1
  s2 = s2
  s3 = s3
  p1 = p1
  p2 = p2
  None = None
  Paths <- MCOnePath
  Shadows <- MCShadows
  HistoryLimit = 2
  Setters <- MCOneSetter
  Faults = {"outage"}
  MaxSets = 3
INVARIANTS
  RetainsMostRecent
CHECK_DEADLOCK FALSE
