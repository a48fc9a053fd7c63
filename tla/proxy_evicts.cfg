SPECIFICATION FairSpec
CONSTANTS
  w1 = w1  w2 = w2  c1 = c1  c2 = c2  q1 = q1  q2 = q2
  Workers <- MCWorkers
  Contents <- MCContents
  Queries <- MCOneQuery
  Oversized <- MCOversized
  Latencies <- MCLatencies
  LatencyBudget = 2
  Contracts = {"query_aware"}
  Backend = "redis"
  Faults = {"expiry"}
  MaxRequests = 3
  Exact = Exact
  None = None
INVARIANT RejectedEntryIsOwned
PROPERTIES RejectedEntriesLeave EveryRequestReturns
CHECK_DEADLOCK FALSE
