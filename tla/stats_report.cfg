SPECIFICATION StatsSpec
CONSTANTS
  w1 = w1  c1 = c1  c2 = c2  q1 = q1  q2 = q2
  Workers <- MCWorkers
  Contents <- MCContents
  Queries <- MCQueries
  Oversized <- MCOversized
  Latencies <- MCLatencies
  LatencyBudget = 2
  Contracts = {"query_aware", "disabled"}
  Backend = "memory"
  Faults = {"restart"}
  MaxRequests = 4
  Exact = Exact
  None = None
INVARIANTS HitNeverInvokesModel ColdRunsReachGate ReportExplainsBypasses
