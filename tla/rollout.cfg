SPECIFICATION Spec
CONSTANTS
  None = None  Torn = Torn
  Tasks = {"d1", "d2", "e1"}
  TaskType <- MCTaskType
  Manifest <- MCManifest
  ExecutorModes = {"conservative", "balanced"}
  MinimumPairedTasks = 2
  MaximumDegradation = 700
  MinimumImprovement = 50
  MaximumFallbackRate = 250
  MaximumLatencyIncrease = 500
  Budget = 3
INVARIANTS TypeOK EnabledIsJustified WorseNeverUnlocks PairingsAgree LineageDescribes
CHECK_DEADLOCK FALSE
