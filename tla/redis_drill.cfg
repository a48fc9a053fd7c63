SPECIFICATION FairSpec
CONSTANTS
  MaxTrouble = 2
  Earlier = Earlier
  None = None
INVARIANTS TypeOK PassIsEarned FailsOnlyInTrouble ReturnMatchesEvidence NothingLeftRunning
PROPERTY DrillEnds
CHECK_DEADLOCK FALSE
