SPECIFICATION Spec
CONSTANTS
  None = None  Torn = Torn
  SessionTurns <- MCSessionTurns
  MaxRuns = 2
INVARIANTS TypeOK PublishedIsWholeRun ReturnedRunsAreDescribed EligibleEvidenceWasObserved DeclaredContractWasServed
