CONSTANTS
  Workers = {w1, w2}
  NoWorker = NoWorker
  NoData = NoData
  Values <- MCValues
  StepIds = {"a", "b", "c"}
  Definitions <- UpToThreeSteps
  MaxAttempts = 2
  MaxStalledCount = 1
  FaultSets = {{"crash", "dbError"}}

SPECIFICATION Spec

INVARIANTS
  InputIsPredecessorOutput
  AttemptCoversRuns
PROPERTIES
  RecordedResultIsFinal
  ImplementsStepLedger

SYMMETRY Interchangeable
