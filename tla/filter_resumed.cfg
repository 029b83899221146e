CONSTANTS
  Workers = {w1}
  NoWorker = NoWorker
  NoData = NoData
  Values <- MCValues
  StepIds = {"a", "b"}
  Definitions <- UpToTwoSteps
  MaxAttempts = 2
  MaxStalledCount = 1
  FaultSets = {{"dbError"}}

SPECIFICATION Spec

INVARIANT StoppedIsFinal
