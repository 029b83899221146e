CONSTANTS
  Workers = {w1}
  NoWorker = NoWorker
  NoData = NoData
  Values <- MCValues
  StepIds = {"a", "b"}
  Definitions <- UpToTwoSteps
  MaxAttempts = 2
  MaxStalledCount = 1
  FaultSets = {{"crash"}}

SPECIFICATION Spec

INVARIANT FailedIsReported
