CONSTANTS
  Workers = {w1}
  NoWorker = NoWorker
  NoData = NoData
  Values <- MCValues
  StepIds = {"a", "b"}
  Definitions <- SharedId
  MaxAttempts = 2
  MaxStalledCount = 1
  FaultSets = {{}}

SPECIFICATION Spec

INVARIANT EveryStepRuns
