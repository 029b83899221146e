CONSTANTS
  Workers = {w1, w2}
  NoWorker = NoWorker
  NoData = NoData
  Values <- MCValues
  StepIds = {"a", "b"}
  Definitions <- RequestOrPure
  MaxAttempts = 2
  MaxStalledCount = 1
  FaultSets = {{"crash", "dbError", "lostAck", "lockLoss"}}

SPECIFICATION Spec

INVARIANTS
  TypeOK
  RunsAreBounded
  FailedMeansAttemptsExhausted
  PureStepsAreRepeatable
PROPERTIES
  EveryStepComesCloser

SYMMETRY Interchangeable
