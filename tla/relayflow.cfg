CONSTANTS
  Calls = {c1, c2, c3}
  StepLists = {s}
  NoSteps = NoSteps
  InitialToken = InitialToken
  NoToken = NoToken
  Limit = 2
  windowSeconds = 1
  TicksPerSecond = 3
  MaxCount = 4
  Keys = {"k"}
  NoKey = NoKey
  NoExecution = NoExecution
  MaxQueueDepth = 1

SPECIFICATION SystemSpec

INVARIANTS
  VersionCountsUpdates
  SnapshotIsAVersion
  TokenMatchesTrigger
  CounterExpires
  LoadIsBounded
  RetryAfterSuffices
  AnswersAreOfAVersion
PROPERTY
  StatusPath

SYMMETRY Interchangeable
