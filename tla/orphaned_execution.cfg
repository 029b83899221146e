CONSTANTS
  Requests = {r1, r2}
  Keys = {"k", "l"}
  NoKey = NoKey
  NoExecution = NoExecution
  MaxQueueDepth = 2
  MaxInFlight = 3
  Faults = {"crash"}

SPECIFICATION Spec

PROPERTY
  EveryAnswerSettles
