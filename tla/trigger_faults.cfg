CONSTANTS
  Requests = {r1, r2, r3}
  Keys = {"k"}
  NoKey = NoKey
  NoExecution = NoExecution
  MaxQueueDepth = 1
  MaxInFlight = 2
  Faults = {"crash", "dbError", "lostAck", "queueError", "queueLostAck"}

SPECIFICATION Spec

INVARIANTS
  TypeOK
  OvershootIsBounded
  SameKeySameExecution
  KeyRunsOnce
  RefusedNeverRuns
PROPERTIES
  SettledIsFinal
  AnsweredIsSettled
  UnqueuedSettles
  ImplementsRequestLedger
