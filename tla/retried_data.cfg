CONSTANTS
  JsonbOrder <- MCJsonbOrder
  Payloads <- MCPayloads
  Responses <- MCResponses
  Steps <- MCSteps
  MaxSteps = 4

SPECIFICATION Spec

INVARIANTS
  TypeOK
  RetryIsInvisible
  OrderIsFetched
