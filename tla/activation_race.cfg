CONSTANTS
  Calls = {c1, c2}
  StepLists = {s}
  NoSteps = NoSteps
  InitialToken = InitialToken
  NoToken = NoToken

SPECIFICATION Spec

PROPERTY ActivatedHasSteps
