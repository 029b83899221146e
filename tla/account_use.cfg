CONSTANTS
  Calls = {c1, c2}
  Passwords = {p, q}
  Normalised <- MCNormalised
  NoUser = NoUser
  CredentialIds = {k1}
  NoCredential = NoCredential
  Origins = {"own", "other", "private"}
  Refused = {"private"}
  NoStep = NoStep
  NoUrl = NoUrl
  MAX_REDIRECTS = 2
  MaxAttempts = 2

SPECIFICATION Spec

INVARIANTS
  RegistrationSticks
  TokensStayWithTheirOwner
  RequestsStayAtOrigin
  EffectsHappenOnce
PROPERTY
  AttemptsEnd
