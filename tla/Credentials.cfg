\* Two browsers sign in and out, two requests at a time.
SPECIFICATION Spec
CONSTANTS
  m1 = m1  b1 = b1  b2 = b2  q1 = q1  q2 = q2  None = None
  Managers = {m1}
  Browsers = {b1, b2}
  Requests = {q1, q2}
  Providers = {"google"}
  Accounts <- MCAccounts
  Allowed <- MCAllowed
  TokenNames = {"ci"}
  LoginSeconds = 1
  SessionSeconds = 1
  TokenLives = {1}
  SweepSeconds = 1
  MaxPendingLogins = 1
  MaxSecrets = 3
  MaxTime = 1
  MaxMishaps = 2
SYMMETRY Symmetry
INVARIANTS
  OneSessionPerSignIn
  SessionForSignIn
  NoSignInLost
  PendingBounded
  SweptMeansSwept
PROPERTIES
  RefusedStaysRefused
CHECK_DEADLOCK FALSE
