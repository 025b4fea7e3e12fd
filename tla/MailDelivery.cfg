SPECIFICATION Spec
CONSTANTS
  m1 = m1
  m2 = m2
  r1 = r1
  r2 = r2
  a1 = a1
  a2 = a2
  Sending = {m1, m2}
  Report = {r1, r2}
  Address = {a1, a2}
  To <- Addresses
  Broken = {m2}
  Genuine = {r1}
  Callback = {h1, h2}
  Connections = 2
  Tries = 2
  None = None
SYMMETRY Symmetry
INVARIANTS
  DoneIsLogged
  LogIsTrue
  FewAfterSuppression
  SuppressionIsJust
CHECK_DEADLOCK FALSE
