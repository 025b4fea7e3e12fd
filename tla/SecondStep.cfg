SPECIFICATION Spec
CONSTANTS
  Request = {p1, p2, p3}
  App = {a1}
  Key = {k1}
  RecoveryCode = {c1}
  Steps = 2
  FailuresNotified = 1
  FailuresLocked = 2
  None = None
SYMMETRY Symmetry
INVARIANTS
  EachOnce
  RunCounted
  FewWhileLocked
