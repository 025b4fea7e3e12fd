SPECIFICATION Spec
CONSTANTS
  Request = {p1, p2, p3, p4}
  None = None
  ChallengeAttempts = 2
SYMMETRY Symmetry
INVARIANTS
  OnlyCurrentPassword
  OneSessionPerChallenge
  AttemptsBounded
  NoDeadlock
PROPERTIES
  FlowsAreAtomic
CHECK_DEADLOCK FALSE
