SPECIFICATION Spec
CONSTANTS
  Tx = {t1, t2, t3}
  Chain = {home, c1}
  Home = home
  Address = {a1, a2}
  Platform = platform
  Records = 2
  Batch = 1
  Alterations = 1
  None = None
SYMMETRY Symmetry
INVARIANTS
  ChainsWhole
  KeysKept
  FirstRunOnce
  NoDeadlock
  VerifyTrue
CHECK_DEADLOCK FALSE
