SPECIFICATION Spec
CONSTANTS
  r1 = r1
  r2 = r2
  r3 = r3
  before = before
  after = after
  Run <- Calls
  HolderOf <- Versions
  None = None
INVARIANTS
  ReturnedMeansReleased
