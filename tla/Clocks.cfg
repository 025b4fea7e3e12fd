\* The clock stops at Horizon, where a run may end.
CHECK_DEADLOCK FALSE
SPECIFICATION MCSpec
CONSTANTS
  r1 = r1
  r2 = r2
  r3 = r3
  v1 = v1
  v2 = v2
  before = before
  after = after
  Horizon = 6
  Askers = {r1, r2}
  Purposes = {"signin", "enrol"}
  Every = 2
  Hour = 5
  PerHour = 2
  Lifetime = 3
  Tries = 2
  MaxWait = 1
  NotAsking = NotAsking
  Requests = {r1, r2}
  TTL = 3
  MaxLoad = 2
  MaxChanges = 2
  NoMap = NoMap
  Attempts = {r1, r2}
  Limiters = {"signin", "resend"}
  Keys = {v1}
  Limit <- MCLimit
  Window <- MCWindow
  Late = 1
  Visitors = {v1, v2}
  Burst = 3
  Refill = 1
  Idle = 3
  WorthWalking = 1
  Run <- Calls
  HolderOf <- Versions
  None = None
INVARIANTS
  AloneWhileOnTime
  LeaseProtects
  SendsBounded
  HostsFresh
  LimitsHold
  Remembered
PROPERTIES
  OnlyLastAccepted
  JobRunsAgain
