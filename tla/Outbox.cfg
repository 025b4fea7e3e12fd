SPECIFICATION Spec
CONSTANTS
  Event = {e1}
  Mail = {e1}
  Dispatcher = {d1, d2}
  Callback = {h1, h2}
  Consumers = 2
  AttemptsAllowed = 3
  Tries = 3
  None = None
INVARIANTS
  NothingLost
  BodiesWhole
  HandledOnce
  DoneMeansHandled
PROPERTIES
  EverythingSettles
CHECK_DEADLOCK FALSE
