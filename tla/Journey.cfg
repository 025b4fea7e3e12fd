SPECIFICATION Spec
CONSTANTS
  a = a
  b = b
  Tabs = {a, b}
  None = None
  Scenes <- MCScenes
  MaxLinks = 1
  MaxTokens = 6
INVARIANT
  ConsoleNeedsFactor
PROPERTIES
  NoneLeftBehind
  OffersWork
  NotAskedTwice
  LoadsEnd
