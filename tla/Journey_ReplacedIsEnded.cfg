SPECIFICATION Spec
CONSTANTS
  a = a
  b = b
  Tabs = {a, b}
  None = None
  Scenes <- MCTwoSignIns
  MaxLinks = 1
  MaxTokens = 6
PROPERTY
  ReplacedIsEnded
