CONSTANTS
  NUM_OF_GENRE = 2
  MAX_MOVIES = 5
  MAX_REQ = 2
  Rows = 2
  Input <- PlainInputs
  SplitSize = 2
  MaxLevel = 1
  MaxThreads = 4
SPECIFICATION Spec
CHECK_DEADLOCK FALSE
INVARIANTS AlwaysRight
