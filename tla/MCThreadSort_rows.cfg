CONSTANTS
  NUM_OF_GENRE = 2
  MAX_MOVIES = 5
  MAX_REQ = 2
  Rows = 1
  Input <- PlainInputs
  SplitSize = 2
  MaxLevel = 1
  MaxThreads = 5
SPECIFICATION Spec
CHECK_DEADLOCK FALSE
INVARIANTS RequestsHaveRows
