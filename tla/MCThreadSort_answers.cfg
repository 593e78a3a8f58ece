CONSTANTS
  NUM_OF_GENRE = 2
  MAX_MOVIES = 5
  MAX_REQ = 2
  Rows = 2
  Input <- Inputs
  SplitSize = 2
  MaxLevel = 1
  MaxThreads = 5
SPECIFICATION FairSpec
CHECK_DEADLOCK FALSE
INVARIANTS TypeOK AnswersComplete AnswersSorted SlicesDisjoint
PROPERTIES AllAnswered
