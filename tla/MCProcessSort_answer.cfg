CONSTANTS
  NUM_OF_GENRE = 2
  MAX_MOVIES = 5
  MAX_REQ = 2
  Input <- Inputs
  SplitSize = 1
  MaxLevel = 1
SPECIFICATION FairSpec
CHECK_DEADLOCK FALSE
INVARIANTS TypeOK AnswerComplete AnswerSorted SlicesDisjoint
PROPERTIES Answers
