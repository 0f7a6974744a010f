CONSTANTS
  NodeRests <- MCNodeRests
  Titles <- MCTitles
  Files <- MCFiles
  MaxLines = 4
  Facts = {"NodeFirst"}
SPECIFICATION Spec
INVARIANT TypeOK
INVARIANT ChapterWellFormed
INVARIANT BodyFaithful
CHECK_DEADLOCK FALSE
