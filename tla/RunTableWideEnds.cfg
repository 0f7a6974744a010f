\* The inputs may leave U+0000 or U+E01EF, the first and last codes
\* scanned, without a class.
CONSTANTS
  NBasic <- MCNBasic
  NAll <- MCNAll
  Flags = {alpha, punct}
  None = None
  Facts = {"FFFFUnclassified"}
SYMMETRY FlagSymmetry
SPECIFICATION Spec
INVARIANT WideTableCorrect
CHECK_DEADLOCK FALSE
