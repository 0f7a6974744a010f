\* Every input over 8 codepoints with two class flags that has the
\* UnicodeData facts at U+0000, U+FFFF and U+E01EF.
CONSTANTS
  NBasic <- MCNBasic
  NAll <- MCNAll
  Flags = {alpha, punct}
  None = None
  Facts = {"NulClassified", "FFFFUnclassified", "LastClassified"}
SYMMETRY FlagSymmetry
SPECIFICATION Spec
INVARIANT TypeOK
INVARIANT StartsSorted
INVARIANT PrintedPrefixCorrect
INVARIANT WideTableCorrect
INVARIANT NarrowTableCorrect
INVARIANT TableMinimal
\* The generator terminates after the extended loop.
CHECK_DEADLOCK FALSE
