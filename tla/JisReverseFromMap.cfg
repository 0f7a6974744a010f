\* JisReverse: the reverse rows against the first-wins map the spec says they query.
CONSTANTS
  Seqs <- MCSeqs
  RowOrder <- MCRowOrder
  UCodes <- MCUCodes
  Fallback <- MCFallback
  Fail = Fail
SPECIFICATION Spec
INVARIANTS
  ReverseFromMap
CHECK_DEADLOCK FALSE
