\* JisReverse: forward rows, first-wins map, reverse rows and their values.
CONSTANTS
  Seqs <- MCSeqs
  RowOrder <- MCRowOrder
  UCodes <- MCUCodes
  Fallback <- MCFallback
  Fail = Fail
SPECIFICATION Spec
INVARIANTS
  TypeOK
  ValueUnpacks
  RoundTrip
CHECK_DEADLOCK FALSE
