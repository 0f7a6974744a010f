\* Every occupancy of 4 rows x 3 columns, under each call of the script.
CONSTANTS
  NRows <- MCNRows
  NCols <- MCNCols
  SplitCodes <- MCSplitCodes
  OffsetWidth <- MCOffsetWidth
  Calls <- MCCalls
  None = None
  Invalid = Invalid
SPECIFICATION Spec
INVARIANT TypeOK
INVARIANT UnsplitDecodeCorrect
INVARIANT SplitDecodeCorrect
\* dump_2byte returns (or the generator dies) after the map.
CHECK_DEADLOCK FALSE
