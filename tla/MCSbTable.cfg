CONSTANTS
  Tables <- MCTables
  IsoBytes <- MCIsoBytes
  CpBytes <- MCCpBytes
  Samples <- MCSamples
  Fail = Fail
SPECIFICATION Spec
PROPERTY ImplementsRows
CHECK_DEADLOCK FALSE
