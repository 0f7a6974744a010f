CONSTANTS
  CodePoints <- MCCodePoints
  Derived <- MCDerived
  Encodings <- MCEncodings
  Bytes <- MCBytes
  Samples <- MCSamples
  Fail = Fail
  Facts = {}
SPECIFICATION Spec
INVARIANT MacrosAgree
CHECK_DEADLOCK FALSE
