CONSTANTS
  CodePoints <- MCCodePoints
  Derived <- MCDerived
  Encodings <- MCEncodings
  Bytes <- MCBytes
  Samples <- MCSamples
  Fail = Fail
  Facts = {"NoUpperLower"}
SPECIFICATION Spec
INVARIANT MacrosAgree
INVARIANT WideAgrees
CHECK_DEADLOCK FALSE
