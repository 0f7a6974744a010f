\* UnicodeLoad: a Last line that does not follow its First line.
CONSTANTS
  Codes <- MCCodes
  None = None
  Facts = {}
SPECIFICATION Spec
INVARIANTS
  LoadedAsSpecified
CHECK_DEADLOCK FALSE
