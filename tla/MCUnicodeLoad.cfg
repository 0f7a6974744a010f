\* UnicodeLoad: load_unicode_data over every sorted, paired file of up to four lines.
CONSTANTS
  Codes <- MCCodes
  None = None
  Facts = {"Paired"}
SPECIFICATION Spec
INVARIANTS
  TypeOK
  LoadedAsSpecified
CHECK_DEADLOCK FALSE
