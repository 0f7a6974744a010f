\* DerivedLoad: load_derived_properties over every file of up to three lines.
CONSTANTS
  Codes <- MCCodes
  Props = {Alphabetic, Lowercase}
  MaxLines = 3
SPECIFICATION Spec
INVARIANTS
  TypeOK
  DerivedAsListed
CHECK_DEADLOCK FALSE
