SPECIFICATION ConstantsSpec
CONSTANTS
  None = None
  Base = 4
  MaxIdBytes = 3
  MaxVector = 8
  Lists <- MCLists
  Messages <- MCMessages
  Radix = 2
  Group = 3
  Width = 9
CHECK_DEADLOCK FALSE
INVARIANTS
  TypesOK
  RoundTrip
  PassesAgree
  CompilesIffAccepted
  PublishedAsSigned
