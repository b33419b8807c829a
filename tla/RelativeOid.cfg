SPECIFICATION Spec
CONSTANTS
  Base = 3
  MaxIdBytes = 4
  Inputs <- MCInputs
CHECK_DEADLOCK FALSE
INVARIANTS
  TypeOK
  AcceptedIffMinimal
  AcceptedIffEncoding
