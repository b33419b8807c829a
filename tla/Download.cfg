SPECIFICATION Spec
CONSTANTS
  MaxRedirects = 8
  MaxBytes = 2
  BodySizes = {0, 2, 3, 4}
CHECK_DEADLOCK FALSE
INVARIANTS
  TypeOK
  StaysOnAllowlist
  SharedBudget
  WholeBody
