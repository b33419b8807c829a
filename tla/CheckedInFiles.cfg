SPECIFICATION FilesSpec
CONSTANTS
  Base = 128
  VarintBytes = 3
  LastGroup = 1
  MaxTag = 511
  IsText <- MCIsText
  Inputs <- MCInputs
  PinnedId <- MCPinnedId
  PinnedUrl <- MCPinnedUrl
  HashDigits = 2
  BrowserComponents = 2
  MaxVersion = 7
  Decimal <- MCDecimal
  Candidates <- MCCandidates
  NoSnapshot = NoSnapshot
  HandWritten <- MCHandWritten
CHECK_DEADLOCK FALSE
INVARIANTS
  TypesOK
  AcceptedIffWellFormed
  Retraces
  FullyDecoded
  DecodesLastOccurrence
  ReadsWhatWasWritten
  AcceptedIffEachFieldOnce
