SPECIFICATION Spec
CONSTANTS
  MaxPushes = 3
  MaxCommits = 3
  PageSize = 2
  MaxVersion = 2
  MaxEvents = 3
  MaxFaults = 1
CHECK_DEADLOCK FALSE
INVARIANTS
  TypesOK
  OnlyVerifiedPublished
  ReportedRequestProposesFiles
PROPERTIES
  TipGetsItsRun
  UnseenCommitsSurvive
  NewestGetsProposed
