\* A restored client reports again with a version the companion has already.
SPECIFICATION FairRecoverySpec
CONSTANTS
  NumRows = 1
  Limit = 1
  Kind = "report"
  MaxChanges = 4
  MaxLosses = 0
  MaxRestores = 1
PROPERTIES NothingWaitsForever
