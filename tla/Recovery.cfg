\* Two deletions, one per pass, undone, redone and brought back by a download while they are sent over a bad connection; one side may be restored from an older backup.
SPECIFICATION FairRecoverySpec
CONSTANTS
  NumRows = 2
  Limit = 1
  Kind = "retirement"
  MaxChanges = 3
  MaxLosses = 2
  MaxRestores = 1
INVARIANTS HeldUntilRestored AckedNotAhead
PROPERTIES OnlyRestoresGoBack RestoredSidesAgree NothingWaitsForever
