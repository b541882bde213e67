CONSTANTS
  Emails = {a, b}
  InvalidSyntax = 1
  ChunkSize = 1
  Cacheable = {a, b}
  Verdicts = {"conclusive"}
  Clients = {u, v}
  Preparer = preparer
  Balance = 2
  PrepareRetries = 1
  ChunkRetries = 1
  StalePauseReads = FALSE
  RequestsWhilePreparing = FALSE
  Limits <- RaceLimits
SPECIFICATION Spec
CHECK_DEADLOCK FALSE
SYMMETRY Symmetry
INVARIANTS CountersMatchRows FailedIsFree OneRowPerGeneration
PROPERTIES CompletedStays
