CONSTANTS
  Emails = {a, b}
  InvalidSyntax = 1
  ChunkSize = 1
  Cacheable = {a}
  Verdicts = {"conclusive"}
  Clients = {u}
  Preparer = preparer
  Balance = 2
  PrepareRetries = 1
  ChunkRetries = 1
  StalePauseReads = TRUE
  RequestsWhilePreparing = FALSE
  Limits <- CrashLimits
SPECIFICATION Spec
CHECK_DEADLOCK FALSE
INVARIANTS RepeatsAreLateHits
PROPERTIES FailedStaysFailed
