CONSTANTS
  Emails = {a, b}
  InvalidSyntax = 1
  ChunkSize = 1
  Cacheable = {a}
  Verdicts = {"conclusive", "unknown"}
  Clients = {u}
  Preparer = preparer
  Balance = 2
  PrepareRetries = 1
  ChunkRetries = 1
  StalePauseReads = FALSE
  RequestsWhilePreparing = FALSE
  Limits <- OneRetry
SPECIFICATION Spec
CHECK_DEADLOCK FALSE
INVARIANT CompletedIsPaidExactly
