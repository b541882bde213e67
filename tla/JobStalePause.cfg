CONSTANTS
  Emails = {a, b}
  InvalidSyntax = 1
  ChunkSize = 1
  Cacheable = {}
  Verdicts = {"conclusive", "unknown"}
  Clients = {u}
  Preparer = preparer
  Balance = 2
  PrepareRetries = 1
  ChunkRetries = 1
  StalePauseReads = TRUE
  RequestsWhilePreparing = FALSE
  Limits <- PauseAndResume
SPECIFICATION Spec
CHECK_DEADLOCK FALSE
INVARIANT WorkInFlight
