CONSTANTS
  Emails = {a, b, d}
  InvalidSyntax = 1
  ChunkSize = 2
  Cacheable = {a, b}
  Verdicts = {"conclusive", "unknown"}
  Clients = {u}
  Preparer = preparer
  Balance = 2
  PrepareRetries = 1
  ChunkRetries = 1
  StalePauseReads = FALSE
  RequestsWhilePreparing = FALSE
  Limits <- PrepareLimits
SPECIFICATION FairSpec
CHECK_DEADLOCK FALSE
INVARIANTS TypeOK WorkInFlight CompletedIsPaidExactly OneRowPerAddress
PROPERTIES AlwaysComesToRest
