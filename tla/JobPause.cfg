CONSTANTS
  Emails = {a, b}
  InvalidSyntax = 1
  ChunkSize = 2
  Cacheable = {a}
  Verdicts = {"conclusive", "unknown"}
  Clients = {u}
  Preparer = preparer
  Balance = 2
  PrepareRetries = 1
  ChunkRetries = 1
  StalePauseReads = FALSE
  RequestsWhilePreparing = FALSE
  Limits <- PauseLimits
SPECIFICATION FairSpec
CHECK_DEADLOCK FALSE
INVARIANTS CountersMatchRows NeverOverRefunded FlagFollowsStatus WorkInFlight CompletedIsPaidExactly OneRowPerAddress
PROPERTIES AlwaysComesToRest
