CONSTANTS
  Requests = {r1, r2}
  Keys = {"upload", "other"}
  Charge <- ListCharge
  Balance = 4
  MaxActive = 1
  Limits <- NoFault
SPECIFICATION Spec
CHECK_DEADLOCK FALSE
INVARIANT ActiveWithinLimit
