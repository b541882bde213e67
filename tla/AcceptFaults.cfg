CONSTANTS
  Requests = {r1, r2}
  Keys = {"upload", "junk", "big"}
  Charge <- ListCharge
  Balance = 4
  MaxActive = 2
  Limits <- FaultLimits
SPECIFICATION FairSpec
CHECK_DEADLOCK FALSE
INVARIANTS TypeOK BalanceExplained ChargedOnce RefusedIsFree AcceptedIsQueued
PROPERTIES KeyComesFree
