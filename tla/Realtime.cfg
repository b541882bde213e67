CONSTANTS
  Admins = {"admin"}
  Customers = {"customer"}
  MaxAuth = 2
  Sockets = {1, 2}
  MaxFaults = 1
SPECIFICATION FairSpec
INVARIANTS TypeOK KeyMatchesToken AtMostOneSocket ConnectedMeansOpen OnlyRefusalEndsRetries
PROPERTIES Reconnects ImplementsLink
