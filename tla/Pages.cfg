SPECIFICATION Spec
CONSTANTS
  MaxCalls = 2
  Terms = {"", "a"}
  MaxPage = 2
  People = {"u1"}
  RoleFilters = {"none", "admin"}
  Nodes = {"s1"}
  MaxRotate = 1
  Settings = {1, 2}
  KeyLimit = 1
  MaxRotation = 1
  Emails = {"e1"}
  Retentions = {1, 2}
  MaxLog = 3
  PAGE_SIZE = 1
  MAX_BUFFER = 2
  Backups = {"b1"}
  Brands = {1, 2}
  Scripts = {"h1"}
  MAX_SCRIPTS = 1
  Packages = {"p1", "p2"}
  Templates = {"t1", "t2"}
  Drafts = {1, 2}
  Names = {"n1", "n2"}
  Urls = {"", "w"}
  MaxSecret = 2
  Domains = {"d1"}
  MaxJob = 2
  limit = 1
  Costs = {1}
  Credits = {0, 2}
  MaxSelect = 2
  MaxKey = 3
  MaxFree = 1
  MaxToken = 2
  Providers = {"g1", "g2"}
  Offers = {"o1"}
  MaxRows = 2
  MaxCode = 2
  MaxVisit = 1
  MaxBlock = 1
  Controls = {"toggle"}
  MAX_SHOWN = 2
  Start = {"users","server","jobcontrol","apikeys","cache","logs","license","brand","packages","smtp","profile","domains","jobs","details","upload","verify","home","payment","credits","history","account","contact","transfer","security"}
CHECK_DEADLOCK FALSE
INVARIANTS TypeOK SpinnerHasRequest OneAtATime LogRowsDistinct AtMostOnePopular KeyFollowsRotation RetriesShareAKey
INVARIANT ConfirmationIsTrue
PROPERTY TokenUsedOnce
