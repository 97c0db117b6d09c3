SPECIFICATION FairSpec
CONSTANTS
  o1 = o1
  o2 = o2
  s1 = s1
  s2 = s2
  Operators = {o1}
  SSOs = {s1}
  ClientIds <- MCClientIds2
  Upstream <- OneApp
  SkipExpose = {s1}
  Editable = {}
  Deletable = {s1}
  FakeURL = FakeURL
  None = None
  FailingCalls = {}
  LostReplies = {"CreateClient"}
  MayCrash = TRUE
  MaxFaults = 1
  Retries = 0
  MaxRV = 3
  MaxUid = 1
INVARIANTS ProxyIsOwned
PROPERTIES DeletedIsCollected KnownDeletedIsCleanedUp
CHECK_DEADLOCK FALSE
