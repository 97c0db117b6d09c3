SPECIFICATION FairSpec
CONSTANTS
  o1 = o1
  o2 = o2
  s1 = s1
  s2 = s2
  Operators = {o1}
  SSOs = {s1}
  ClientIds <- MCClientIds2
  Upstream <- OneApp
  SkipExpose = {s1}
  Editable = {}
  Deletable = {s1}
  FakeURL = FakeURL
  None = None
  FailingCalls = {"WaitForJob"}
  LostReplies = {}
  MayCrash = FALSE
  MaxFaults = 1
  Retries = 2
  MaxRV = 3
  MaxUid = 1
PROPERTIES DeletedIsCleanedUp
CHECK_DEADLOCK FALSE
