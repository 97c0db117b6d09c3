SPECIFICATION FairSpec
CONSTANTS
  o1 = o1
  o2 = o2
  s1 = s1
  s2 = s2
  Operators = {o1}
  SSOs = {s1}
  ClientIds <- MCClientIds2
  Upstream <- OneApp
  SkipExpose = {}
  Editable = {}
  Deletable = {s1}
  FakeURL = FakeURL
  None = None
  FailingCalls = {}
  LostReplies = {}
  MayCrash = FALSE
  MaxFaults = 0
  Retries = 0
  MaxRV = 2
  MaxUid = 1
PROPERTIES DeletedIsUnexposed
CHECK_DEADLOCK FALSE
