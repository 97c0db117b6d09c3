SPECIFICATION Spec
CONSTANTS
  o1 = o1
  o2 = o2
  s1 = s1
  s2 = s2
  Operators = {o1}
  SSOs = {s1}
  ClientIds <- MCClientIds3
  Upstream <- OneApp
  SkipExpose = {}
  Editable = {}
  Deletable = {s1}
  FakeURL = FakeURL
  None = None
  FailingCalls = {}
  LostReplies = {}
  MayCrash = FALSE
  MaxFaults = 0
  Retries = 1
  MaxRV = 3
  MaxUid = 2
INVARIANTS InitializedIsConfigured
CHECK_DEADLOCK FALSE
