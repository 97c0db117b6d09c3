SPECIFICATION Spec
CONSTANTS
  o1 = o1
  o2 = o2
  s1 = s1
  s2 = s2
  Operators = {o1}
  SSOs = {s1}
  ClientIds <- MCClientIds2
  Upstream <- OneApp
  SkipExpose = {}
  Editable = {}
  Deletable = {s1}
  FakeURL = FakeURL
  None = None
  FailingCalls <- ToleratedRefusals
  LostReplies <- ToleratedLosses
  MayCrash = FALSE
  MaxFaults = 1
  Retries = 1
  MaxRV = 3
  MaxUid = 1
INVARIANTS TypeOK ClientsTraced InitializedIsConfigured InitializedIsReachable
CHECK_DEADLOCK FALSE
