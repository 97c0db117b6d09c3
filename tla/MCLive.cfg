SPECIFICATION FairSpec
CONSTANTS
  o1 = o1
  o2 = o2
  s1 = s1
  s2 = s2
  Operators = {o1}
  SSOs = {s1}
  ClientIds <- MCClientIds5
  Upstream <- OneApp
  SkipExpose = {}
  Editable = {s1}
  Deletable = {}
  FakeURL = FakeURL
  None = None
  FailingCalls <- AllButList
  LostReplies <- AllButStatus
  MayCrash = TRUE
  MaxFaults = 1
  Retries = 1
  MaxRV = 2
  MaxUid = 1
INVARIANTS InitializedIsConfigured OneClientPerFault
PROPERTIES EventuallyInitialized EventuallyServed
