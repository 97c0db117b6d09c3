SPECIFICATION FairSpec
CONSTANTS
  o1 = o1
  o2 = o2
  s1 = s1
  s2 = s2
  Operators = {o1}
  SSOs = {s1, s2}
  ClientIds <- MCClientIds5
  Upstream <- TwoApps
  SkipExpose = {}
  Editable = {}
  Deletable = {}
  FakeURL = FakeURL
  None = None
  FailingCalls <- ToleratedRefusals
  LostReplies = {}
  MayCrash = FALSE
  MaxFaults = 1
  Retries = 0
  MaxRV = 1
  MaxUid = 1
INVARIANTS InitializedIsConfigured
PROPERTIES EventuallyInitialized
