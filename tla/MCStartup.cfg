SPECIFICATION FairSpec
CONSTANTS
  o1 = o1
  o2 = o2
  Operators = {o1, o2}
  Keys <- MCKeys
  None = None
  NoKey = NoKey
  Leftovers = {None, NoKey}
  FailingCalls <- AllSteps
  LostReplies <- AllSteps
  MaxFaults = 3
INVARIANTS TypeOK KeysAgree ProxiesAgree
PROPERTIES EventuallyRunning
