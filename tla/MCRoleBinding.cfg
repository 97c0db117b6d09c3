SPECIFICATION FairSpec
CONSTANTS
  o1 = o1
  o2 = o2
  Operators = {o1, o2}
  Namespaces = {"home", "n1", "n2"}
  Home = "home"
  Users = {"u1"}
  Deletable = {"n2"}
  None = None
  FailingCalls <- AllCalls
  LostReplies <- AllCalls
  MaxFaults = 2
INVARIANTS TypeOK OneAccountPerNamespace EnsuredIsBound
PROPERTIES SubjectsKept EventuallyBound
