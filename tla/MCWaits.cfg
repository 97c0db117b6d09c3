SPECIFICATION FairSpec
CONSTANTS
  Helpers <- AllHelpers
  Pods = {p1, p2}
  None = None
  MaxPolls = 4
  MaxErrors = 3
  MaxEvents = 2
  MaxVersion = 2
INVARIANTS TypeOK
PROPERTIES SuccessIsEarned GivesUpOnlyInVain SteadyIsSeen
CHECK_DEADLOCK FALSE
