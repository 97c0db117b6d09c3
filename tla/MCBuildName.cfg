SPECIFICATION Spec
CONSTANTS
  NameLengths <- MCNameLengths
  SuffixLengths <- UsedSuffixes
INVARIANTS Fits Apart
CHECK_DEADLOCK FALSE
