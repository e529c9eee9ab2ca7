SPECIFICATION Spec
CONSTANTS
  Files <- SelfFiles
CHECK_DEADLOCK FALSE
INVARIANT
  NeverToItself
