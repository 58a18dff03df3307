SPECIFICATION Spec
CONSTANTS
  INDEX_SIZE = 7
  MaxN = 127
INVARIANT
  InodeFindsEveryNode
CHECK_DEADLOCK FALSE
