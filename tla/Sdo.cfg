SPECIFICATION Spec
CONSTANTS
  Objects <- MCObjects
  Long <- MCLong
  Parts = 3
  Values = {"a", "b"}
  MaxCnt = 3
  MaxEmcy = 1
  MaxFails = 2
INVARIANTS PartsInOrder ExactTillFailure
CHECK_DEADLOCK FALSE
