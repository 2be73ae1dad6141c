SPECIFICATION WebSpec
CONSTANTS
  Period = 3
  Phase = 1
  Checks = 2
  LRW = TRUE
PROPERTY ReceiveKeepsOutputs
CHECK_DEADLOCK FALSE
