SPECIFICATION FairSpec
CONSTANTS
  Period = 3
  Phase = 1
  Checks = 2
  LRW = TRUE
INVARIANTS StepsReachDrive
PROPERTIES ReceiveKeepsOutputs CountedAtTarget RunsProgram Shuttles TimeLimitEnds
CHECK_DEADLOCK FALSE
