SPECIFICATION FairSpec
CONSTANTS
  Threads = {t1, t2}
  Nobody = nobody
  MaxBuf = 2
  WireCap = 1
  LateFrames = TRUE
  SendFails = TRUE
PROPERTY TransactionEnds
CHECK_DEADLOCK TRUE
