SPECIFICATION Spec
CONSTANTS
  Threads = {t1, t2}
  Nobody = nobody
  MaxBuf = 4
  WireCap = 3
  LateFrames = FALSE
  SendFails = FALSE
INVARIANTS TypeOK UniqueOwner AnswerMatches NoBufferLeak
SYMMETRY ThreadSymmetry
CHECK_DEADLOCK TRUE
