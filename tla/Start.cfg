SPECIFICATION Spec
CONSTANTS
  N = 2
  Checks = 2
  MaxFaults = 1
CHECK_DEADLOCK FALSE
INVARIANT DataWhenStarted
PROPERTIES ReportsAreTrue NeverUnmapped StartSucceeds StartEnds
