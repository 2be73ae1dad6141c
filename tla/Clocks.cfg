SPECIFICATION BusSpec
CONSTANTS
  N = 5
  Delays <- MCDelays
  Clocks <- MCClocks
  Half = 512
CHECK_DEADLOCK FALSE
INVARIANTS ParentIsUp PortIsTrue DelayIsTrue
