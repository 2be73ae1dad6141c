SPECIFICATION Spec
CONSTANTS
  Connections = {c1, c2}
  Plans <- MCPlans
  MaxRequests = 2
  MaxBody = 3
  MaxFails = 1
INVARIANTS UnitsKept ExactIfSequential FramesAreTrue
PROPERTIES CallsAreLegal AnsweredIfSequential
CHECK_DEADLOCK FALSE
