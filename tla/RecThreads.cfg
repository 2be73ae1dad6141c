SPECIFICATION FairSpec
CONSTANTS
  N = 2
  MaxFaults = 1
  MaxDisturbed = 1
INVARIANTS RenamesOne
PROPERTIES ReconnectsAlone RequestsAreLegal LostIsFound
