SPECIFICATION Spec
CONSTANTS
  N = 3
  Kinds <- MCKinds
  MaxSegment = 2
  MaxSegments = 3
  MaxStack = 3
INVARIANTS FmmusFit CarriedOnce BytesUnbroken FullWkcIsFresh
