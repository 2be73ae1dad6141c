SPECIFICATION FairSpec
CONSTANTS
  Images <- MCImages
  Networks <- MCNetworks
  Wide <- MCWide
  Base = 256
  BufWords = 80
  MaxSM = 4
  MaxPDO = 5
  MaxName = 4
  MaxNack = 2
  MaxEvents = 3
INVARIANTS CacheIsTrue DescriptionIsTrue EepromIsReturned
PROPERTY ConfigurationEnds
CHECK_DEADLOCK FALSE
