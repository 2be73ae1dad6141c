SPECIFICATION FairListSpec
CONSTANTS
  Errors = {e1, e2}
  Blank = blank
  EC_MAXELIST = 3
PROPERTIES IsQueue DrainsAll
