SPECIFICATION ZoneFairSpec
CONSTANTS
  x = x
  y = y
  z = z
  Name <- XYZ
  None = None
  Silent = Silent
INVARIANTS
  LookupIsChase
PROPERTIES
  LookupEnds
CHECK_DEADLOCK FALSE
