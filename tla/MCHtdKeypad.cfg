SPECIFICATION Spec
CONSTANTS
  MaxZones = 2
  MaxSources = 2
  MaxVol = 2
  Sessions = {s1, s2}
  StartPages <- GroupPages
  Misread <- MCMisread
  Cuts = {0, 2}
  MaxRequests = 2
  MaxEvents = 1
SYMMETRY Either
INVARIANTS
  TypeOK
  VolumeReached
  TableIsTrue
PROPERTIES
  ChoicesAreInformed
  SessionsAreApart
CHECK_DEADLOCK FALSE
