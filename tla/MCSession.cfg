\* Two drivers on three ports, one after the other or racing for them.
SPECIFICATION FairSession
CONSTANTS
  Drivers = {d1, d2}
  Ports = {1, 2, 3}
  MaxTries = 2
INVARIANTS
  SessionTypeOK
  OwnGuest
  NoOrphan
PROPERTIES
  DriversEnd
