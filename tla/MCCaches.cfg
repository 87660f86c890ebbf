CONSTANTS
  c1 = c1
  c2 = c2
  Clients = {c1, c2}
  MaxFaults = 2
  DropLayers = {"memcache"}
  None = None
  MaxMoves = 1
SPECIFICATION MCSpec
INVARIANTS
  CacheNeverAhead
  PermanentIsRight
  ExactWhenStill
  RootsCut
PROPERTIES
  ImplementsContract
  PutReturns
  StaleDraftFades
