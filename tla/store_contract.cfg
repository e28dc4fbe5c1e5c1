\* No write fails: the store is a map.
CONSTANTS
  u1 = u1
  u2 = u2
  GET = GET
  HEAD = HEAD
  gzip = gzip
  br = br
  AnyVary = AnyVary
  NoTx = NoTx
  Templates <- MCTemplates
  Lookups <- MCLookups
  Dates = {1, 2}
  Expiries = {0, 2}
  MaxSets = 3
  MaxTime = 2
  SliceSize = 1
  EvictCount = 1
  Fills = TRUE
  WritesFail = FALSE
  RollbackFails = FALSE
  Crashes = FALSE
SPECIFICATION Spec
CHECK_DEADLOCK FALSE
PROPERTIES
  CloseDrains
  ImplementsMap
