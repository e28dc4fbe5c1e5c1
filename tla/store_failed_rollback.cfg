\* A ROLLBACK may fail, and the next flush undoes what was done since.
CONSTANTS
  u1 = u1
  u2 = u2
  GET = GET
  HEAD = HEAD
  gzip = gzip
  br = br
  AnyVary = AnyVary
  NoTx = NoTx
  Templates <- MCTwoUrls
  Lookups <- MCLookups
  Dates = {1}
  Expiries = {2}
  MaxSets = 3
  MaxTime = 2
  SliceSize = 1
  EvictCount = 1
  Fills = TRUE
  WritesFail = TRUE
  RollbackFails = TRUE
  Crashes = FALSE
SPECIFICATION Spec
CHECK_DEADLOCK FALSE
INVARIANTS
  DeletedStaysDeleted
