CONSTANTS
  r1 = r1
  r2 = r2
  r3 = r3
  o1 = o1
  o2 = o2
  Requests = {r1, r2, r3}
  Origins = {o1, o2}
  MaxHops = 2
  Worlds = {"one", "many", "some", "full", "error"}
  Asks <- MCAsks
  Sampling <- MCSampling
  NoRecord = NoRecord
SPECIFICATION Spec
CHECK_DEADLOCK FALSE
INVARIANTS
  TypeOK
  RegistryIsExact
  GaugesAreExact
  SamplingIsPaired
  NothingIsLeft
PROPERTIES
  AbortReleases
