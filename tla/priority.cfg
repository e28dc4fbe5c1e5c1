\* Three requests of one origin and one of another; two of them may be aborted.
CONSTANTS
  q1 = q1
  q2 = q2
  q3 = q3
  q4 = q4
  o1 = o1
  o2 = o2
  Requests = {q1, q2, q3, q4}
  Origins = {o1, o2}
  OriginOf <- MCOriginOf
  Watched = {q2, q3}
  None = None
SPECIFICATION FairSpec
CHECK_DEADLOCK FALSE
INVARIANTS
  TypeOK
  SlotIsExact
  TableIsExact
  OneOutcome
PROPERTIES
  EveryRequestEnds
