\* Two requests for a name with up to two addresses, over a clock on which a record
\* is fresh, then due for a refresh, then expired.
CONSTANTS
  q1 = q1
  q2 = q2
  a1 = a1
  a2 = a2
  Requests = {q1, q2}
  Addresses = {a1, a2}
  Ttl = 1
  NegativeTtl = 1
  SweepInterval = 2
  MaxTime = 3
SPECIFICATION Spec
CHECK_DEADLOCK FALSE
PROPERTY BrokenIsDropped
