\* Two requests for two URLs, over a clock on which a response is fresh, stale within
\* its windows and stale.
CONSTANTS
  q1 = q1
  q2 = q2
  p1 = p1
  p2 = p2
  s1 = s1
  s2 = s2
  Requests = {q1, q2}
  Paths = {p1, p2}
  Worlds = {"depth", "breadth"}
  Asks <- MCAsks
  Answers <- MCAnswers
  MaxNow = 2
  MaxVersion = 2
  MaxStarts <- MCStarts
  MaxEntryTTL = 3
  RevalidationRetention = 2
  HeuristicLifetime = 1
  DefaultTTL <- NoTTL
  NoEntry = NoEntry
  NoRep = NoRep
  NoSel = NoSel
  NoPath = NoPath
  NoHead = NoHead
  Keep = Keep
SPECIFICATION Spec
SYMMETRY Symmetry
CHECK_DEADLOCK FALSE
INVARIANTS
  TypeOK
  Settled
  TagNamesBody
  InvalidatedIsGone
  ReuseIsTimely
  ReuseIsShareable
PROPERTIES
  KeepsContract
