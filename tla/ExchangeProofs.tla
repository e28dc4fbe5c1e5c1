---------------------------- MODULE ExchangeProofs ----------------------------
(***************************************************************************)
(* The registry, the gauges and the documents of Exchange are exact for    *)
(* every number of requests, origins and hops, and nothing is left of a    *)
(* request that has come to rest.  What is known of one registry and of    *)
(* one monitor (InFlightProofs, PressureProofs) is put together with what  *)
(* the layers of a request know of each other.                             *)
(***************************************************************************)
EXTENDS Exchange, FiniteSetTheorems, TLAPS

L == INSTANCE InFlightProofs WITH Handlers <- Requests
P == INSTANCE PressureProofs WITH
  PressureHandlers <- Attempts,
  Records <- 1..(Cardinality(Requests) + Cardinality(Origins))

-----------------------------------------------------------------------------
(* The instances of Exchange are those the theorems are about.             *)

LEMMA SameRegistry ==
  /\ Log!NotListed = L!NotListed /\ Log!Registry = L!Registry
  /\ Log!NobodyInFlight = L!NobodyInFlight
  /\ \A g, h : Log!Join(g, h) = L!Join(g, h) /\ Log!Leave(g, h) = L!Leave(g, h)
  /\ \A g : Log!IsExact(g) <=> L!IsExact(g)
<1>1. Log!NotListed = L!NotListed /\ Log!Registry = L!Registry
  BY DEF Log!NotListed, L!NotListed, Log!Registry, L!Registry
<1>2. Log!NobodyInFlight = L!NobodyInFlight
  BY DEF Log!NobodyInFlight, L!NobodyInFlight, Log!NotListed, L!NotListed
<1>3. \A g, h : Log!Join(g, h) = L!Join(g, h)
  BY DEF Log!Join, L!Join
<1>4. \A g, h : Log!Leave(g, h) = L!Leave(g, h)
  BY DEF Log!Leave, L!Leave, Log!NotListed, L!NotListed
<1>5. \A g : Log!IsExact(g) <=> L!IsExact(g)
  BY DEF Log!IsExact, L!IsExact, Log!NotListed, L!NotListed
<1> QED
  BY <1>1, <1>2, <1>3, <1>4, <1>5

LEMMA SameSizes ==
  ASSUME NEW S
  PROVE  /\ P!Cardinality(S) = Cardinality(S) /\ Pressure!Cardinality(S) = Cardinality(S)
         /\ P!IsFiniteSet(S) <=> IsFiniteSet(S)
<1>1. P!Cardinality(S) = Cardinality(S)
  BY Zenon DEF P!Cardinality, Cardinality
<1>2. Pressure!Cardinality(S) = Cardinality(S)
  BY Zenon DEF Pressure!Cardinality, Cardinality
<1>3. P!IsFiniteSet(S) <=> IsFiniteSet(S)
  BY Zenon DEF P!IsFiniteSet, IsFiniteSet
<1> QED
  BY <1>1, <1>2, <1>3

LEMMA SameRecords ==
  /\ Pressure!Levels = P!Levels /\ Pressure!Idle = P!Idle /\ Pressure!Low = P!Low
  /\ Pressure!Middle = P!Middle /\ Pressure!High = P!High
  /\ Pressure!NewRecord = P!NewRecord /\ Pressure!NewHandler = P!NewHandler
  /\ Pressure!NewMonitor = P!NewMonitor /\ Pressure!Monitor = P!Monitor
<1>1. Pressure!Levels = P!Levels
  BY DEF Pressure!Levels, P!Levels
<1>2. Pressure!Idle = P!Idle /\ Pressure!High = P!High /\ Pressure!Middle = P!Middle
  BY DEF Pressure!Idle, P!Idle, Pressure!High, P!High, Pressure!Middle, P!Middle
<1>3. Pressure!Low = P!Low
  BY DEF Pressure!Low, P!Low
<1>4. Pressure!NewRecord = P!NewRecord
  BY <1>1, <1>2, Zenon DEF Pressure!NewRecord, P!NewRecord
<1>5. Pressure!NewHandler = P!NewHandler
  BY DEF Pressure!NewHandler, P!NewHandler
<1>6. Pressure!NewMonitor = P!NewMonitor
  BY <1>1, <1>4, <1>5, Zenon DEF Pressure!NewMonitor, P!NewMonitor
<1>7. Pressure!Record = P!Record
  BY <1>1, <1>2, Zenon DEF Pressure!Record, P!Record
<1>8. Pressure!Handler = P!Handler
  BY Zenon DEF Pressure!Handler, P!Handler
<1>9. Pressure!Monitor = P!Monitor
  BY <1>1, <1>7, <1>8, Zenon DEF Pressure!Monitor, P!Monitor
<1> QED
  BY <1>1, <1>2, <1>3, <1>4, <1>5, <1>6, <1>9

LEMMA SameMonitor ==
  ASSUME NEW m
  PROVE  /\ Pressure!InUse(m) = P!InUse(m) /\ Pressure!InTable(m) = P!InTable(m)
         /\ Pressure!Live(m) = P!Live(m)
         /\ Pressure!Collect(m) = P!Collect(m) /\ Pressure!Close(m) = P!Close(m)
         /\ \A h, o : Pressure!Enter(m, h, o) = P!Enter(m, h, o)
         /\ \A h : Pressure!Connected(m, h) = P!Connected(m, h)
         /\ \A h, status : Pressure!Headers(m, h, status) = P!Headers(m, h, status)
         /\ \A h : Pressure!ClientAborts(m, h) = P!ClientAborts(m, h)
         /\ \A h, e : Pressure!Settle(m, h, e) = P!Settle(m, h, e)
         /\ \A writer, levels : Pressure!Ticks(m, writer, levels) = P!Ticks(m, writer, levels)
         /\ Pressure!CountsItsHandlers(m) <=> P!CountsItsHandlers(m)
         /\ Pressure!SamplesWhatItHas(m) <=> P!SamplesWhatItHas(m)
<1>1. Pressure!Live(m) = P!Live(m) /\ Pressure!InTable(m) = P!InTable(m)
  BY Zenon DEF Pressure!Live, P!Live, Pressure!InTable, P!InTable
<1>2. Pressure!InUse(m) = P!InUse(m)
  BY <1>1, Zenon DEF Pressure!InUse, P!InUse
<1>3. Pressure!Collect(m) = P!Collect(m)
  BY <1>2, SameRecords, Zenon DEF Pressure!Collect, P!Collect
<1>4. \A o : Pressure!Episode(m, o) = P!Episode(m, o)
  BY SameRecords, Zenon DEF Pressure!Episode, P!Episode, Pressure!NoEpisode, P!NoEpisode
<1>5. Pressure!Close(m) = P!Close(m)
  BY <1>1, <1>4, SameRecords, Zenon
     DEF Pressure!Close, P!Close, Pressure!One, P!One, Pressure!NoEpisode, P!NoEpisode,
         Pressure!Episode, P!Episode
<1>6. \A o : Pressure!Track(m, o) = P!Track(m, o)
  <2>1. Pressure!FreePlace(m) = P!FreePlace(m)
    BY DEF Pressure!FreePlace, P!FreePlace, Pressure!InUse, P!InUse, Pressure!Live, P!Live,
           Pressure!InTable, P!InTable
  <2> QED
    BY <2>1, SameRecords, Zenon DEF Pressure!Track, P!Track
<1>7. \A h, o : Pressure!Enter(m, h, o) = P!Enter(m, h, o)
  BY <1>6, SameRecords, Zenon DEF Pressure!Enter, P!Enter
<1>8. \A h : Pressure!Connected(m, h) = P!Connected(m, h)
  BY Zenon DEF Pressure!Connected, P!Connected
<1>9. \A h, status : Pressure!Headers(m, h, status) = P!Headers(m, h, status)
  BY Zenon DEF Pressure!Headers, P!Headers
<1>10. \A h : Pressure!ClientAborts(m, h) = P!ClientAborts(m, h)
  BY Zenon DEF Pressure!ClientAborts, P!ClientAborts
<1>11. \A h, e : Pressure!Settle(m, h, e) = P!Settle(m, h, e)
  BY Zenon DEF Pressure!Settle, P!Settle, Pressure!Settled, P!Settled,
               Pressure!Ungauged, P!Ungauged
<1>12. Pressure!CountsItsHandlers(m) <=> P!CountsItsHandlers(m)
  <2> DEFINE Counted(i) ==
               /\ m.recs[i].pending = Cardinality(P!Holding(m, i, "pending"))
               /\ m.recs[i].running = Cardinality(P!Holding(m, i, "running"))
               /\ i \in P!InTable(m) <=> ~m.recs[i].dropped
  <2>1. \A i, state : Pressure!Holding(m, i, state) = P!Holding(m, i, state)
    BY Zenon DEF Pressure!Holding, P!Holding
  <2>2. Pressure!CountsItsHandlers(m) <=> \A i \in P!InUse(m) : Counted(i)
    BY <1>1, <1>2, <2>1, SameSizes DEF Pressure!CountsItsHandlers
  <2>3. P!CountsItsHandlers(m) <=> \A i \in P!InUse(m) : Counted(i)
    BY SameSizes DEF P!CountsItsHandlers
  <2> HIDE DEF Counted
  <2> QED
    BY <2>2, <2>3
<1>13. Pressure!SamplesWhatItHas(m) <=> P!SamplesWhatItHas(m)
  BY <1>1, SameRecords, Zenon DEF Pressure!SamplesWhatItHas, P!SamplesWhatItHas,
                                  Pressure!One, P!One
<1>14. \A writer, levels : Pressure!Ticks(m, writer, levels) = P!Ticks(m, writer, levels)
  <2>1. \A rec, levels : Pressure!Signals(rec, levels) = P!Signals(rec, levels)
    BY Zenon DEF Pressure!Signals, P!Signals, Pressure!Toward, P!Toward, Pressure!Levels,
       P!Levels, Pressure!Idle, P!Idle, Pressure!High, P!High
  <2>2. \A rec, s, writer : Pressure!Sampled(rec, s, writer) = P!Sampled(rec, s, writer)
    BY Zenon DEF Pressure!Sampled, P!Sampled, Pressure!Latch, P!Latch, Pressure!Levels,
       P!Levels, Pressure!Middle, P!Middle, Pressure!High, P!High
  <2>3. \A o, writer, levels :
          Pressure!Samples(m, o, writer, levels) = P!Samples(m, o, writer, levels)
    BY <2>1, <2>2, SameRecords, Zenon DEF Pressure!Samples, P!Samples
  <2>4. \A f : Pressure!Ticked(m, f) = P!Ticked(m, f)
    <3> SUFFICES ASSUME NEW f PROVE Pressure!Ticked(m, f) = P!Ticked(m, f)
      OBVIOUS
    <3> QED
      BY Zenon DEF Pressure!Ticked, P!Ticked, Pressure!InTable, P!InTable, Pressure!One,
         P!One, Pressure!Episode, P!Episode, Pressure!NoEpisode, P!NoEpisode,
         Pressure!IsIdle, P!IsIdle, Pressure!Levels, P!Levels, Pressure!Idle, P!Idle
  <2>5. \A n : Pressure!StopTimer(n) = P!StopTimer(n)
    BY Zenon DEF Pressure!StopTimer, P!StopTimer, Pressure!InTable, P!InTable
  <2> QED
    BY <2>3, <2>4, <2>5 DEF Pressure!Ticks, P!Ticks
<1> QED
  BY <1>1, <1>2, <1>3, <1>5, <1>7, <1>8, <1>9, <1>10, <1>11, <1>12, <1>13, <1>14

-----------------------------------------------------------------------------
(* The monitor, as the requests use it.                                    *)

LEMMA Places ==
  /\ P!Countable /\ IsFiniteSet(Attempts) /\ Hops \subseteq Nat /\ MaxHops \in Nat \ {0}
  /\ IsFiniteSet(Requests) /\ IsFiniteSet(Origins)
<1>1. /\ IsFiniteSet(Requests) /\ IsFiniteSet(Origins) /\ MaxHops \in Nat \ {0}
      /\ NoRecord \notin 1..(Cardinality(Requests) + Cardinality(Origins))
  BY ExchangeAssumption
<1>2. IsFiniteSet(Hops) /\ Hops \subseteq Nat
  BY <1>1, FS_Interval DEF Hops
<1>3. IsFiniteSet(Attempts)
  BY <1>1, <1>2, FS_Product DEF Attempts
<1>4. P!Countable
  BY <1>1, <1>3, SameSizes DEF P!Countable
<1> QED
  BY <1>1, <1>2, <1>3, <1>4

LEMMA MonitorStarts ==
  /\ P!Sound(Pressure!NewMonitor)
  /\ \A h \in Attempts : P!StateOf(Pressure!NewMonitor)[h] = "none"
BY Places, SameRecords, P!NewMonitorSound

Gone(states, h) ==
  [states EXCEPT ![h] = IF @ \in {"pending", "running"} THEN "done" ELSE @]

LEMMA Elsewhere ==
  ASSUME NEW m, NEW h, NEW g \in Attempts
  PROVE  /\ g # h => Gone(P!StateOf(m), h)[g] = P!StateOf(m)[g]
         /\ Gone(P!StateOf(m), g)[g] =
              IF P!StateOf(m)[g] \in {"pending", "running"} THEN "done" ELSE P!StateOf(m)[g]
BY DEF Gone, P!StateOf

LEMMA MonitorIsTold ==
  ASSUME NEW m, P!Sound(m)
  PROVE  /\ \A h : /\ P!Sound(Pressure!ClientAborts(m, h))
                   /\ P!StateOf(Pressure!ClientAborts(m, h)) = P!StateOf(m)
         /\ \A h \in Attempts, status \in {"final", "redirect", "overload"} :
              /\ P!Sound(Pressure!Headers(m, h, status))
              /\ P!StateOf(Pressure!Headers(m, h, status)) = P!StateOf(m)
         /\ \A h \in Attempts, e \in BOOLEAN :
              /\ P!Sound(Pressure!Settle(m, h, e))
              /\ P!StateOf(Pressure!Settle(m, h, e)) = Gone(P!StateOf(m), h)
         /\ \A h \in P!Live(m) :
              /\ P!Sound(Pressure!Connected(m, h))
              /\ P!StateOf(Pressure!Connected(m, h)) = [P!StateOf(m) EXCEPT ![h] = "running"]
<1>1. \A h : /\ P!Sound(Pressure!ClientAborts(m, h))
             /\ P!StateOf(Pressure!ClientAborts(m, h)) = P!StateOf(m)
  BY SameMonitor, P!ClientAbortsSound
<1>2. \A h \in Attempts, status \in {"final", "redirect", "overload"} :
        /\ P!Sound(Pressure!Headers(m, h, status))
        /\ P!StateOf(Pressure!Headers(m, h, status)) = P!StateOf(m)
  <2> TAKE h \in Attempts, status \in {"final", "redirect", "overload"}
  <2>1. Pressure!Headers(m, h, status) = P!Headers(m, h, status)
    BY SameMonitor
  <2>2. /\ P!Sound(P!Headers(m, h, status))
        /\ P!StateOf(P!Headers(m, h, status)) = P!StateOf(m)
    BY P!HeadersSound
  <2> QED
    BY <2>1, <2>2
<1>3. \A h \in Attempts, e \in BOOLEAN :
        /\ P!Sound(Pressure!Settle(m, h, e))
        /\ P!StateOf(Pressure!Settle(m, h, e)) = Gone(P!StateOf(m), h)
  <2> TAKE h \in Attempts, e \in BOOLEAN
  <2>1. Pressure!Settle(m, h, e) = P!Settle(m, h, e)
    BY SameMonitor
  <2>2. /\ P!Sound(P!Settle(m, h, e))
        /\ P!StateOf(P!Settle(m, h, e)) = Gone(P!StateOf(m), h)
    BY Places, P!SettleSound DEF Gone
  <2> QED
    BY <2>1, <2>2
<1>4. \A h \in P!Live(m) :
        /\ P!Sound(Pressure!Connected(m, h))
        /\ P!StateOf(Pressure!Connected(m, h)) = [P!StateOf(m) EXCEPT ![h] = "running"]
  BY Places, SameMonitor, P!ConnectedSound
<1> QED
  BY <1>1, <1>2, <1>3, <1>4

LEMMA MonitorRuns ==
  ASSUME NEW m, P!Sound(m)
  PROVE  /\ P!Sound(Pressure!Collect(m)) /\ P!StateOf(Pressure!Collect(m)) = P!StateOf(m)
         /\ P!Sound(Pressure!Close(m)) /\ P!StateOf(Pressure!Close(m)) = P!StateOf(m)
         /\ \A writer \in BOOLEAN, levels \in SUBSET Pressure!Levels :
              \A n \in Pressure!Ticks(m, writer, levels) :
                P!Sound(n) /\ P!StateOf(n) = P!StateOf(m)
<1>1. P!Sound(Pressure!Collect(m)) /\ P!StateOf(Pressure!Collect(m)) = P!StateOf(m)
  BY Places, SameMonitor, P!CollectSound
<1>2. P!Sound(Pressure!Close(m)) /\ P!StateOf(Pressure!Close(m)) = P!StateOf(m)
  BY Places, SameMonitor, P!CloseSound
<1>3. \A writer \in BOOLEAN, levels \in SUBSET Pressure!Levels :
        \A n \in Pressure!Ticks(m, writer, levels) :
          P!Sound(n) /\ P!StateOf(n) = P!StateOf(m)
  <2> TAKE writer \in BOOLEAN, levels \in SUBSET Pressure!Levels
  <2> TAKE n \in Pressure!Ticks(m, writer, levels)
  <2>1. n \in P!Ticks(m, writer, levels) /\ levels \in SUBSET P!Levels
    BY SameMonitor, SameRecords
  <2> QED
    BY <2>1, Places, P!TicksSound
<1> QED
  BY <1>1, <1>2, <1>3

(* A request has one attempt under way at most, and so there is a place    *)
(* for the record of another one.                                          *)
OneEach(m) ==
  \A r \in Requests : \A j, k \in Hops :
    <<r, j>> \in P!Live(m) /\ <<r, k>> \in P!Live(m) => j = k

LEMMA Enters ==
  ASSUME NEW m, P!Sound(m), OneEach(m), NEW h \in Attempts, h \notin P!Live(m),
         NEW o \in Origins
  PROVE  /\ P!Sound(Pressure!Enter(m, h, o))
         /\ P!StateOf(Pressure!Enter(m, h, o)) = [P!StateOf(m) EXCEPT ![h] = "pending"]
<1> DEFINE N == Cardinality(Requests) + Cardinality(Origins)
           d == [g \in P!Live(m) |-> g[1]]
<1>1. /\ Cardinality(Requests) \in Nat /\ Cardinality(Origins) \in Nat
      /\ IsFiniteSet(1..N) /\ Cardinality(1..N) = N
  <2>1. Cardinality(Requests) \in Nat /\ Cardinality(Origins) \in Nat
    BY Places, FS_CardinalityType
  <2>2. N \in Int /\ (N > 0 \/ N = 0)
    BY <2>1
  <2> QED
    BY <2>1, <2>2, FS_Interval
<1>2. d \in P!Injection(P!Live(m), Requests)
  <2>1. \A g \in P!Live(m) : g \in Attempts
    BY DEF P!Live
  <2>2. \A g \in P!Live(m) : g[1] \in Requests /\ g[2] \in Hops /\ g = <<g[1], g[2]>>
    BY <2>1 DEF Attempts
  <2>3. \A f, g \in P!Live(m) : d[f] = d[g] => f = g
    BY <2>2 DEF OneEach
  <2>4. d \in [P!Live(m) -> Requests]
    BY <2>2
  <2> QED
    BY <2>3, <2>4 DEF P!Injection, P!IsInjective
<1>3. m.table[o] # NoRecord \/ (1..N) \ P!InUse(m) # {}
  <2> SUFFICES ASSUME m.table[o] = NoRecord PROVE (1..N) \ P!InUse(m) # {}
    OBVIOUS
  <2>1. /\ P!IsFiniteSet(Origins) /\ P!IsFiniteSet(1..N) /\ P!IsFiniteSet(Requests)
        /\ P!Cardinality(Origins) + P!Cardinality(Requests) <= P!Cardinality(1..N)
    BY <1>1, Places, SameSizes
  <2> QED
    BY <1>2, <2>1, Places, P!PlaceIsFree
<1>4. h \in Attempts \ P!Live(m)
  OBVIOUS
<1>5. /\ P!Sound(P!Enter(m, h, o))
      /\ P!StateOf(P!Enter(m, h, o)) = [P!StateOf(m) EXCEPT ![h] = "pending"]
  BY <1>3, <1>4, Places, P!EnterSound
<1> QED
  BY <1>5, SameMonitor

-----------------------------------------------------------------------------
(* The registry, as the requests use it.                                   *)

On(g, r) == g.index[r] # Log!NotListed

LEMMA Joins ==
  ASSUME NEW g \in Log!Registry, Log!IsExact(g), NEW r \in Requests, ~On(g, r)
  PROVE  /\ Log!Join(g, r) \in Log!Registry /\ Log!IsExact(Log!Join(g, r))
         /\ \A q \in Requests : On(Log!Join(g, r), q) <=> q = r \/ On(g, q)
         /\ Log!Join(g, r).ends = g.ends
<1>1. g \in L!Registry /\ L!IsExact(g) /\ g.index[r] = L!NotListed
  BY SameRegistry DEF On
<1>2. /\ L!Join(g, r) \in L!Registry /\ L!IsExact(L!Join(g, r))
      /\ \A q \in Requests : L!Join(g, r).index[q] # L!NotListed <=>
                               q = r \/ g.index[q] # L!NotListed
  BY <1>1, L!JoinIsExact
<1>3. Log!Join(g, r) = L!Join(g, r)
  BY SameRegistry
<1>4. L!Join(g, r).ends = g.ends
  BY <1>1 DEF L!Join, L!Registry
<1> QED
  BY <1>2, <1>3, <1>4, SameRegistry DEF On

LEMMA Leaves ==
  ASSUME NEW g \in Log!Registry, Log!IsExact(g), NEW r \in Requests
  PROVE  /\ Log!Leave(g, r) \in Log!Registry /\ Log!IsExact(Log!Leave(g, r))
         /\ \A q \in Requests : On(Log!Leave(g, r), q) <=> q # r /\ On(g, q)
         /\ \A q \in Requests : Log!Leave(g, r).ends[q] =
                                  g.ends[q] + (IF q = r /\ On(g, r) THEN 1 ELSE 0)
<1>1. g \in L!Registry /\ L!IsExact(g)
  BY SameRegistry
<1>2. /\ L!Leave(g, r) \in L!Registry /\ L!IsExact(L!Leave(g, r))
      /\ \A q \in Requests : L!Leave(g, r).index[q] # L!NotListed <=>
                               q # r /\ g.index[q] # L!NotListed
      /\ \A q \in Requests : L!Leave(g, r).ends[q] =
           g.ends[q] + (IF q = r /\ g.index[r] # L!NotListed THEN 1 ELSE 0)
  BY <1>1, L!LeaveIsExact
<1>3. Log!Leave(g, r) = L!Leave(g, r)
  BY SameRegistry
<1> QED
  BY <1>2, <1>3, SameRegistry DEF On

-----------------------------------------------------------------------------
(* What is known of a request.                                             *)

Fields == DOMAIN NewRequest

Typed(s) ==
  /\ DOMAIN s = Fields
  /\ s.promise \in {"none", "waiting", "resolved", "rejecting", "rejected"}
  /\ s.res \in {"none", "open", "ended", "closing", "closed"}
  /\ s.signal \in {"none", "live", "aborted"}
  /\ s.lookup \in {"none", "under way", "resolved", "rejected", "done"}
  /\ s.wire \in {"none", "queued", "connected", "headers", "upgraded", "closed"}
  /\ s.body \in {"none", "live", "disturbed", "destroyed"}
  /\ s.hop \in 0..MaxHops /\ s.target \in 0..s.hop /\ s.count \in Nat
  /\ s.started \in BOOLEAN /\ s.told \in BOOLEAN /\ s.cut \in BOOLEAN
  /\ s.hopTold \in BOOLEAN /\ s.location \in BOOLEAN

(* What the layers know of each other: redirect has hops left when it      *)
(* holds a response back, pressure was told of an end when those above     *)
(* were, and a transport that has headers and an end was cut.              *)
Begun(s) ==
  /\ s.hop = 0 <=> s.wire = "none"
  /\ s.hop = 0 => ~s.location
  /\ s.started => s.ask \in Ask
  /\ ~s.started => s.hop = 0 /\ ~s.told /\ s.lookup = "none"
  /\ s.lookup \in {"under way", "resolved", "rejected"} => s.hop = 0 /\ ~s.told

OnWire(s) ==
  /\ s.told /\ s.hop > 0 => s.hopTold
  /\ s.wire \in {"queued", "connected"} => ~s.hopTold /\ ~s.location /\ s.hop <= s.count + 1
  /\ s.wire = "headers" => (s.hopTold => s.cut)
  /\ s.wire = "headers" /\ s.location => s.cut \/ (s.hop < MaxHops /\ s.hop <= s.count)
  /\ s.wire = "upgraded" => s.told

Layered(s) == Begun(s) /\ OnWire(s)

(* Its entry in the registry, and the states of its attempts in the        *)
(* monitor.                                                                *)
Entry(g, r, s) ==
  /\ On(g, r) <=> s.hop > 0 /\ (~s.told \/ s.wire = "upgraded")
  /\ On(g, r) => g.ends[r] = 0
  /\ s.hop = 0 /\ ~s.told => g.ends[r] = 0
  /\ g.ends[r] <= 1
  /\ s.told /\ ~On(g, r) /\ s.hop > 0 => g.ends[r] = 1

Gauge(states, r, s) ==
  \A k \in Hops :
    LET now == k = s.hop /\ ~s.hopTold
    IN /\ states[<<r, k>>] = "pending" <=> now /\ s.wire = "queued"
       /\ states[<<r, k>>] = "running" <=> now /\ s.wire \in {"connected", "headers"}

LookingUp(s) == s.lookup \notin {"none", "done"}

-----------------------------------------------------------------------------
(* The layers that only tell each other things: they leave alone what      *)
(* Layered, Entry and Gauge speak of, except that they may cut a transport.*)

Shape(w) ==
  /\ DOMAIN w = {"r", "s", "reg", "mon", "lookups"}
  /\ w.r \in Requests /\ Typed(w.s) /\ P!Sound(w.mon)

Soft ==
  {"promise", "res", "signal", "listening", "aborted", "chain", "body", "target",
   "cancelled", "hidden", "cut", "stream", "again", "sends"}

SameBut(t, s, F) == DOMAIN t = DOMAIN s /\ \A f \in DOMAIN s : f \notin F => t[f] = s[f]

Mild(v, w) ==
  /\ Shape(v) /\ v.r = w.r /\ v.reg = w.reg /\ v.lookups = w.lookups
  /\ P!StateOf(v.mon) = P!StateOf(w.mon)
  /\ SameBut(v.s, w.s, Soft) /\ (w.s.cut => v.s.cut)

LEMMA FieldNames ==
  Fields = {"ask", "started", "promise", "res", "signal", "listening", "aborted", "chain",
            "body", "lookup", "target", "cancelled", "told", "hidden", "location", "count",
            "sends", "hop", "wire", "cut", "hopTold", "again", "stream"}
BY DEF Fields, NewRequest

LEMMA Hard ==
  ASSUME NEW s, NEW t, DOMAIN s = Fields, SameBut(t, s, Soft)
  PROVE  /\ t.hop = s.hop /\ t.wire = s.wire /\ t.started = s.started /\ t.told = s.told
         /\ t.lookup = s.lookup /\ t.ask = s.ask /\ t.hopTold = s.hopTold
         /\ t.location = s.location /\ t.count = s.count
BY FieldNames DEF SameBut, Soft

LEMMA Retyped ==
  ASSUME NEW s, Typed(s), NEW t, SameBut(t, s, Soft),
         t.promise \in {"none", "waiting", "resolved", "rejecting", "rejected"},
         t.res \in {"none", "open", "ended", "closing", "closed"},
         t.signal \in {"none", "live", "aborted"},
         t.body \in {"none", "live", "disturbed", "destroyed"},
         t.cut \in BOOLEAN, t.target \in 0..s.hop
  PROVE  Typed(t)
<1>1. DOMAIN t = Fields /\ DOMAIN s = Fields
  BY DEF Typed, SameBut
<1>2. /\ t.hop = s.hop /\ t.wire = s.wire /\ t.started = s.started /\ t.told = s.told
      /\ t.lookup = s.lookup /\ t.hopTold = s.hopTold
      /\ t.location = s.location /\ t.count = s.count
  BY <1>1, Hard
<1> QED
  BY <1>1, <1>2 DEF Typed

LEMMA MildReflexive == ASSUME NEW w, Shape(w) PROVE Mild(w, w)
BY DEF Mild, SameBut

LEMMA MildTransitive ==
  ASSUME NEW u, NEW v, NEW w, Mild(v, w), Mild(u, v)
  PROVE  Mild(u, w)
BY DEF Mild, SameBut

LEMMA Softly ==
  ASSUME NEW w, Shape(w), NEW t, Typed(t), SameBut(t, w.s, Soft), w.s.cut => t.cut
  PROVE  Mild([w EXCEPT !.s = t], w)
BY DEF Mild, Shape

LEMMA Cuts ==
  ASSUME NEW w, Shape(w)
  PROVE  /\ Mild([w EXCEPT !.s.cut = TRUE], w)
         /\ Mild(HopAbort(w), w)
<1> DEFINE t == [w.s EXCEPT !.cut = TRUE]
           n == Pressure!ClientAborts(w.mon, Attempt(w))
<1>1. DOMAIN w.s = Fields /\ "cut" \in DOMAIN w.s
  BY FieldNames DEF Shape, Typed
<1>2. SameBut(t, w.s, Soft) /\ t.cut
  BY <1>1 DEF SameBut, Soft
<1>3. Typed(t)
  BY <1>1, FieldNames DEF Shape, Typed
<1>4. P!Sound(n) /\ P!StateOf(n) = P!StateOf(w.mon)
  BY MonitorIsTold DEF Shape
<1> HIDE DEF t, n
<1>5. Mild([w EXCEPT !.s = t], w)
  BY <1>2, <1>3, Softly
<1>6. Mild([w EXCEPT !.s = t, !.mon = n], w)
  BY <1>2, <1>3, <1>4 DEF Mild, Shape
<1>7. Mild(w, w)
  BY MildReflexive
<1>8. [w EXCEPT !.s.cut = TRUE] = [w EXCEPT !.s = t]
  BY DEF t
<1>9. HopAbort(w) = IF w.s.hopTold THEN w ELSE [w EXCEPT !.s = t, !.mon = n]
  BY DEF HopAbort, Shape, t, n
<1> QED
  BY <1>5, <1>6, <1>7, <1>8, <1>9

LEMMA CallAborts ==
  ASSUME NEW w, Shape(w)
  PROVE  Mild(CallAbort(w), w)
<1> DEFINE t == [w.s EXCEPT !.cancelled = TRUE]
           marked == [w EXCEPT !.s = t]
<1>1. DOMAIN w.s = Fields
  BY DEF Shape, Typed
<1>2. SameBut(t, w.s, Soft) /\ t.cut = w.s.cut
  BY <1>1, FieldNames DEF SameBut, Soft
<1>3. Typed(t)
  BY <1>1, FieldNames DEF Shape, Typed
<1>4. CallAbort(w) \in {w, marked, HopAbort(marked)}
  BY DEF CallAbort
<1> HIDE DEF t
<1>5. Mild(marked, w)
  BY <1>2, <1>3, Softly
<1> HIDE DEF marked
<1>6. Mild(HopAbort(marked), w)
  BY <1>5, Cuts, MildTransitive DEF Mild
<1>7. Mild(w, w)
  BY MildReflexive
<1> QED
  BY <1>4, <1>5, <1>6, <1>7

LEMMA Connections ==
  ASSUME NEW w, Shape(w)
  PROVE  /\ Mild(RequestConnect(w), w)
         /\ w.s.hop \in Hops => Mild(RedirectConnect(w), w)
<1>1. DOMAIN w.s = Fields
  BY DEF Shape, Typed
<1>2. Mild(RequestConnect(w), w)
  <2> DEFINE t == [w.s EXCEPT !.chain = TRUE]
             installed == [w EXCEPT !.s = t]
  <2>1. SameBut(t, w.s, Soft) /\ t.cut = w.s.cut
    BY <1>1, FieldNames DEF SameBut, Soft
  <2>2. Typed(t)
    BY <1>1, FieldNames DEF Shape, Typed
  <2>3. RequestConnect(w) \in {installed, CallAbort(installed)}
    BY DEF RequestConnect
  <2> HIDE DEF t
  <2>4. Mild(installed, w)
    BY <2>1, <2>2, Softly
  <2> HIDE DEF installed
  <2> QED
    BY <2>3, <2>4, CallAborts, MildTransitive DEF Mild
<1>3. ASSUME w.s.hop \in Hops PROVE Mild(RedirectConnect(w), w)
  <2> DEFINE t == [w.s EXCEPT !.target = w.s.hop]
  <2>1. SameBut(t, w.s, Soft) /\ t.cut = w.s.cut
    BY <1>1, FieldNames DEF SameBut, Soft
  <2>2. Typed(t)
    <3>1. t.target = w.s.hop /\ t.target \in 0..w.s.hop
      BY <1>1, <1>3, FieldNames, Places DEF Hops
    <3>2. /\ t.promise = w.s.promise /\ t.res = w.s.res /\ t.signal = w.s.signal
          /\ t.body = w.s.body /\ t.cut = w.s.cut
      BY <1>1, FieldNames
    <3> HIDE DEF t
    <3> QED
      BY <2>1, <3>1, <3>2, Retyped DEF Shape, Typed
  <2>3. RedirectConnect(w) \in {[w EXCEPT !.s = t], HopAbort(w)}
    BY DEF RedirectConnect
  <2> HIDE DEF t
  <2>4. Mild([w EXCEPT !.s = t], w)
    BY <2>1, <2>2, Softly
  <2> QED
    BY <2>3, <2>4, Cuts
<1> QED
  BY <1>2, <1>3

(* What reaches the promise.                                               *)
LEMMA Promised ==
  ASSUME NEW w, Shape(w)
  PROVE  Mild(RequestError(w), w) /\ Mild(RequestHeaders(w), w) /\ Mild(RequestComplete(w), w)
<1>1. DOMAIN w.s = Fields
  BY DEF Shape, Typed
<1>2. Mild(RequestError(w), w)
  <2> DEFINE u == Unlisten(w.s)
             t == [u EXCEPT !.promise = IF w.s.promise = "waiting" THEN "rejecting" ELSE w.s.promise,
                            !.res = IF w.s.res \in {"open", "ended"} THEN "closing" ELSE w.s.res,
                            !.body = IF w.s.body = "none" THEN w.s.body ELSE "destroyed"]
  <2>1. /\ SameBut(u, w.s, Soft) /\ u.cut = w.s.cut /\ Typed(u)
        /\ u.promise = w.s.promise /\ u.res = w.s.res /\ u.body = w.s.body
    <3>1. CASE w.s.res = "none"
      <4>1. u = [w.s EXCEPT !.listening = FALSE]
        BY <3>1 DEF Unlisten
      <4> HIDE DEF u
      <4>2. SameBut(u, w.s, Soft) /\ u.cut = w.s.cut
        BY <1>1, <4>1, FieldNames DEF SameBut, Soft
      <4> QED
        BY <1>1, <4>1, <4>2, FieldNames DEF Shape, Typed
    <3>2. CASE w.s.res # "none"
      <4>1. u = w.s
        BY <3>2 DEF Unlisten
      <4> QED
        BY <4>1 DEF SameBut, Shape
    <3> QED
      BY <3>1, <3>2
  <2>2. RequestError(w) = [w EXCEPT !.s = t]
    BY <1>1, <2>1, FieldNames DEF RequestError, Typed
  <2> HIDE DEF u
  <2>3. DOMAIN u = Fields
    BY <2>1 DEF Typed
  <2>4. SameBut(t, u, Soft) /\ t.cut = u.cut
    BY <2>3, FieldNames DEF SameBut, Soft
  <2>5. Typed(t)
    <3>1. t.promise = IF w.s.promise = "waiting" THEN "rejecting" ELSE w.s.promise
      BY <2>3, FieldNames
    <3>2. t.res = IF w.s.res \in {"open", "ended"} THEN "closing" ELSE w.s.res
      BY <2>3, FieldNames
    <3>3. t.body = IF w.s.body = "none" THEN w.s.body ELSE "destroyed"
      BY <2>3, FieldNames
    <3>4. t.signal = u.signal /\ t.cut = u.cut /\ t.target = u.target
      BY <2>3, FieldNames
    <3> HIDE DEF t
    <3>5. /\ t.promise \in {"none", "waiting", "resolved", "rejecting", "rejected"}
          /\ t.res \in {"none", "open", "ended", "closing", "closed"}
          /\ t.body \in {"none", "live", "disturbed", "destroyed"}
      BY <3>1, <3>2, <3>3 DEF Shape, Typed
    <3>6. t.signal \in {"none", "live", "aborted"} /\ t.cut \in BOOLEAN /\ t.target \in 0..u.hop
      BY <2>1, <3>4 DEF Typed
    <3> QED
      BY <2>1, <2>4, <3>5, <3>6, Retyped
  <2> HIDE DEF t
  <2>6. SameBut(t, w.s, Soft) /\ t.cut = w.s.cut
    BY <2>1, <2>4 DEF SameBut
  <2> QED
    BY <2>2, <2>5, <2>6, Softly
<1>3. Mild(RequestHeaders(w), w)
  <2> DEFINE t == [w.s EXCEPT !.promise = IF @ = "waiting" THEN "resolved" ELSE @, !.res = "open"]
  <2>1. SameBut(t, w.s, Soft) /\ t.cut = w.s.cut
    BY <1>1, FieldNames DEF SameBut, Soft
  <2>2. Typed(t)
    BY <1>1, FieldNames DEF Shape, Typed
  <2>3. RequestHeaders(w) \in {w, [w EXCEPT !.s = t]}
    BY DEF RequestHeaders, Shape
  <2> HIDE DEF t
  <2>4. Mild([w EXCEPT !.s = t], w)
    BY <2>1, <2>2, Softly
  <2> QED
    BY <2>3, <2>4, MildReflexive
<1>4. Mild(RequestComplete(w), w)
  <2> DEFINE t == [w.s EXCEPT !.res = IF @ = "open" THEN "ended" ELSE @]
  <2>1. SameBut(t, w.s, Soft) /\ t.cut = w.s.cut
    BY <1>1, FieldNames DEF SameBut, Soft
  <2>2. Typed(t)
    BY <1>1, FieldNames DEF Shape, Typed
  <2>3. RequestComplete(w) = [w EXCEPT !.s = t]
    BY DEF RequestComplete
  <2> HIDE DEF t
  <2> QED
    BY <2>1, <2>2, <2>3, Softly
<1> QED
  BY <1>2, <1>3, <1>4

(* What the caller does with its body, or its signal does.                 *)
Closed(w) == [w EXCEPT !.s.res = "closed", !.s.listening = FALSE]

LEMMA Closes ==
  ASSUME NEW w, Shape(w)
  PROVE  Mild(Closed(w), w)
<1> DEFINE s == w.s
           t == [s EXCEPT !.res = "closed", !.listening = FALSE]
<1>1. DOMAIN s = Fields /\ Typed(s)
  BY DEF Shape, Typed
<1>2. SameBut(t, s, Soft) /\ t.cut = s.cut
  BY <1>1, FieldNames DEF SameBut, Soft
<1>3. /\ t.promise = s.promise /\ t.res = "closed" /\ t.signal = s.signal
      /\ t.body = s.body /\ t.target = s.target
  BY <1>1, FieldNames
<1>4. Closed(w) = [w EXCEPT !.s = t]
  BY DEF Closed, Shape
<1> HIDE DEF t
<1>5. Typed(t)
  BY <1>1, <1>2, <1>3, Retyped DEF Typed
<1> QED
  BY <1>2, <1>4, <1>5, Softly

LEMMA AbortIsHeard ==
  ASSUME NEW w, Shape(w)
  PROVE  Mild(OnAbort(w), w)
<1> DEFINE t == [w.s EXCEPT !.aborted = TRUE]
           marked == [w EXCEPT !.s = t]
           called == CallAbort(marked)
<1>1. DOMAIN w.s = Fields
  BY DEF Shape, Typed
<1>2. SameBut(t, w.s, Soft) /\ t.cut = w.s.cut
  BY <1>1, FieldNames DEF SameBut, Soft
<1>3. Typed(t)
  BY <1>1, FieldNames DEF Shape, Typed
<1>4. OnAbort(w) \in {CallAbort(Closed(marked)), called, RequestError(called)}
  <2>1. [w EXCEPT !.s.aborted = TRUE] = marked
    OBVIOUS
  <2> QED
    BY <2>1 DEF OnAbort, Closed
<1> HIDE DEF t
<1>5. Mild(marked, w)
  BY <1>2, <1>3, Softly
<1> HIDE DEF marked
<1>6. Shape(marked)
  BY <1>5 DEF Mild
<1>7. Mild(called, w)
  BY <1>5, <1>6, CallAborts, MildTransitive
<1> HIDE DEF called
<1>8. Mild(RequestError(called), w)
  BY <1>7, Promised, MildTransitive DEF Mild
<1>9. Mild(CallAbort(Closed(marked)), w)
  <2>1. Mild(Closed(marked), w)
    BY <1>5, <1>6, Closes, MildTransitive
  <2> QED
    BY <2>1, CallAborts, MildTransitive DEF Mild
<1> QED
  BY <1>4, <1>7, <1>8, <1>9

LEMMA HeadersGoUp ==
  ASSUME NEW w, Shape(w), NEW status
  PROVE  Mild(UpHeaders(w, status), w)
<1> DEFINE t == [w.s EXCEPT !.hidden = TRUE]
<1>1. DOMAIN w.s = Fields
  BY DEF Shape, Typed
<1>2. SameBut(t, w.s, Soft) /\ t.cut = w.s.cut
  BY <1>1, FieldNames DEF SameBut, Soft
<1>3. Typed(t)
  BY <1>1, FieldNames DEF Shape, Typed
<1>4. UpHeaders(w, status) \in {w, [w EXCEPT !.s = t], RequestHeaders(w)}
  BY DEF UpHeaders
<1> HIDE DEF t
<1>5. Mild([w EXCEPT !.s = t], w)
  BY <1>2, <1>3, Softly
<1> QED
  BY <1>4, <1>5, MildReflexive, Promised

-----------------------------------------------------------------------------
(* The inductive invariant, and what a callback of the request r keeps of  *)
(* it: what it must leave to the other requests, and what it owes itself.  *)

One(b) == IF b THEN 1 ELSE 0

Own(r, w) ==
  Layered(w.s) /\ Entry(w.reg, r, w.s) /\ Gauge(P!StateOf(w.mon), r, w.s)

IInv ==
  /\ world \in Worlds /\ tracing \in BOOLEAN
  /\ req = [r \in Requests |-> req[r]]
  /\ reg \in Log!Registry /\ Log!IsExact(reg)
  /\ P!Sound(mon)
  /\ \A r \in Requests : Typed(req[r]) /\ Own(r, System(r))
  /\ lookups = Cardinality({r \in Requests : LookingUp(req[r])})

Aside(r, v, w) ==
  /\ \A q \in Requests \ {r} : /\ On(v.reg, q) <=> On(w.reg, q)
                               /\ v.reg.ends[q] = w.reg.ends[q]
  /\ \A q \in Requests \ {r}, k \in Hops :
       P!StateOf(v.mon)[<<q, k>>] = P!StateOf(w.mon)[<<q, k>>]

Others(r, w) ==
  /\ Shape(w) /\ w.r = r
  /\ w.reg \in Log!Registry /\ Log!IsExact(w.reg)
  /\ Aside(r, w, System(r))
  /\ w.lookups = (lookups + One(LookingUp(w.s))) - One(LookingUp(req[r]))

LEMMA Counted ==
  ASSUME NEW S, NEW T, IsFiniteSet(S), NEW x, T \ {x} = S \ {x}
  PROVE  /\ IsFiniteSet(T) /\ Cardinality(S) \in Nat /\ Cardinality(T) \in Nat
         /\ Cardinality(T) = (Cardinality(S) + One(x \in T)) - One(x \in S)
<1>1. CASE x \in S <=> x \in T
  <2>1. S = T
    BY <1>1
  <2> QED
    BY <1>1, <2>1, FS_CardinalityType DEF One
<1>2. CASE x \in T /\ x \notin S
  <2>1. T = S \cup {x}
    BY <1>2
  <2>2. IsFiniteSet(T) /\ Cardinality(T) = Cardinality(S) + 1
    BY <1>2, <2>1, FS_AddElement
  <2> QED
    BY <1>2, <2>2, FS_CardinalityType DEF One
<1>3. CASE x \in S /\ x \notin T
  <2>1. T = S \ {x}
    BY <1>3
  <2>2. IsFiniteSet(T) /\ Cardinality(T) = Cardinality(S) - 1
    BY <1>3, <2>1, FS_RemoveElement
  <2> QED
    BY <1>3, <2>2, FS_CardinalityType DEF One
<1> QED
  BY <1>1, <1>2, <1>3

LEMMA Present ==
  ASSUME IInv, NEW r \in Requests
  PROVE  Others(r, System(r)) /\ Own(r, System(r)) /\ Typed(req[r]) /\ lookups \in Nat
<1>1. lookups \in Nat
  <2>1. IsFiniteSet({q \in Requests : LookingUp(req[q])})
    BY Places, FS_Subset
  <2> QED
    BY <2>1, FS_CardinalityType DEF IInv
<1>2. Shape(System(r))
  BY DEF Shape, System, IInv
<1>3. lookups = (lookups + One(LookingUp(req[r]))) - One(LookingUp(req[r]))
  BY <1>1 DEF One
<1> QED
  BY <1>1, <1>2, <1>3 DEF IInv, Others, System, Aside

LEMMA Softens ==
  ASSUME NEW r \in Requests, NEW w, NEW v, Others(r, w), Mild(v, w)
  PROVE  /\ Others(r, v)
         /\ Own(r, w) => Own(r, v)
<1>1. DOMAIN w.s = Fields /\ SameBut(v.s, w.s, Soft)
  BY DEF Others, Shape, Typed, Mild
<1>2. /\ v.s.hop = w.s.hop /\ v.s.wire = w.s.wire /\ v.s.started = w.s.started
      /\ v.s.told = w.s.told /\ v.s.lookup = w.s.lookup /\ v.s.ask = w.s.ask
      /\ v.s.hopTold = w.s.hopTold /\ v.s.location = w.s.location /\ v.s.count = w.s.count
  BY <1>1, Hard
<1>3. /\ Shape(v) /\ v.r = w.r /\ v.reg = w.reg /\ v.lookups = w.lookups
      /\ P!StateOf(v.mon) = P!StateOf(w.mon) /\ (w.s.cut => v.s.cut)
  BY DEF Mild
<1>4. Others(r, v)
  BY <1>2, <1>3 DEF Others, Aside, LookingUp
<1>5. ASSUME Own(r, w) PROVE Own(r, v)
  <2>1. Layered(v.s)
    BY <1>2, <1>3, <1>5 DEF Own, Layered, Begun, OnWire
  <2>2. Entry(v.reg, r, v.s)
    BY <1>2, <1>3, <1>5 DEF Own, Entry
  <2>3. Gauge(P!StateOf(v.mon), r, v.s)
    BY <1>2, <1>3, <1>5 DEF Own, Gauge
  <2> QED
    BY <2>1, <2>2, <2>3 DEF Own
<1> QED
  BY <1>4, <1>5

(* One more step of the callback.                                          *)
LEMMA Continued ==
  ASSUME NEW r \in Requests, NEW w, Others(r, w), NEW v, Shape(v), v.r = r,
         v.reg \in Log!Registry, Log!IsExact(v.reg), Aside(r, v, w),
         v.lookups = w.lookups, LookingUp(v.s) <=> LookingUp(w.s)
  PROVE  Others(r, v)
BY DEF Others, Aside, One

(* A callback that keeps its share keeps the invariant.                    *)
LEMMA Steps ==
  ASSUME IInv, NEW r \in Requests, NEW w, Others(r, w), Own(r, w), Becomes(w)
  PROVE  IInv'
<1>1. /\ req' = [req EXCEPT ![r] = w.s] /\ reg' = w.reg /\ lookups' = w.lookups
      /\ mon' = Pressure!Collect(w.mon) /\ world' = world /\ tracing' = tracing
  BY DEF Becomes, Others
<1>2. P!Sound(mon') /\ P!StateOf(mon') = P!StateOf(w.mon)
  BY <1>1, MonitorRuns DEF Others, Shape
<1>3. req'[r] = w.s /\ \A q \in Requests \ {r} : req'[q] = req[q]
  BY <1>1 DEF IInv
<1>4. req' = [q \in Requests |-> req'[q]]
  BY <1>1 DEF IInv
<1>5. Typed(req'[r]) /\ Own(r, System(r)')
  <2>1. System(r)' = [r |-> r, s |-> w.s, reg |-> w.reg, mon |-> mon', lookups |-> lookups']
    BY <1>1, <1>3 DEF System
  <2> QED
    BY <1>2, <1>3, <2>1 DEF Own, Others, Shape
<1>6. ASSUME NEW q \in Requests \ {r} PROVE Typed(req'[q]) /\ Own(q, System(q)')
  <2>1. System(q)' = [r |-> q, s |-> req[q], reg |-> w.reg, mon |-> mon', lookups |-> lookups']
    BY <1>1, <1>3 DEF System
  <2>2. Typed(req[q]) /\ Layered(req[q]) /\ Entry(reg, q, req[q]) /\ Gauge(P!StateOf(mon), q, req[q])
    BY DEF IInv, Own, System
  <2>3. Entry(w.reg, q, req[q])
    BY <2>2 DEF Entry, Others, Aside, System
  <2>4. Gauge(P!StateOf(mon'), q, req[q])
    BY <1>2, <2>2 DEF Gauge, Others, Aside, System
  <2> QED
    BY <1>3, <2>1, <2>2, <2>3, <2>4 DEF Own
<1>7. lookups' = Cardinality({q \in Requests : LookingUp(req'[q])})
  <2> DEFINE S == {q \in Requests : LookingUp(req[q])}
             T == {q \in Requests : LookingUp(req'[q])}
  <2>1. IsFiniteSet(S) /\ T \ {r} = S \ {r}
    BY <1>3, Places, FS_Subset
  <2>2. (r \in S <=> LookingUp(req[r])) /\ (r \in T <=> LookingUp(w.s))
    BY <1>3
  <2>3. lookups = Cardinality(S)
    BY DEF IInv
  <2> HIDE DEF S, T
  <2>4. /\ Cardinality(S) \in Nat /\ Cardinality(T) \in Nat
        /\ Cardinality(T) = (Cardinality(S) + One(r \in T)) - One(r \in S)
    BY <2>1, Counted
  <2>5. lookups' = (Cardinality(S) + One(r \in T)) - One(r \in S)
    <3>1. One(LookingUp(req[r])) = One(r \in S) /\ One(LookingUp(w.s)) = One(r \in T)
      BY <2>2 DEF One
    <3> QED
      BY <1>1, <2>3, <3>1 DEF Others
  <2>6. lookups' = Cardinality(T)
    BY <2>4, <2>5
  <2> QED
    BY <2>6 DEF T
<1> QED
  BY <1>1, <1>2, <1>4, <1>5, <1>6, <1>7 DEF IInv, Others

-----------------------------------------------------------------------------
(* The ends of an attempt.                                                 *)

(* What an end leaves as it was.                                           *)
Alike(t, s) ==
  /\ t.hop = s.hop /\ t.wire = s.wire /\ t.started = s.started /\ t.lookup = s.lookup
  /\ t.ask = s.ask /\ t.location = s.location /\ t.count = s.count
  /\ s.cut => t.cut

LEMMA Resembles ==
  ASSUME NEW w, NEW v, Shape(w), Mild(v, w)
  PROVE  /\ Alike(v.s, w.s) /\ v.s.told = w.s.told /\ v.s.hopTold = w.s.hopTold
         /\ v.reg = w.reg /\ P!StateOf(v.mon) = P!StateOf(w.mon)
<1>1. DOMAIN w.s = Fields /\ SameBut(v.s, w.s, Soft)
  BY DEF Shape, Typed, Mild
<1> QED
  BY <1>1, Hard DEF Alike, Mild

(* The layers above are told of an end, and log lets go of the request.    *)
LEMMA Tells ==
  ASSUME NEW r \in Requests, NEW w, Others(r, w),
         NEW v, v = LogDone([w EXCEPT !.s.told = TRUE])
  PROVE  /\ Others(r, v) /\ Alike(v.s, w.s) /\ v.s.told /\ v.s.hopTold = w.s.hopTold
         /\ v.mon = w.mon /\ v.reg = Log!Leave(w.reg, r)
<1> DEFINE t == [w.s EXCEPT !.told = TRUE]
           g == Log!Leave(w.reg, r)
<1>1. DOMAIN w = {"r", "s", "reg", "mon", "lookups"} /\ w.r = r /\ Typed(w.s)
  BY DEF Others, Shape
<1>2. Alike(t, w.s) /\ t.told /\ t.hopTold = w.s.hopTold /\ Typed(t)
  BY <1>1, FieldNames DEF Alike, Typed
<1>3. v = [w EXCEPT !.s = t, !.reg = g]
  BY <1>1 DEF LogDone
<1> HIDE DEF t, g
<1>4. /\ v.r = r /\ v.s = t /\ v.reg = g /\ v.mon = w.mon /\ v.lookups = w.lookups
      /\ DOMAIN v = {"r", "s", "reg", "mon", "lookups"}
  BY <1>1, <1>3
<1>5. g \in Log!Registry /\ Log!IsExact(g) /\ Aside(r, v, w)
  <2>1. /\ g \in Log!Registry /\ Log!IsExact(g)
        /\ \A q \in Requests : On(g, q) <=> q # r /\ On(w.reg, q)
        /\ \A q \in Requests : g.ends[q] = w.reg.ends[q] + (IF q = r /\ On(w.reg, r) THEN 1 ELSE 0)
    BY Leaves DEF g, Others
  <2>2. \A q \in Requests : w.reg.ends[q] \in Nat
    BY DEF Others, Log!Registry
  <2>3. \A q \in Requests \ {r} : (On(g, q) <=> On(w.reg, q)) /\ g.ends[q] = w.reg.ends[q]
    BY <2>1, <2>2
  <2> QED
    BY <1>4, <2>1, <2>3 DEF Aside
<1>6. Shape(v) /\ v.s.lookup = w.s.lookup
  BY <1>2, <1>4 DEF Others, Shape, Alike
<1>7. Others(r, v)
  BY <1>4, <1>5, <1>6, Continued DEF LookingUp
<1> QED
  BY <1>2, <1>4, <1>7 DEF g

(* pressure settles the attempt.                                           *)
LEMMA Settles ==
  ASSUME NEW r \in Requests, NEW w, Others(r, w), w.s.hop \in Hops, NEW e \in BOOLEAN,
         NEW v, DOMAIN v = {"r", "s", "reg", "mon", "lookups"}, v.r = w.r, v.reg = w.reg,
         v.lookups = w.lookups, v.mon = Pressure!Settle(w.mon, <<r, w.s.hop>>, e),
         Typed(v.s), v.s.lookup = w.s.lookup
  PROVE  Others(r, v) /\ P!StateOf(v.mon) = Gone(P!StateOf(w.mon), <<r, w.s.hop>>)
<1>1. P!Sound(v.mon) /\ P!StateOf(v.mon) = Gone(P!StateOf(w.mon), <<r, w.s.hop>>)
  <2>1. <<r, w.s.hop>> \in Attempts /\ P!Sound(w.mon)
    BY DEF Attempts, Others, Shape
  <2> QED
    BY <2>1, MonitorIsTold
<1>2. Aside(r, v, w)
  <2>1. \A q \in Requests \ {r}, k \in Hops :
          P!StateOf(v.mon)[<<q, k>>] = P!StateOf(w.mon)[<<q, k>>]
    BY <1>1, Elsewhere DEF Attempts
  <2> QED
    BY <2>1 DEF Aside
<1>3. v.reg \in Log!Registry /\ Log!IsExact(v.reg) /\ v.r = r
  BY DEF Others
<1>4. Shape(v)
  BY <1>1, <1>3 DEF Shape
<1> QED
  BY <1>1, <1>2, <1>3, <1>4, Continued DEF LookingUp

LEMMA ErrorGoesUp ==
  ASSUME NEW r \in Requests, NEW w, Others(r, w)
  PROVE  /\ Others(r, UpError(w)) /\ Alike(UpError(w).s, w.s)
         /\ UpError(w).s.told /\ UpError(w).s.hopTold = w.s.hopTold
         /\ P!StateOf(UpError(w).mon) = P!StateOf(w.mon)
         /\ UpError(w).reg = IF w.s.told THEN w.reg ELSE Log!Leave(w.reg, r)
<1>1. CASE w.s.told
  BY <1>1 DEF UpError, Alike
<1>2. CASE ~w.s.told
  <2> DEFINE u == LogDone([w EXCEPT !.s.told = TRUE])
             v == RequestError(u)
  <2>1. /\ Others(r, u) /\ Alike(u.s, w.s) /\ u.s.told /\ u.s.hopTold = w.s.hopTold
        /\ u.mon = w.mon /\ u.reg = Log!Leave(w.reg, r)
    BY Tells
  <2>2. UpError(w) = v
    BY <1>2 DEF UpError
  <2> HIDE DEF u
  <2>3. Shape(u) /\ Mild(v, u)
    BY <2>1, Promised DEF Others
  <2> HIDE DEF v
  <2>4. /\ Alike(v.s, u.s) /\ v.s.told = u.s.told /\ v.s.hopTold = u.s.hopTold
        /\ v.reg = u.reg /\ P!StateOf(v.mon) = P!StateOf(u.mon) /\ Others(r, v)
    BY <2>1, <2>3, Resembles, Softens
  <2> QED
    BY <1>2, <2>1, <2>2, <2>4 DEF Alike
<1> QED
  BY <1>1, <1>2

LEMMA Errs ==
  ASSUME NEW r \in Requests, NEW w, Others(r, w), w.s.hop \in Hops, NEW e \in BOOLEAN,
         NEW v, v = PressureError(w, e)
  PROVE  /\ Others(r, v) /\ Alike(v.s, w.s) /\ v.s.hopTold
         /\ v.s.told <=> w.s.told \/ ~w.s.hopTold
         /\ P!StateOf(v.mon) = Gone(P!StateOf(w.mon), <<r, w.s.hop>>)
         /\ v.reg = IF w.s.told \/ w.s.hopTold THEN w.reg ELSE Log!Leave(w.reg, r)
<1> DEFINE n == Pressure!Failed(w.mon, Attempt(w), e)
           settled == [w EXCEPT !.mon = n]
           t == [w.s EXCEPT !.hopTold = TRUE]
           told == [settled EXCEPT !.s = t]
<1>1. DOMAIN w = {"r", "s", "reg", "mon", "lookups"} /\ w.r = r /\ Typed(w.s)
  BY DEF Others, Shape
<1>2. \E b \in BOOLEAN : n = Pressure!Settle(w.mon, <<r, w.s.hop>>, b)
  BY <1>1 DEF Pressure!Failed, Attempt
<1>3. Alike(t, w.s) /\ t.hopTold /\ t.told = w.s.told /\ Typed(t)
  BY <1>1, FieldNames DEF Alike, Typed
<1>4. v = IF w.s.hopTold THEN settled ELSE UpError(told)
  <2>1. [settled EXCEPT !.s.hopTold = TRUE] = told
    BY <1>1
  <2> QED
    BY <2>1, <1>1 DEF PressureError
<1> HIDE DEF n, t
<1>5. /\ DOMAIN settled = DOMAIN w /\ settled.r = w.r /\ settled.reg = w.reg
      /\ settled.lookups = w.lookups /\ settled.mon = n /\ settled.s = w.s
  BY <1>1
<1>6. /\ DOMAIN told = DOMAIN w /\ told.r = w.r /\ told.reg = w.reg
      /\ told.lookups = w.lookups /\ told.mon = n /\ told.s = t
  BY <1>1
<1> HIDE DEF settled, told
<1>7. CASE w.s.hopTold
  <2>1. Others(r, settled) /\ P!StateOf(settled.mon) = Gone(P!StateOf(w.mon), <<r, w.s.hop>>)
    BY <1>1, <1>2, <1>5, Settles
  <2> QED
    BY <1>4, <1>5, <1>7, <2>1, <1>1 DEF Alike, Typed
<1>8. CASE ~w.s.hopTold
  <2>1. t.lookup = w.s.lookup
    BY <1>3 DEF Alike
  <2>2. Others(r, told) /\ P!StateOf(told.mon) = Gone(P!StateOf(w.mon), <<r, w.s.hop>>)
    BY <1>1, <1>2, <1>3, <1>6, <2>1, Settles
  <2>3. v = UpError(told)
    BY <1>4, <1>8
  <2>4. /\ Others(r, v) /\ Alike(v.s, t) /\ v.s.told /\ v.s.hopTold = t.hopTold
        /\ P!StateOf(v.mon) = P!StateOf(told.mon)
        /\ v.reg = IF t.told THEN w.reg ELSE Log!Leave(w.reg, r)
    BY <2>2, <2>3, <1>6, ErrorGoesUp
  <2>5. Alike(v.s, w.s)
    BY <1>3, <2>4 DEF Alike
  <2> QED
    BY <1>3, <1>8, <2>2, <2>4, <2>5
<1> QED
  BY <1>7, <1>8

-----------------------------------------------------------------------------
(* The dispatches.                                                         *)

AtRest(m, r) ==
  \A k \in Hops : P!StateOf(m)[<<r, k>>] \notin {"pending", "running"}

LEMMA Singly ==
  ASSUME IInv, NEW r \in Requests, NEW w, Others(r, w), AtRest(w.mon, r)
  PROVE  OneEach(w.mon)
<1>1. \A q \in Requests, k \in Hops :
        <<q, k>> \in P!Live(w.mon) <=>
          P!StateOf(w.mon)[<<q, k>>] \in {"pending", "running"}
  BY DEF P!Live, P!StateOf, Attempts
<1>2. ASSUME NEW q \in Requests, NEW j \in Hops, NEW k \in Hops,
             <<q, j>> \in P!Live(w.mon), <<q, k>> \in P!Live(w.mon)
      PROVE  j = k
  <2>1. CASE q = r
    BY <1>1, <1>2, <2>1 DEF AtRest
  <2>2. CASE q # r
    <3>1. Gauge(P!StateOf(mon), q, req[q])
      BY DEF IInv, Own, System
    <3>2. /\ P!StateOf(w.mon)[<<q, j>>] = P!StateOf(mon)[<<q, j>>]
          /\ P!StateOf(w.mon)[<<q, k>>] = P!StateOf(mon)[<<q, k>>]
      BY <2>2 DEF Others, Aside, System
    <3> QED
      BY <1>1, <1>2, <3>1, <3>2 DEF Gauge
  <2> QED
    BY <2>1, <2>2
<1> QED
  BY <1>2 DEF OneEach

Pending(states, h) == [states EXCEPT ![h] = "pending"]

LEMMA AndElsewhere ==
  ASSUME NEW m, NEW h, NEW g \in Attempts
  PROVE  Pending(P!StateOf(m), h)[g] = IF g = h THEN "pending" ELSE P!StateOf(m)[g]
BY DEF Pending, P!StateOf

Hopped(r, v, w) ==
  /\ v.reg = w.reg
  /\ v.s.hop = w.s.hop + 1 /\ v.s.hop \in Hops /\ v.s.wire = "queued" /\ ~v.s.hopTold
  /\ v.s.told = w.s.told /\ v.s.started = w.s.started /\ v.s.lookup = w.s.lookup
  /\ v.s.ask = w.s.ask /\ v.s.location = w.s.location /\ v.s.count = w.s.count
  /\ P!StateOf(v.mon) = Pending(P!StateOf(w.mon), <<r, v.s.hop>>)

LEMMA HopStarts ==
  ASSUME IInv, NEW r \in Requests, NEW w, Others(r, w), AtRest(w.mon, r),
         w.s.hop < MaxHops, NEW o \in Origins, NEW v, v = DispatchHop(w, o)
  PROVE  Others(r, v) /\ Hopped(r, v, w)
<1> DEFINE s == w.s
           k == s.hop + 1
           n == Pressure!Enter(w.mon, <<w.r, k>>, o)
           x == [s.stream EXCEPT ![k] = IF s.sends = "factory" THEN NewStream(s) ELSE @]
           t == [s EXCEPT !.hop = k, !.wire = "queued", !.cut = FALSE, !.hopTold = FALSE,
                          !.again = FALSE, !.stream = x]
<1>1. DOMAIN w = {"r", "s", "reg", "mon", "lookups"} /\ w.r = r /\ Typed(w.s) /\ P!Sound(w.mon)
  BY DEF Others, Shape
<1>2. v = [w EXCEPT !.mon = n, !.s = t]
  BY <1>1, FieldNames DEF DispatchHop, Typed
<1>3. k \in Hops /\ k \in 0..MaxHops /\ s.target \in 0..k
  <2>1. w.s.hop \in 0..MaxHops /\ w.s.target \in 0..w.s.hop
    BY <1>1 DEF Typed
  <2>2. MaxHops \in Nat /\ w.s.hop < MaxHops
    BY Places
  <2>3. w.s.hop \in Nat /\ w.s.target \in Nat /\ w.s.target <= w.s.hop
    BY <2>1, <2>2
  <2> QED
    BY <2>2, <2>3 DEF Hops
<1>4. Typed(t)
  <2> HIDE DEF x, k
  <2>1. /\ t.promise = s.promise /\ t.res = s.res /\ t.signal = s.signal
        /\ t.lookup = s.lookup /\ t.wire = "queued" /\ t.body = s.body /\ t.hop = k
    BY <1>1, FieldNames DEF Typed
  <2>2. /\ t.target = s.target /\ t.count = s.count /\ t.started = s.started
        /\ t.told = s.told /\ t.cut = FALSE /\ t.hopTold = FALSE /\ t.location = s.location
        /\ DOMAIN t = DOMAIN s
    BY <1>1, FieldNames DEF Typed
  <2>3. k \in 0..MaxHops /\ t.target \in 0..k
    BY <1>3, <2>2
  <2> HIDE DEF t
  <2> QED
    BY <1>1, <2>1, <2>2, <2>3 DEF Typed
<1>5. /\ t.hop = k /\ t.wire = "queued" /\ ~t.hopTold
      /\ t.told = w.s.told /\ t.started = w.s.started /\ t.lookup = w.s.lookup
      /\ t.ask = w.s.ask /\ t.location = w.s.location /\ t.count = w.s.count
  <2> HIDE DEF x, k
  <2> QED
    BY <1>1, FieldNames DEF Typed
<1> HIDE DEF t
<1>6. P!Sound(n) /\ P!StateOf(n) = Pending(P!StateOf(w.mon), <<r, k>>)
  <2>1. <<r, k>> \in Attempts /\ <<r, k>> \notin P!Live(w.mon)
    BY <1>3 DEF AtRest, P!Live, P!StateOf, Attempts
  <2>2. OneEach(w.mon)
    BY Singly
  <2>3. n = Pressure!Enter(w.mon, <<r, k>>, o)
    BY <1>1
  <2> HIDE DEF n, k
  <2> QED
    BY <1>1, <2>1, <2>2, <2>3, Enters DEF Pending
<1> HIDE DEF n, k
<1>7. /\ DOMAIN v = DOMAIN w /\ v.r = w.r /\ v.reg = w.reg
      /\ v.lookups = w.lookups /\ v.mon = n /\ v.s = t
  BY <1>1, <1>2
<1>8. Shape(v) /\ v.reg \in Log!Registry /\ Log!IsExact(v.reg) /\ v.r = r
  BY <1>1, <1>4, <1>6, <1>7 DEF Shape, Others
<1>9. Aside(r, v, w)
  <2>1. \A q \in Requests \ {r}, j \in Hops :
          P!StateOf(n)[<<q, j>>] = P!StateOf(w.mon)[<<q, j>>]
    BY <1>6, AndElsewhere DEF Attempts
  <2> QED
    BY <1>7, <2>1 DEF Aside
<1>10. Others(r, v)
  BY <1>5, <1>7, <1>8, <1>9, Continued DEF LookingUp
<1>11. v.s.hop = w.s.hop + 1
  BY <1>5, <1>7 DEF k
<1> QED
  BY <1>3, <1>5, <1>6, <1>7, <1>10, <1>11 DEF Hopped

(* A request that was dispatched.                                          *)
UnderWay(s) ==
  /\ s.started /\ s.ask \in Ask /\ s.hop \in Hops /\ s.wire # "none"
  /\ s.lookup \in {"none", "done"}

LEMMA UnderWayIsBegun == ASSUME NEW s, UnderWay(s) PROVE Begun(s)
<1>1. s.hop # 0
  BY Places DEF UnderWay, Hops
<1>2. s.hop = 0 <=> s.wire = "none"
  BY <1>1 DEF UnderWay
<1>3. s.hop = 0 => ~s.location
  BY <1>1
<1>4. ~s.started => s.hop = 0 /\ ~s.told /\ s.lookup = "none"
  BY DEF UnderWay
<1>5. s.lookup \in {"under way", "resolved", "rejected"} => s.hop = 0 /\ ~s.told
  BY DEF UnderWay
<1>6. s.started => s.ask \in Ask
  BY DEF UnderWay
<1> QED
  BY <1>2, <1>3, <1>4, <1>5, <1>6, Zenon DEF Begun

LEMMA BegunIsUnderWay ==
  ASSUME NEW s, Typed(s), Begun(s), s.wire # "none"
  PROVE  UnderWay(s)
<1>1. s.hop # 0 /\ s.hop \in Hops
  <2>1. s.hop # 0
    BY Zenon DEF Begun
  <2>2. s.hop \in 0..MaxHops /\ MaxHops \in Nat
    BY Places DEF Typed
  <2> QED
    BY <2>1, <2>2 DEF Hops
<1>2. s.started = TRUE
  <2>1. s.started \in BOOLEAN
    BY DEF Typed
  <2> QED
    BY <1>1, <2>1, Zenon DEF Begun
<1>3. s.ask \in Ask
  BY <1>2, Zenon DEF Begun
<1>4. s.lookup \in {"none", "done"}
  <2>1. s.lookup \notin {"under way", "resolved", "rejected"}
    BY <1>1, Zenon DEF Begun
  <2> QED
    BY <2>1 DEF Typed
<1> QED
  BY <1>1, <1>2, <1>3, <1>4 DEF UnderWay

(* A request that its lookup, if it has one, lets through.                 *)
Undispatched(s) ==
  /\ s.started /\ ~s.told /\ s.hop = 0 /\ s.wire = "none" /\ s.ask \in Ask
  /\ s.lookup \in {"none", "done"} /\ ~s.location

Fresh(r, w) ==
  Undispatched(w.s) /\ ~On(w.reg, r) /\ w.reg.ends[r] = 0 /\ AtRest(w.mon, r)

LEMMA Dispatches ==
  ASSUME IInv, NEW r \in Requests, NEW w, Others(r, w), Fresh(r, w), NEW o \in Origins
  PROVE  /\ Others(r, Dispatch(w, o)) /\ Own(r, Dispatch(w, o))
         /\ Others(r, DispatchThrows(w)) /\ Own(r, DispatchThrows(w))
<1> DEFINE logged == [w EXCEPT !.reg = Log!Join(@, w.r)]
           bridged == IF w.s.ask.follow = "off" THEN logged ELSE RequestConnect(logged)
<1>1. DOMAIN w = {"r", "s", "reg", "mon", "lookups"} /\ w.r = r /\ Typed(w.s) /\ P!Sound(w.mon)
  BY DEF Others, Shape
<1>2. /\ DOMAIN logged = DOMAIN w /\ logged.r = w.r /\ logged.reg = Log!Join(w.reg, r)
      /\ logged.lookups = w.lookups /\ logged.mon = w.mon /\ logged.s = w.s
  BY <1>1
<1>3. Dispatch(w, o) = DispatchHop(bridged, o)
  BY DEF Dispatch
<1>4. DispatchThrows(w) = RequestError(LogDone([bridged EXCEPT !.s.told = TRUE]))
  BY DEF DispatchThrows
<1>5. bridged \in {logged, RequestConnect(logged)}
  OBVIOUS
<1> HIDE DEF logged, bridged
<1>6. /\ logged.reg \in Log!Registry /\ Log!IsExact(logged.reg)
      /\ \A q \in Requests : On(logged.reg, q) <=> q = r \/ On(w.reg, q)
      /\ logged.reg.ends = w.reg.ends
  BY <1>2, Joins DEF Others, Fresh
<1>7. Others(r, logged)
  <2>1. Aside(r, logged, w)
    BY <1>2, <1>6 DEF Aside
  <2>2. Shape(logged)
    BY <1>1, <1>2 DEF Shape
  <2> QED
    BY <1>1, <1>2, <1>6, <2>1, <2>2, Continued
<1>8. Mild(bridged, logged)
  BY <1>5, <1>7, MildReflexive, Connections DEF Others
<1>9. /\ Others(r, bridged) /\ bridged.s.told = w.s.told /\ bridged.s.hopTold = w.s.hopTold
      /\ bridged.reg = logged.reg /\ P!StateOf(bridged.mon) = P!StateOf(w.mon)
      /\ Alike(bridged.s, w.s)
  BY <1>2, <1>7, <1>8, Softens, Resembles DEF Others
<1>10. Undispatched(bridged.s)
  <2>1. Undispatched(w.s)
    BY DEF Fresh
  <2> QED
    BY <1>9, <2>1 DEF Undispatched, Alike
<1>11. On(bridged.reg, r) /\ bridged.reg.ends[r] = 0
  BY <1>6, <1>9 DEF Fresh
<1>12. AtRest(bridged.mon, r) /\ bridged.s.count \in Nat
  BY <1>9 DEF Fresh, AtRest, Others, Shape, Typed
<1>13. Others(r, Dispatch(w, o)) /\ Own(r, Dispatch(w, o))
  <2> DEFINE v == Dispatch(w, o)
  <2>1. bridged.s.hop < MaxHops
    BY <1>10, Places DEF Undispatched
  <2>2. v = DispatchHop(bridged, o)
    BY <1>3
  <2> HIDE DEF v
  <2>3. Others(r, v) /\ Hopped(r, v, bridged)
    BY <1>9, <1>12, <2>1, <2>2, HopStarts
  <2>4. v.s.hop = 1 /\ ~v.s.told /\ v.s.started /\ v.s.ask \in Ask /\ ~v.s.location
    BY <1>10, <2>3 DEF Hopped, Undispatched
  <2>5. /\ v.s.count \in Nat /\ v.s.wire = "queued" /\ ~v.s.hopTold
        /\ v.s.lookup \in {"none", "done"} /\ v.reg = bridged.reg
    BY <1>10, <1>12, <2>3 DEF Hopped, Undispatched
  <2>6. Layered(v.s) /\ Entry(v.reg, r, v.s)
    <3>1. Begun(v.s)
      <4>1. v.s.hop \in Hops /\ v.s.lookup # "under way"
        BY <2>3, <2>5 DEF Hopped
      <4> QED
        BY <2>4, <2>5, <4>1, UnderWayIsBegun DEF UnderWay
    <3>2. OnWire(v.s)
      BY <2>4, <2>5 DEF OnWire
    <3>3. Entry(v.reg, r, v.s)
      BY <1>11, <2>4, <2>5 DEF Entry
    <3> QED
      BY <3>1, <3>2, <3>3 DEF Layered
  <2>7. Gauge(P!StateOf(v.mon), r, v.s)
    <3>1. \A k \in Hops :
            P!StateOf(v.mon)[<<r, k>>] = IF k = v.s.hop THEN "pending"
                                         ELSE P!StateOf(bridged.mon)[<<r, k>>]
      BY <2>3, AndElsewhere DEF Attempts, Hopped
    <3> QED
      BY <1>12, <2>5, <3>1 DEF Gauge, AtRest
  <2> QED
    BY <2>3, <2>6, <2>7 DEF Own, v
<1>14. Others(r, DispatchThrows(w)) /\ Own(r, DispatchThrows(w))
  <2> DEFINE u == LogDone([bridged EXCEPT !.s.told = TRUE])
             v == RequestError(u)
  <2>1. /\ Others(r, u) /\ Alike(u.s, bridged.s) /\ u.s.told
        /\ u.s.hopTold = bridged.s.hopTold
        /\ u.mon = bridged.mon /\ u.reg = Log!Leave(bridged.reg, r)
    BY <1>9, Tells
  <2>2. DispatchThrows(w) = v
    BY <1>4
  <2> HIDE DEF u
  <2>3. Mild(v, u)
    BY <2>1, Promised DEF Others
  <2>4. ~On(u.reg, r) /\ u.reg.ends[r] = 1
    BY <1>9, <1>11, <2>1, Leaves DEF Others
  <2>5. /\ u.s.started /\ u.s.hop = 0 /\ u.s.wire = "none" /\ u.s.ask \in Ask
        /\ u.s.lookup \in {"none", "done"} /\ ~u.s.location
    BY <1>10, <2>1 DEF Undispatched, Alike
  <2>6. Layered(u.s) /\ Entry(u.reg, r, u.s)
    <3>1. Begun(u.s)
      BY <2>5 DEF Begun
    <3>2. OnWire(u.s)
      BY <2>5 DEF OnWire
    <3>3. Entry(u.reg, r, u.s)
      BY <2>1, <2>4, <2>5 DEF Entry
    <3> QED
      BY <3>1, <3>2, <3>3 DEF Layered
  <2>7. Gauge(P!StateOf(u.mon), r, u.s)
    BY <1>12, <2>1, <2>5 DEF Gauge, AtRest
  <2> QED
    BY <2>1, <2>2, <2>3, <2>6, <2>7, Softens DEF Own
<1> QED
  BY <1>13, <1>14

-----------------------------------------------------------------------------
(* The steps of the caller.                                                *)

(* What does not touch what the layers know of each other.                 *)
LEMMA StepsMildly ==
  ASSUME IInv, NEW r \in Requests, NEW w, Mild(w, System(r)), Becomes(w)
  PROVE  IInv'
BY Present, Softens, Steps

LEMMA CallerSteps ==
  ASSUME IInv, NEW r \in Requests, Reject(r) \/ Read(r) \/ Drop(r)
  PROVE  IInv'
<1> DEFINE s == req[r]
           t == [s EXCEPT !.promise = "rejected"]
           w == System(r)
<1>1. Shape(w) /\ Typed(s) /\ w.s = s
  BY Present DEF Others, System
<1>2. Typed(t) /\ SameBut(t, s, Soft) /\ t.cut = s.cut
  <2>1. DOMAIN s = Fields
    BY <1>1 DEF Typed
  <2>2. SameBut(t, s, Soft) /\ t.cut = s.cut
    BY <2>1, FieldNames DEF SameBut, Soft
  <2>3. t.promise = "rejected" /\ t.res = s.res /\ t.signal = s.signal /\ t.body = s.body
        /\ t.target = s.target
    BY <2>1, FieldNames
  <2> HIDE DEF t
  <2> QED
    BY <1>1, <2>2, <2>3, Retyped DEF Typed
<1>3. \/ Becomes([w EXCEPT !.s = t]) \/ Becomes(Closed(w))
      \/ Becomes(CallAbort(w)) \/ Becomes(CallAbort(Closed(w)))
  <2>1. [w EXCEPT !.s.promise = "rejected"] = [w EXCEPT !.s = t]
    BY <1>1
  <2> QED
    BY <2>1 DEF Reject, Read, Drop, Closed
<1> HIDE DEF t, w
<1>4. Mild([w EXCEPT !.s = t], w) /\ Mild(Closed(w), w) /\ Mild(CallAbort(w), w)
  BY <1>1, <1>2, Softly, Closes, CallAborts
<1>5. Mild(CallAbort(Closed(w)), w)
  BY <1>4, CallAborts, MildTransitive DEF Mild
<1> QED
  BY <1>3, <1>4, <1>5, StepsMildly DEF w

-----------------------------------------------------------------------------
(* The beginning of a request, and its lookup.                             *)

(* What a request that was not dispatched has.                             *)
LEMMA Before ==
  ASSUME IInv, NEW r \in Requests, req[r].hop = 0, ~req[r].told
  PROVE  /\ ~On(reg, r) /\ reg.ends[r] = 0 /\ AtRest(mon, r)
         /\ req[r].wire = "none" /\ ~req[r].location
<1>1. /\ Begun(req[r]) /\ Entry(reg, r, req[r]) /\ Gauge(P!StateOf(mon), r, req[r])
  BY DEF IInv, Own, System, Layered
<1>2. ~On(reg, r) /\ reg.ends[r] = 0
  BY <1>1 DEF Entry
<1>3. AtRest(mon, r)
  BY <1>1, Places DEF AtRest, Gauge, Hops
<1>4. req[r].wire = "none" /\ ~req[r].location
  BY <1>1, Zenon DEF Begun
<1> QED
  BY <1>2, <1>3, <1>4

(* A step that changes the request and the counter of lookup alone.        *)
LEMMA Looks ==
  ASSUME IInv, NEW r \in Requests, NEW t, Typed(t), NEW n,
         n = (lookups + One(LookingUp(t))) - One(LookingUp(req[r])),
         NEW v, DOMAIN v = {"r", "s", "reg", "mon", "lookups"}, v.r = r, v.s = t,
         v.reg = reg, v.mon = mon, v.lookups = n
  PROVE  Others(r, v)
<1>1. Shape(v)
  BY DEF Shape, IInv
<1>2. Aside(r, v, System(r))
  BY DEF Aside, System
<1> QED
  BY <1>1, <1>2 DEF Others, IInv

Beginning(a, early) ==
  [NewRequest EXCEPT
     !.ask = a, !.started = TRUE,
     !.promise = IF a.raw THEN "none" ELSE "waiting",
     !.signal = IF ~a.signal THEN "none" ELSE IF early THEN "aborted" ELSE "live",
     !.listening = a.signal /\ ~early, !.aborted = early,
     !.body = IF a.body = "stream" THEN "live" ELSE "none",
     !.sends = a.body]

LEMMA BeginningIsTyped ==
  ASSUME NEW a \in Ask, NEW early \in BOOLEAN, NEW s, s = Beginning(a, early)
  PROVE  /\ Typed(s) /\ s.ask = a /\ s.started /\ ~s.told /\ s.hop = 0
         /\ s.wire = "none" /\ s.lookup = "none" /\ ~s.location /\ ~s.hopTold
<1>1. DOMAIN s = Fields
  BY DEF Beginning, Fields
<1>2. /\ s.ask = a /\ s.started = TRUE /\ s.told = FALSE /\ s.hop = 0 /\ s.wire = "none"
      /\ s.lookup = "none" /\ s.location = FALSE /\ s.hopTold = FALSE
  BY DEF Beginning, NewRequest
<1>3. /\ s.res = "none" /\ s.target = 0 /\ s.count = 0 /\ s.cut = FALSE
      /\ s.promise = IF a.raw THEN "none" ELSE "waiting"
      /\ s.signal = IF ~a.signal THEN "none" ELSE IF early THEN "aborted" ELSE "live"
      /\ s.body = IF a.body = "stream" THEN "live" ELSE "none"
  BY DEF Beginning, NewRequest
<1>4. /\ s.promise \in {"none", "waiting", "resolved", "rejecting", "rejected"}
      /\ s.signal \in {"none", "live", "aborted"}
      /\ s.body \in {"none", "live", "disturbed", "destroyed"}
  BY <1>3
<1>5. s.hop \in 0..MaxHops /\ s.target \in 0..s.hop /\ s.count \in Nat
  BY <1>2, <1>3, Places
<1>6. Typed(s)
  <2>1. /\ s.res \in {"none", "open", "ended", "closing", "closed"}
        /\ s.lookup \in {"none", "under way", "resolved", "rejected", "done"}
        /\ s.wire \in {"none", "queued", "connected", "headers", "upgraded", "closed"}
        /\ s.started \in BOOLEAN /\ s.told \in BOOLEAN /\ s.cut \in BOOLEAN
        /\ s.hopTold \in BOOLEAN /\ s.location \in BOOLEAN
    BY <1>2, <1>3
  <2> QED
    BY <1>1, <1>4, <1>5, <2>1, Zenon DEF Typed
<1> QED
  BY <1>2, <1>6

LEMMA StartStep ==
  ASSUME IInv, NEW r \in Requests, NEW a \in Asks[world][r], NEW early \in BOOLEAN,
         NEW o \in a.to, NEW good, Start(r, a, early, o, good)
  PROVE  IInv'
<1> DEFINE s == Beginning(a, early)
           w == [System(r) EXCEPT !.s = s]
           t == [s EXCEPT !.lookup = "under way"]
           looking == [w EXCEPT !.s = t, !.lookups = lookups + 1]
<1>1. a \in Ask /\ o \in Origins
  <2>1. Asks[world] \in [Requests -> SUBSET Ask]
    BY ExchangeAssumption DEF IInv
  <2>2. a \in Ask
    BY <2>1
  <2> QED
    BY <2>2 DEF Ask
<1>3. ~req[r].started
  BY DEF Start
<1>4. req[r].hop = 0 /\ ~req[r].told /\ req[r].lookup = "none"
  <2>1. Begun(req[r])
    BY DEF IInv, Own, System, Layered
  <2> QED
    BY <1>3, <2>1, Zenon DEF Begun
<1>5. ~On(reg, r) /\ reg.ends[r] = 0 /\ AtRest(mon, r)
  BY <1>4, Before
<1>6. lookups \in Nat
  BY Present
<1>7. \/ Becomes(RequestError(w)) \/ Becomes(Dispatch(w, o)) \/ Becomes(DispatchThrows(w))
      \/ Becomes(looking)
  <2>1. [w EXCEPT !.s.lookup = "under way", !.lookups = @ + 1] = looking
    <3> HIDE DEF s
    <3> QED
      BY DEF System
  <2> QED
    BY <2>1 DEF Start, Beginning
<1>0. s = Beginning(a, early)
  OBVIOUS
<1> HIDE DEF s
<1>2. /\ Typed(s) /\ s.ask = a /\ s.started /\ ~s.told /\ s.hop = 0
      /\ s.wire = "none" /\ s.lookup = "none" /\ ~s.location /\ ~s.hopTold
  BY <1>0, <1>1, BeginningIsTyped
<1>8. /\ DOMAIN w = {"r", "s", "reg", "mon", "lookups"} /\ w.r = r /\ w.s = s
      /\ w.reg = reg /\ w.mon = mon /\ w.lookups = lookups
  BY DEF System
<1> HIDE DEF w, t
<1>9. /\ DOMAIN looking = DOMAIN w /\ looking.r = r /\ looking.s = t
      /\ looking.reg = reg /\ looking.mon = mon /\ looking.lookups = lookups + 1
  BY <1>8
<1>10. /\ Typed(t) /\ t.lookup = "under way" /\ t.ask = a /\ t.started /\ ~t.told /\ t.hop = 0
       /\ t.wire = "none" /\ ~t.location
  BY <1>2, FieldNames DEF Typed, t
<1> HIDE DEF looking
<1>11. Others(r, w)
  <2>1. lookups = (lookups + One(LookingUp(s))) - One(LookingUp(req[r]))
    BY <1>2, <1>4, <1>6 DEF LookingUp, One
  <2> QED
    BY <1>2, <1>8, <2>1, Looks
<1>12. Others(r, looking)
  <2>1. lookups + 1 = (lookups + One(LookingUp(t))) - One(LookingUp(req[r]))
    <3>1. LookingUp(t) /\ ~LookingUp(req[r])
      BY <1>4, <1>10 DEF LookingUp
    <3> QED
      BY <1>6, <3>1 DEF One
  <2> QED
    BY <1>8, <1>9, <1>10, <2>1, Looks
<1>13. Own(r, w)
  <2>1. Begun(s)
    BY <1>1, <1>2 DEF Begun
  <2>2. OnWire(s)
    BY <1>2 DEF OnWire
  <2>3. Entry(reg, r, s) /\ Gauge(P!StateOf(mon), r, s)
    BY <1>2, <1>5 DEF Entry, Gauge, AtRest
  <2> QED
    BY <1>8, <2>1, <2>2, <2>3 DEF Own, Layered
<1>14. Own(r, looking)
  <2>1. Begun(t)
    BY <1>1, <1>10 DEF Begun
  <2>2. OnWire(t)
    BY <1>10 DEF OnWire
  <2>3. Entry(reg, r, t)
    <3>1. t.hop = 0 /\ ~t.told
      BY <1>10, Zenon
    <3> QED
      BY <1>5, <3>1 DEF Entry
  <2>4. Gauge(P!StateOf(mon), r, t)
    BY <1>5, <1>10 DEF Gauge, AtRest
  <2> QED
    BY <1>9, <2>1, <2>2, <2>3, <2>4 DEF Own, Layered
<1>15. Fresh(r, w)
  BY <1>1, <1>2, <1>5, <1>8 DEF Fresh, Undispatched
<1>16. Others(r, RequestError(w)) /\ Own(r, RequestError(w))
  <2>1. Mild(RequestError(w), w)
    BY <1>11, Promised DEF Others
  <2> QED
    BY <1>11, <1>13, <2>1, Softens
<1>17. /\ Others(r, Dispatch(w, o)) /\ Own(r, Dispatch(w, o))
       /\ Others(r, DispatchThrows(w)) /\ Own(r, DispatchThrows(w))
  BY <1>1, <1>11, <1>15, Dispatches
<1> QED
  BY <1>7, <1>12, <1>14, <1>16, <1>17, Steps

LEMMA LookupStep == ASSUME IInv, NEW r \in Requests, LookupSettles(r) PROVE IInv'
<1> DEFINE s == req[r]
<1>1. PICK outcome \in {"resolved", "rejected"} :
        Becomes([System(r) EXCEPT !.s.lookup = outcome])
  BY DEF LookupSettles
<1> DEFINE t == [s EXCEPT !.lookup = outcome]
           v == [System(r) EXCEPT !.s = t]
<1>2. Becomes(v)
  <2>1. [System(r) EXCEPT !.s.lookup = outcome] = v
    BY DEF System
  <2> QED
    BY <1>1, <2>1
<1>3. Typed(s) /\ s.lookup = "under way" /\ lookups \in Nat
  BY Present DEF LookupSettles
<1>4. Layered(s) /\ Entry(reg, r, s) /\ Gauge(P!StateOf(mon), r, s)
  BY DEF IInv, Own, System
<1>5. Typed(t)
  BY <1>3, FieldNames DEF Typed
<1>6. /\ t.hop = s.hop /\ t.wire = s.wire /\ t.started = s.started /\ t.told = s.told
      /\ t.ask = s.ask /\ t.hopTold = s.hopTold /\ t.lookup = outcome
      /\ t.location = s.location /\ t.count = s.count /\ t.cut = s.cut
  BY <1>3, FieldNames DEF Typed
<1> HIDE DEF t
<1>7. /\ DOMAIN v = {"r", "s", "reg", "mon", "lookups"} /\ v.r = r /\ v.s = t
      /\ v.reg = reg /\ v.mon = mon /\ v.lookups = lookups
  BY DEF System
<1> HIDE DEF v
<1>8. Others(r, v)
  <2>1. LookingUp(t) /\ LookingUp(s)
    BY <1>3, <1>6 DEF LookingUp
  <2>2. One(LookingUp(t)) = 1 /\ One(LookingUp(s)) = 1
    BY <2>1 DEF One
  <2>3. lookups = (lookups + 1) - 1
    <3>1. lookups \in Nat
      BY Present
    <3> QED
      BY <3>1
  <2>4. lookups = (lookups + One(LookingUp(t))) - One(LookingUp(s))
    BY <2>2, <2>3
  <2> QED
    BY <1>5, <1>7, <2>4, Looks
<1>9. Begun(t)
  BY <1>3, <1>4, <1>6 DEF Layered, Begun
<1>10. OnWire(t)
  BY <1>4, <1>6 DEF Layered, OnWire
<1>11. Entry(reg, r, t)
  BY <1>4, <1>6 DEF Entry
<1>12. Gauge(P!StateOf(mon), r, t)
  BY <1>4, <1>6 DEF Gauge
<1> QED
  BY <1>2, <1>7, <1>8, <1>9, <1>10, <1>11, <1>12, Steps DEF Own, Layered

LEMMA AfterLookupStep ==
  ASSUME IInv, NEW r \in Requests, req[r].started, NEW o \in req[r].ask.to, NEW good,
         AfterLookup(r, o, good)
  PROVE  IInv'
<1> DEFINE s == req[r]
           t == [s EXCEPT !.lookup = "done"]
           x == [t EXCEPT !.told = TRUE]
           w == [System(r) EXCEPT !.s = t, !.lookups = lookups - 1]
           failed == [w EXCEPT !.s = x]
<1>1. \/ Becomes(RequestError(failed)) \/ Becomes(Dispatch(w, o)) \/ Becomes(DispatchThrows(w))
  <2>1. LookupFinishes(System(r)) = w
    BY DEF LookupFinishes, System
  <2>2. [w EXCEPT !.s.told = TRUE] = failed
    <3> HIDE DEF t
    <3> QED
      BY DEF System
  <2> HIDE DEF w, failed
  <2> QED
    BY <2>1, <2>2 DEF AfterLookup
<1>2. Typed(s) /\ s.lookup \in {"resolved", "rejected"} /\ lookups \in Nat
  BY Present DEF AfterLookup
<1>3. Begun(s)
  BY DEF IInv, Own, System, Layered
<1>4. s.hop = 0 /\ ~s.told /\ s.ask \in Ask
  <2>1. s.lookup \in {"under way", "resolved", "rejected"}
    BY <1>2
  <2> QED
    BY <1>3, <2>1, Zenon DEF Begun
<1>5. o \in Origins
  BY <1>4 DEF Ask
<1>6. ~On(reg, r) /\ reg.ends[r] = 0 /\ AtRest(mon, r) /\ s.wire = "none" /\ ~s.location
  BY <1>4, Before
<1>7. Typed(t) /\ Undispatched(t) /\ t.lookup = "done"
  <2>1. Typed(t)
    BY <1>2, FieldNames DEF Typed
  <2>2. /\ t.hop = s.hop /\ t.wire = s.wire /\ t.started = s.started /\ t.told = s.told
        /\ t.ask = s.ask /\ t.lookup = "done" /\ t.location = s.location
    BY <1>2, FieldNames DEF Typed
  <2> HIDE DEF t
  <2> QED
    BY <1>4, <1>6, <2>1, <2>2 DEF Undispatched
<1> HIDE DEF t
<1>8. Typed(x) /\ x.told /\ x.hop = 0 /\ x.wire = "none" /\ x.lookup = "done"
  <2>1. Typed(x)
    BY <1>7, FieldNames DEF Typed
  <2>2. x.told = TRUE /\ x.hop = t.hop /\ x.wire = t.wire /\ x.lookup = t.lookup
    BY <1>7, FieldNames DEF Typed
  <2>3. t.hop = 0 /\ t.wire = "none" /\ t.lookup = "done"
    BY <1>7, Zenon DEF Undispatched, LookingUp
  <2> QED
    BY <2>1, <2>2, <2>3
<1>9. x.ask \in Ask /\ ~x.location /\ x.started
  BY <1>7, FieldNames DEF Typed, Undispatched
<1> HIDE DEF x
<1>10. /\ DOMAIN w = {"r", "s", "reg", "mon", "lookups"} /\ w.r = r /\ w.s = t
       /\ w.reg = reg /\ w.mon = mon /\ w.lookups = lookups - 1
  BY DEF System
<1> HIDE DEF w
<1>11. /\ DOMAIN failed = DOMAIN w /\ failed.r = r /\ failed.s = x
       /\ failed.reg = reg /\ failed.mon = mon /\ failed.lookups = lookups - 1
  BY <1>10
<1> HIDE DEF failed
<1>12. Others(r, w)
  <2>1. ~LookingUp(t) /\ LookingUp(s)
    BY <1>2, <1>7 DEF LookingUp, Undispatched
  <2>2. lookups - 1 = (lookups + One(LookingUp(t))) - One(LookingUp(s))
    BY <1>2, <2>1 DEF One
  <2> QED
    BY <1>7, <1>10, <2>2, Looks
<1>13. Others(r, failed)
  <2>1. ~LookingUp(x) /\ LookingUp(s)
    BY <1>2, <1>8 DEF LookingUp
  <2>2. lookups - 1 = (lookups + One(LookingUp(x))) - One(LookingUp(s))
    BY <1>2, <2>1 DEF One
  <2> QED
    BY <1>8, <1>10, <1>11, <2>2, Looks
<1>14. Fresh(r, w)
  BY <1>6, <1>7, <1>10 DEF Fresh
<1>15. Own(r, failed)
  <2>1. Begun(x)
    BY <1>8, <1>9, Zenon DEF Begun
  <2>2. OnWire(x)
    BY <1>8 DEF OnWire
  <2>3. Entry(reg, r, x)
    BY <1>6, <1>8 DEF Entry
  <2>4. Gauge(P!StateOf(mon), r, x)
    BY <1>6, <1>8 DEF Gauge, AtRest
  <2> QED
    BY <1>11, <2>1, <2>2, <2>3, <2>4 DEF Own, Layered
<1>16. Others(r, RequestError(failed)) /\ Own(r, RequestError(failed))
  <2>1. Mild(RequestError(failed), failed)
    BY <1>13, Promised DEF Others
  <2> QED
    BY <1>13, <1>15, <2>1, Softens
<1>17. /\ Others(r, Dispatch(w, o)) /\ Own(r, Dispatch(w, o))
       /\ Others(r, DispatchThrows(w)) /\ Own(r, DispatchThrows(w))
  BY <1>5, <1>12, <1>14, Dispatches
<1> QED
  BY <1>1, <1>16, <1>17, Steps

LEMMA AbortStep == ASSUME IInv, NEW r \in Requests, Abort(r) PROVE IInv'
<1> DEFINE s == req[r]
           f == [s EXCEPT !.signal = "aborted"]
           fired == [System(r) EXCEPT !.s = f]
           heard == IF s.listening THEN OnAbort(fired) ELSE fired
           h == heard.s
           streams == [k \in Hops |-> IF h.stream[k].watching THEN DestroyStream(h.stream[k])
                                      ELSE h.stream[k]]
           broken == \E k \in {h.hop} \cap Hops :
                       h.stream[k].watching /\ h.stream[k].state = "open"
           t == [h EXCEPT !.lookup = IF h.lookup = "under way" THEN "rejected" ELSE h.lookup,
                          !.stream = streams, !.cut = h.cut \/ broken]
           v == [heard EXCEPT !.s = t]
<1>1. Typed(s) /\ Shape(System(r)) /\ System(r).s = s
  BY Present DEF Others, System
<1>2. Mild(fired, System(r)) /\ Shape(fired)
  <2>1. DOMAIN s = Fields
    BY <1>1 DEF Typed
  <2>2. SameBut(f, s, Soft) /\ f.cut = s.cut
    BY <2>1, FieldNames DEF SameBut, Soft
  <2>3. Typed(f)
    BY <1>1, FieldNames DEF Typed
  <2> HIDE DEF f
  <2>4. Mild(fired, System(r))
    BY <1>1, <2>2, <2>3, Softly
  <2> QED
    BY <2>4 DEF Mild
<1>3. [System(r) EXCEPT !.s.signal = "aborted"] = fired
  BY DEF System
<1> HIDE DEF f, fired
<1>4. Mild(heard, System(r)) /\ Shape(heard)
  <2>1. Mild(heard, System(r))
    BY <1>2, AbortIsHeard, MildTransitive
  <2> QED
    BY <2>1 DEF Mild
<1>5. Becomes(RestHears(heard))
  BY <1>3 DEF Abort
<1> HIDE DEF heard
<1>6. Typed(h) /\ DOMAIN heard = {"r", "s", "reg", "mon", "lookups"} /\ heard.r = r
  BY <1>4 DEF Shape, Mild, System
<1>7. Becomes(v)
  <2>1. RestHears(heard) = v
    BY <1>6, FieldNames DEF Typed, RestHears
  <2> QED
    BY <1>5, <2>1
<1> HIDE DEF streams, broken
<1>8. /\ t.hop = h.hop /\ t.wire = h.wire /\ t.started = h.started /\ t.told = h.told
      /\ t.ask = h.ask /\ t.hopTold = h.hopTold /\ t.location = h.location
      /\ t.count = h.count /\ DOMAIN t = DOMAIN h
  BY <1>6, FieldNames DEF Typed
<1>9. /\ t.lookup = IF h.lookup = "under way" THEN "rejected" ELSE h.lookup
      /\ t.cut = (h.cut \/ broken)
  BY <1>6, FieldNames DEF Typed
<1>10. Typed(t)
  <2>1. /\ t.promise = h.promise /\ t.res = h.res /\ t.signal = h.signal
        /\ t.body = h.body /\ t.target = h.target
    BY <1>6, FieldNames DEF Typed
  <2>2. /\ t.lookup \in {"none", "under way", "resolved", "rejected", "done"}
        /\ t.cut \in BOOLEAN
    BY <1>6, <1>9 DEF Typed
  <2> HIDE DEF t
  <2> QED
    BY <1>6, <1>8, <2>1, <2>2 DEF Typed
<1> HIDE DEF t
<1>11. Others(r, heard) /\ Own(r, heard)
  BY <1>4, Present, Softens
<1>12. /\ DOMAIN v = DOMAIN heard /\ v.r = r /\ v.s = t
       /\ v.reg = heard.reg /\ v.mon = heard.mon /\ v.lookups = heard.lookups
  BY <1>6
<1> HIDE DEF v
<1>13. Others(r, v)
  <2>1. LookingUp(v.s) <=> LookingUp(heard.s)
    BY <1>9, <1>12 DEF LookingUp
  <2>2. Aside(r, v, heard)
    BY <1>12 DEF Aside
  <2>3. Shape(v)
    BY <1>4, <1>10, <1>12 DEF Shape
  <2>4. v.reg \in Log!Registry /\ Log!IsExact(v.reg)
    BY <1>11, <1>12 DEF Others
  <2> QED
    BY <1>11, <1>12, <2>1, <2>2, <2>3, <2>4, Continued
<1>14. Begun(h) /\ OnWire(h) /\ Entry(heard.reg, r, h) /\ Gauge(P!StateOf(heard.mon), r, h)
  BY <1>11 DEF Own, Layered
<1>15. Begun(t)
  BY <1>8, <1>9, <1>14 DEF Begun
<1>16. OnWire(t)
  <2>1. h.cut => t.cut
    BY <1>9
  <2> QED
    BY <1>8, <1>14, <2>1 DEF OnWire
<1>17. Entry(heard.reg, r, t)
  BY <1>8, <1>14 DEF Entry
<1>18. Gauge(P!StateOf(heard.mon), r, t)
  BY <1>8, <1>14 DEF Gauge
<1> QED
  BY <1>7, <1>12, <1>13, <1>15, <1>16, <1>17, <1>18, Steps DEF Own, Layered

-----------------------------------------------------------------------------
(* The bodies of factories.                                                *)

LEMMA Streams ==
  ASSUME NEW w, Shape(w), NEW x, NEW c \in BOOLEAN, w.s.cut => c
  PROVE  /\ Mild([w EXCEPT !.s.stream = x], w)
         /\ Mild([w EXCEPT !.s.stream = x, !.s.cut = c], w)
<1> DEFINE s == w.s
           t == [s EXCEPT !.stream = x]
           u == [s EXCEPT !.stream = x, !.cut = c]
<1>1. DOMAIN s = Fields /\ Typed(s)
  BY DEF Shape, Typed
<1>2. Typed(t) /\ SameBut(t, s, Soft) /\ t.cut = s.cut
  <2>1. Typed(t)
    BY <1>1, FieldNames DEF Typed
  <2>2. SameBut(t, s, Soft) /\ t.cut = s.cut
    BY <1>1, FieldNames DEF SameBut, Soft
  <2> QED
    BY <2>1, <2>2
<1>3. Typed(u) /\ SameBut(u, s, Soft) /\ (s.cut => u.cut)
  <2>1. Typed(u)
    BY <1>1, FieldNames DEF Typed
  <2>2. SameBut(u, s, Soft) /\ u.cut = c
    BY <1>1, FieldNames DEF SameBut, Soft
  <2> QED
    BY <2>1, <2>2
<1>4. [w EXCEPT !.s.stream = x] = [w EXCEPT !.s = t]
  BY DEF Shape
<1>5. [w EXCEPT !.s.stream = x, !.s.cut = c] = [w EXCEPT !.s = u]
  BY DEF Shape
<1> HIDE DEF t, u
<1> QED
  BY <1>2, <1>3, <1>4, <1>5, Softly

LEMMA DestroysBody ==
  ASSUME NEW w, Shape(w)
  PROVE  Mild(DestroyBody(w), w)
<1> DEFINE x == [w.s.stream EXCEPT ![w.s.hop] = DestroyStream(w.s.stream[w.s.hop])]
<1>1. DestroyBody(w) = [w EXCEPT !.s.stream = x]
  BY FieldNames DEF DestroyBody, Shape, Typed
<1>2. w.s.cut \in BOOLEAN
  BY DEF Shape, Typed
<1> HIDE DEF x
<1>3. Mild([w EXCEPT !.s.stream = x], w)
  BY <1>2, Streams
<1> QED
  BY <1>1, <1>3

LEMMA BodySteps ==
  ASSUME IInv, NEW r \in Requests, NEW k \in Hops,
         ConstructStream(r, k) \/ FactorySettles(r, k) \/ BodyEnds(r, k)
  PROVE  IInv'
<1> DEFINE w == System(r)
<1>1. Shape(w) /\ Typed(w.s) /\ w.s = req[r]
  BY Present DEF Others, Shape, System
<1>2. ASSUME NEW b PROVE Mild(WithStream(r, k, b), w)
  <2> DEFINE x == [w.s.stream EXCEPT ![k] = b]
             c == w.s.cut \/ (k = req[r].hop /\ b.state = "closed" /\ b.inner # "read")
  <2>1. WithStream(r, k, b) = [w EXCEPT !.s.stream = x, !.s.cut = c]
    BY <1>1, FieldNames DEF WithStream, Shape, Typed
  <2>2. c \in BOOLEAN /\ (w.s.cut => c)
    BY <1>1 DEF Typed
  <2> HIDE DEF x, c, w
  <2>3. Mild([w EXCEPT !.s.stream = x, !.s.cut = c], w)
    BY <1>1, <2>2, Streams
  <2> QED
    BY <2>1, <2>3
<1>3. ASSUME ConstructStream(r, k) PROVE IInv'
  <2> DEFINE x == [w.s.stream EXCEPT ![k] = Construct(w.s.stream[k])]
  <2>1. [w EXCEPT !.s.stream[k] = Construct(@)] = [w EXCEPT !.s.stream = x]
    BY <1>1, FieldNames DEF Shape, Typed
  <2>2. Becomes([w EXCEPT !.s.stream = x])
    BY <1>3, <2>1 DEF ConstructStream
  <2> HIDE DEF x, w
  <2>3. Mild([w EXCEPT !.s.stream = x], w)
    BY <1>1, Streams DEF Typed
  <2> QED
    BY <2>2, <2>3, StepsMildly DEF w
<1>4. ASSUME FactorySettles(r, k) PROVE IInv'
  BY <1>2, <1>4, StepsMildly DEF FactorySettles
<1>5. ASSUME BodyEnds(r, k) PROVE IInv'
  BY <1>2, <1>5, StepsMildly DEF BodyEnds
<1> QED
  BY <1>3, <1>4, <1>5

-----------------------------------------------------------------------------
(* An attempt that fails.                                                  *)

LEMMA Failing ==
  ASSUME IInv, NEW r \in Requests, NEW w, Others(r, w), UnderWay(w.s),
         w.s.wire # "upgraded", req[r].wire # "upgraded", req[r].wire # "none",
         w.s.hop = req[r].hop, w.s.told = req[r].told, w.s.hopTold = req[r].hopTold,
         w.reg = reg, P!StateOf(w.mon) = P!StateOf(mon), NEW e \in BOOLEAN,
         NEW v, v = PressureError(w, e)
  PROVE  /\ Others(r, v) /\ Begun(v.s) /\ v.s.hopTold /\ v.s.wire = w.s.wire
         /\ Entry(v.reg, r, v.s) /\ Gauge(P!StateOf(v.mon), r, v.s)
<1> DEFINE s == req[r]
<1>1. w.s.hop \in Hops /\ s.hop > 0 /\ Typed(s)
  BY Places, Present DEF UnderWay, Hops
<1>2. Entry(reg, r, s) /\ Gauge(P!StateOf(mon), r, s)
  BY DEF IInv, Own, System
<1>3. /\ Others(r, v) /\ Alike(v.s, w.s) /\ v.s.hopTold
      /\ v.s.told <=> w.s.told \/ ~w.s.hopTold
      /\ P!StateOf(v.mon) = Gone(P!StateOf(w.mon), <<r, w.s.hop>>)
      /\ v.reg = IF w.s.told \/ w.s.hopTold THEN w.reg ELSE Log!Leave(w.reg, r)
  BY <1>1, Errs
<1>4. v.s.wire = w.s.wire /\ v.s.hop = s.hop
  BY <1>3 DEF Alike
<1>5. Begun(v.s)
  <2>1. UnderWay(v.s)
    BY <1>3 DEF Alike, UnderWay
  <2> QED
    BY <2>1, UnderWayIsBegun
<1>6. Entry(v.reg, r, v.s)
  <2>1. On(reg, r) <=> ~s.told
    BY <1>1, <1>2 DEF Entry
  <2>2. CASE s.told
    BY <1>1, <1>2, <1>3, <1>4, <2>1, <2>2 DEF Entry
  <2>3. CASE ~s.told /\ s.hopTold
    BY <1>1, <1>2, <1>3, <1>4, <2>1, <2>3 DEF Entry
  <2>4. CASE ~s.told /\ ~s.hopTold
    <3>1. v.reg = Log!Leave(reg, r) /\ v.s.told
      BY <1>3, <2>4
    <3>2. reg.ends[r] = 0 /\ On(reg, r)
      BY <1>2, <2>1, <2>4 DEF Entry
    <3>3. ~On(v.reg, r) /\ v.reg.ends[r] = 1
      BY <3>1, <3>2, Leaves DEF IInv
    <3> QED
      BY <1>1, <1>4, <3>1, <3>3 DEF Entry
  <2> QED
    BY <2>2, <2>3, <2>4
<1>7. Gauge(P!StateOf(v.mon), r, v.s)
  <2>1. \A k \in Hops : P!StateOf(v.mon)[<<r, k>>] \notin {"pending", "running"}
    <3> TAKE k \in Hops
    <3>1. P!StateOf(v.mon) = Gone(P!StateOf(mon), <<r, s.hop>>) /\ <<r, k>> \in Attempts
      BY <1>3 DEF Attempts
    <3>2. CASE k = s.hop
      BY <3>1, <3>2, Elsewhere
    <3>3. CASE k # s.hop
      <4>1. P!StateOf(v.mon)[<<r, k>>] = P!StateOf(mon)[<<r, k>>]
        BY <3>1, <3>3, Elsewhere
      <4> QED
        BY <1>2, <3>3, <4>1 DEF Gauge
    <3> QED
      BY <3>2, <3>3
  <2> QED
    BY <1>3, <2>1 DEF Gauge
<1> QED
  BY <1>3, <1>4, <1>5, <1>6, <1>7

LEMMA OnTheWire ==
  ASSUME IInv, NEW r \in Requests, req[r].wire # "none"
  PROVE  /\ Typed(req[r]) /\ UnderWay(req[r]) /\ OnWire(req[r]) /\ req[r].hop > 0
         /\ Entry(reg, r, req[r]) /\ Gauge(P!StateOf(mon), r, req[r])
<1>1. Typed(req[r]) /\ Begun(req[r]) /\ OnWire(req[r])
  BY DEF IInv, Own, System, Layered
<1>2. Entry(reg, r, req[r]) /\ Gauge(P!StateOf(mon), r, req[r])
  BY DEF IInv, Own, System
<1>3. UnderWay(req[r])
  BY <1>1, BegunIsUnderWay
<1>4. req[r].hop > 0
  BY <1>3, Places DEF UnderWay, Hops
<1> QED
  BY <1>1, <1>2, <1>3, <1>4

(* The same request with another transport.                                *)
Wired(r, v, x) ==
  /\ UnderWay(v.s) /\ v.s.wire = x
  /\ v.s.hop = req[r].hop /\ v.s.told = req[r].told /\ v.s.hopTold = req[r].hopTold
  /\ v.s.location = req[r].location /\ v.s.count = req[r].count
  /\ v.s.ask = req[r].ask /\ v.s.cut = req[r].cut
  /\ v.reg = reg /\ v.mon = mon

LEMMA Rewired ==
  ASSUME IInv, NEW r \in Requests, req[r].wire # "none",
         NEW x \in {"connected", "headers", "upgraded", "closed"},
         NEW v, v = [System(r) EXCEPT !.s.wire = x]
  PROVE  Others(r, v) /\ Wired(r, v, x)
<1> DEFINE s == req[r]
           t == [s EXCEPT !.wire = x]
<1>1. v = [System(r) EXCEPT !.s = t]
  BY DEF System
<1>2. Typed(s) /\ UnderWay(s)
  BY OnTheWire
<1>3. /\ t.wire = x /\ t.hop = s.hop /\ t.told = s.told /\ t.hopTold = s.hopTold
      /\ t.location = s.location /\ t.count = s.count /\ t.ask = s.ask /\ t.cut = s.cut
      /\ t.lookup = s.lookup /\ t.started = s.started
  BY <1>2, FieldNames DEF Typed
<1>4. Typed(t)
  BY <1>2, FieldNames DEF Typed
<1> HIDE DEF t
<1>5. UnderWay(t)
  BY <1>2, <1>3 DEF UnderWay
<1>6. /\ DOMAIN v = {"r", "s", "reg", "mon", "lookups"} /\ v.r = r /\ v.s = t
      /\ v.reg = reg /\ v.mon = mon /\ v.lookups = lookups
  BY <1>1 DEF System
<1>7. Others(r, v)
  <2>1. lookups \in Nat
    BY Present
  <2>2. One(LookingUp(t)) = One(LookingUp(s)) /\ One(LookingUp(t)) \in Nat
    BY <1>3 DEF LookingUp, One
  <2>3. lookups = (lookups + One(LookingUp(t))) - One(LookingUp(s))
    BY <2>1, <2>2
  <2> QED
    BY <1>4, <1>6, <2>3, Looks
<1> QED
  BY <1>3, <1>5, <1>6, <1>7 DEF Wired

LEMMA AttemptIsOver ==
  ASSUME IInv, NEW r \in Requests, req[r].wire # "none",
         NEW v, v = Over(r)
  PROVE  /\ Others(r, v) /\ UnderWay(v.s) /\ v.s.wire = "closed"
         /\ v.s.hop = req[r].hop /\ v.s.told = req[r].told /\ v.s.hopTold = req[r].hopTold
         /\ v.s.location = req[r].location /\ v.s.count = req[r].count
         /\ v.reg = reg /\ P!StateOf(v.mon) = P!StateOf(mon)
<1> DEFINE b == [System(r) EXCEPT !.s.wire = "closed"]
<1>1. v = DestroyBody(b) /\ b = [System(r) EXCEPT !.s.wire = "closed"]
  BY DEF Over
<1> HIDE DEF b
<1>2. Others(r, b) /\ Wired(r, b, "closed")
  BY <1>1, Rewired
<1>3. Mild(v, b) /\ Shape(b)
  BY <1>1, <1>2, DestroysBody DEF Others
<1>4. Others(r, v)
  BY <1>2, <1>3, Softens
<1>5. /\ Alike(v.s, b.s) /\ v.s.told = b.s.told /\ v.s.hopTold = b.s.hopTold
      /\ v.reg = b.reg /\ P!StateOf(v.mon) = P!StateOf(b.mon)
  BY <1>3, Resembles
<1>6. UnderWay(v.s)
  BY <1>2, <1>5 DEF UnderWay, Alike, Wired
<1> QED
  BY <1>2, <1>4, <1>5, <1>6 DEF Alike, Wired

LEMMA FailStep == ASSUME IInv, NEW r \in Requests, Fail(r) PROVE IInv'
<1>1. PICK ofAbort \in BOOLEAN : Becomes(PressureError(Over(r), ofAbort))
  BY Present, OnTheWire DEF Fail, UnderWay, Ask
<1> DEFINE w == Over(r)
           v == PressureError(w, ofAbort)
<1>2. req[r].wire \in {"queued", "connected", "headers"}
  BY DEF Fail
<1>3. /\ Others(r, w) /\ UnderWay(w.s) /\ w.s.wire = "closed"
      /\ w.s.hop = req[r].hop /\ w.s.told = req[r].told /\ w.s.hopTold = req[r].hopTold
      /\ w.reg = reg /\ P!StateOf(w.mon) = P!StateOf(mon)
  BY <1>2, AttemptIsOver
<1> HIDE DEF w
<1>4. /\ Others(r, v) /\ Begun(v.s) /\ v.s.hopTold /\ v.s.wire = w.s.wire
      /\ Entry(v.reg, r, v.s) /\ Gauge(P!StateOf(v.mon), r, v.s)
  BY <1>2, <1>3, Failing
<1> HIDE DEF v
<1>5. OnWire(v.s)
  BY <1>3, <1>4 DEF OnWire
<1> QED
  BY <1>1, <1>4, <1>5, Steps DEF Own, Layered, w, v

LEMMA LateRejectionStep == ASSUME IInv, NEW r \in Requests, LateRejection(r) PROVE IInv'
<1> DEFINE w == DestroyBody(System(r))
           v == PressureError(w, FALSE)
<1>1. Becomes(v) /\ req[r].wire = "closed"
  BY DEF LateRejection
<1>2. Others(r, System(r)) /\ Mild(w, System(r)) /\ Shape(System(r))
  BY Present, DestroysBody DEF Others
<1>3. UnderWay(req[r]) /\ System(r).s = req[r] /\ System(r).reg = reg /\ System(r).mon = mon
  BY <1>1, OnTheWire DEF System
<1> HIDE DEF w
<1>4. /\ Others(r, w) /\ Alike(w.s, req[r]) /\ w.s.told = req[r].told
      /\ w.s.hopTold = req[r].hopTold /\ w.reg = reg /\ P!StateOf(w.mon) = P!StateOf(mon)
  BY <1>2, <1>3, Softens, Resembles
<1>5. UnderWay(w.s) /\ w.s.wire = "closed" /\ w.s.hop = req[r].hop
  BY <1>1, <1>3, <1>4 DEF UnderWay, Alike
<1>6. /\ Others(r, v) /\ Begun(v.s) /\ v.s.hopTold /\ v.s.wire = w.s.wire
      /\ Entry(v.reg, r, v.s) /\ Gauge(P!StateOf(v.mon), r, v.s)
  BY <1>1, <1>4, <1>5, Failing
<1> HIDE DEF v
<1>7. OnWire(v.s)
  BY <1>5, <1>6 DEF OnWire
<1> QED
  BY <1>1, <1>6, <1>7, Steps DEF Own, Layered

LEMMA OverrunStep == ASSUME IInv, NEW r \in Requests, Overrun(r) PROVE IInv'
<1> DEFINE w == System(r)
           p == PressureError(w, FALSE)
           v == [p EXCEPT !.s.cut = TRUE]
<1>1. Becomes(v) /\ req[r].wire = "headers"
  BY DEF Overrun
<1>2. Others(r, w) /\ UnderWay(req[r]) /\ w.s = req[r] /\ w.reg = reg /\ w.mon = mon
  BY <1>1, OnTheWire, Present DEF System
<1> HIDE DEF w
<1>3. /\ Others(r, p) /\ Begun(p.s) /\ p.s.hopTold /\ p.s.wire = w.s.wire
      /\ Entry(p.reg, r, p.s) /\ Gauge(P!StateOf(p.mon), r, p.s)
  BY <1>1, <1>2, Failing
<1> HIDE DEF p
<1>4. Mild(v, p) /\ Others(r, v)
  <2>1. Mild(v, p)
    BY <1>3, Cuts DEF Others
  <2> HIDE DEF v
  <2> QED
    BY <1>3, <2>1, Softens
<1>5. v.s.cut
  BY <1>3, FieldNames DEF Others, Shape, Typed
<1>6. DOMAIN p.s = Fields /\ SameBut(v.s, p.s, Soft)
  BY <1>3, <1>4 DEF Others, Shape, Typed, Mild
<1>7. /\ v.s.hop = p.s.hop /\ v.s.wire = p.s.wire /\ v.s.started = p.s.started
      /\ v.s.told = p.s.told /\ v.s.lookup = p.s.lookup /\ v.s.ask = p.s.ask
      /\ v.s.hopTold = p.s.hopTold /\ v.s.location = p.s.location /\ v.s.count = p.s.count
      /\ v.reg = p.reg /\ P!StateOf(v.mon) = P!StateOf(p.mon)
  BY <1>4, <1>6, Hard DEF Mild
<1> HIDE DEF v
<1>8. Begun(v.s)
  BY <1>3, <1>7 DEF Begun
<1>9. OnWire(v.s)
  BY <1>1, <1>2, <1>3, <1>5, <1>7 DEF OnWire
<1>10. Entry(v.reg, r, v.s)
  BY <1>3, <1>7 DEF Entry
<1>11. Gauge(P!StateOf(v.mon), r, v.s)
  BY <1>3, <1>7 DEF Gauge
<1> QED
  BY <1>1, <1>4, <1>8, <1>9, <1>10, <1>11, Steps DEF Own, Layered

-----------------------------------------------------------------------------
(* An attempt that becomes a socket of the caller's.                       *)

LEMMA Rests ==
  ASSUME NEW r \in Requests, NEW states, NEW t, t.hopTold \/ t.wire \in {"upgraded", "closed"},
         \A k \in Hops : states[<<r, k>>] \notin {"pending", "running"}
  PROVE  Gauge(states, r, t)
BY DEF Gauge

LEMMA SettledIsAtRest ==
  ASSUME IInv, NEW r \in Requests, NEW states,
         states = Gone(P!StateOf(mon), <<r, req[r].hop>>)
  PROVE  \A k \in Hops : states[<<r, k>>] \notin {"pending", "running"}
<1> TAKE k \in Hops
<1>1. Gauge(P!StateOf(mon), r, req[r]) /\ <<r, k>> \in Attempts
  BY DEF IInv, Own, System, Attempts
<1>2. CASE k = req[r].hop
  BY <1>1, <1>2, Elsewhere
<1>3. CASE k # req[r].hop
  <2>1. states[<<r, k>>] = P!StateOf(mon)[<<r, k>>]
    BY <1>1, <1>3, Elsewhere
  <2> QED
    BY <1>1, <1>3, <2>1 DEF Gauge
<1> QED
  BY <1>2, <1>3

LEMMA UpgradeStep == ASSUME IInv, NEW r \in Requests, Upgrade(r) PROVE IInv'
<1> DEFINE s == req[r]
           t == [s EXCEPT !.wire = "upgraded", !.hopTold = TRUE, !.told = TRUE]
           w == [System(r) EXCEPT !.s = t]
           v == [w EXCEPT !.mon = Pressure!Settle(mon, <<r, s.hop>>, FALSE)]
<1>1. s.wire = "connected"
  BY DEF Upgrade
<1>2. /\ Typed(s) /\ UnderWay(s) /\ OnWire(s) /\ s.hop > 0 /\ Entry(reg, r, s)
  BY <1>1, OnTheWire
<1>3. /\ t.wire = "upgraded" /\ t.told = TRUE /\ t.hopTold = TRUE /\ t.hop = s.hop
      /\ t.lookup = s.lookup /\ t.started = s.started /\ t.ask = s.ask
  BY <1>2, FieldNames DEF Typed
<1>4. Typed(t)
  BY <1>2, FieldNames DEF Typed
<1>5. Becomes(v)
  <2>1. [System(r) EXCEPT !.s.wire = "upgraded", !.s.hopTold = TRUE, !.s.told = TRUE] = w
    BY DEF System
  <2> HIDE DEF t
  <2>2. Attempt(w) = <<r, s.hop>> /\ w.mon = mon
    BY <1>3 DEF Attempt, System
  <2> HIDE DEF w
  <2> QED
    BY <2>1, <2>2 DEF Upgrade
<1> HIDE DEF t
<1>6. /\ DOMAIN v = {"r", "s", "reg", "mon", "lookups"} /\ v.r = r /\ v.s = t
      /\ v.reg = reg /\ v.mon = Pressure!Settle(mon, <<r, s.hop>>, FALSE)
      /\ v.lookups = lookups
  BY DEF System
<1>7. Others(r, System(r)) /\ System(r).s = s /\ System(r).r = r /\ System(r).reg = reg
      /\ System(r).mon = mon /\ System(r).lookups = lookups
  BY Present DEF System
<1> HIDE DEF v, w
<1>8. Others(r, v) /\ P!StateOf(v.mon) = Gone(P!StateOf(mon), <<r, s.hop>>)
  <2> DEFINE u == System(r)
  <2>1. Others(r, u) /\ u.s.hop \in Hops
    BY <1>2, <1>7 DEF UnderWay
  <2>2. v.r = u.r /\ v.reg = u.reg /\ v.lookups = u.lookups
    BY <1>6, <1>7
  <2>3. v.mon = Pressure!Settle(u.mon, <<r, u.s.hop>>, FALSE)
    BY <1>6, <1>7
  <2>4. Typed(v.s) /\ v.s.lookup = u.s.lookup
    BY <1>3, <1>4, <1>6, <1>7
  <2>5. P!StateOf(u.mon) = P!StateOf(mon) /\ u.s.hop = s.hop
    BY <1>7
  <2> HIDE DEF u
  <2>6. Others(r, v) /\ P!StateOf(v.mon) = Gone(P!StateOf(u.mon), <<r, u.s.hop>>)
    BY <1>6, <2>1, <2>2, <2>3, <2>4, Settles
  <2> QED
    BY <2>5, <2>6
<1>9. UnderWay(t)
  BY <1>2, <1>3 DEF UnderWay
<1>10. Begun(t)
  BY <1>9, UnderWayIsBegun
<1>11. OnWire(t)
  BY <1>3 DEF OnWire
<1>12. Entry(reg, r, t)
  <2>1. ~s.told
    BY <1>1, <1>2 DEF OnWire
  <2>2. On(reg, r) /\ reg.ends[r] = 0
    BY <1>2, <2>1 DEF Entry
  <2> QED
    BY <1>2, <1>3, <2>2 DEF Entry
<1>13. Gauge(P!StateOf(v.mon), r, t)
  BY <1>3, <1>8, Rests, SettledIsAtRest
<1> QED
  BY <1>5, <1>6, <1>8, <1>10, <1>11, <1>12, <1>13, Steps DEF Own, Layered

LEMMA SocketStep == ASSUME IInv, NEW r \in Requests, SocketCloses(r) PROVE IInv'
<1> DEFINE b == [System(r) EXCEPT !.s.wire = "closed"]
           v == LogDone(b)
           g == Log!Leave(reg, r)
<1>1. Becomes(v) /\ req[r].wire = "upgraded"
  BY DEF SocketCloses
<1>2. /\ Typed(req[r]) /\ OnWire(req[r]) /\ req[r].hop > 0
      /\ Entry(reg, r, req[r]) /\ Gauge(P!StateOf(mon), r, req[r])
  BY <1>1, OnTheWire
<1>3. b = [System(r) EXCEPT !.s.wire = "closed"]
  OBVIOUS
<1> HIDE DEF b
<1>4. Others(r, b) /\ Wired(r, b, "closed")
  BY <1>1, <1>3, Rewired
<1>5. /\ DOMAIN v = {"r", "s", "reg", "mon", "lookups"} /\ v.r = r /\ v.s = b.s
      /\ v.reg = g /\ v.mon = mon /\ v.lookups = b.lookups
  BY <1>4 DEF LogDone, Others, Shape, Wired
<1> HIDE DEF v, g
<1>6. /\ g \in Log!Registry /\ Log!IsExact(g) /\ ~On(g, r)
      /\ \A q \in Requests \ {r} : On(g, q) <=> On(reg, q)
      /\ \A q \in Requests : g.ends[q] = reg.ends[q] + (IF q = r /\ On(reg, r) THEN 1 ELSE 0)
  BY Leaves DEF IInv, g
<1>7. \A q \in Requests : reg.ends[q] \in Nat
  BY DEF IInv, Log!Registry
<1>8. Aside(r, v, b)
  <2>1. \A q \in Requests \ {r} : g.ends[q] = reg.ends[q]
    BY <1>6, <1>7
  <2> QED
    BY <1>4, <1>5, <1>6, <2>1 DEF Aside, Wired
<1>9. Others(r, v)
  <2>1. Shape(v)
    BY <1>4, <1>5 DEF Shape, Others, Wired
  <2> QED
    BY <1>4, <1>5, <1>6, <1>8, <2>1, Continued
<1>10. v.s.told /\ v.s.hop = req[r].hop /\ v.s.wire = "closed" /\ v.s.hopTold = req[r].hopTold
  BY <1>1, <1>2, <1>4, <1>5 DEF Wired, OnWire
<1>11. Begun(v.s)
  BY <1>4, <1>5, UnderWayIsBegun DEF Wired
<1>12. OnWire(v.s)
  BY <1>1, <1>2, <1>10 DEF OnWire
<1>13. Entry(v.reg, r, v.s)
  <2>1. On(reg, r) /\ reg.ends[r] = 0
    BY <1>1, <1>2 DEF Entry
  <2>2. g.ends[r] = 1
    BY <1>6, <2>1
  <2> QED
    BY <1>2, <1>5, <1>6, <1>10, <2>2 DEF Entry
<1>14. Gauge(P!StateOf(v.mon), r, v.s)
  <2>1. \A k \in Hops : P!StateOf(mon)[<<r, k>>] \notin {"pending", "running"}
    BY <1>1, <1>2 DEF Gauge
  <2> QED
    BY <1>5, <1>10, <2>1, Rests
<1> QED
  BY <1>1, <1>9, <1>11, <1>12, <1>13, <1>14, Steps DEF Own, Layered

-----------------------------------------------------------------------------
(* An attempt that connects, and its headers.                              *)

Running(states, h) == [states EXCEPT ![h] = "running"]

LEMMA RunsElsewhere ==
  ASSUME NEW m, NEW h, NEW g \in Attempts
  PROVE  Running(P!StateOf(m), h)[g] = IF g = h THEN "running" ELSE P!StateOf(m)[g]
BY DEF Running, P!StateOf

LEMMA Connecting ==
  ASSUME IInv, NEW r \in Requests, NEW w, Others(r, w), Own(r, w),
         w.s.wire \in {"queued", "connected"}
  PROVE  Others(r, Connects(w)) /\ Own(r, Connects(w))
<1> DEFINE s == w.s
           n == Pressure!Connected(w.mon, Attempt(w))
           b == IF s.body = "live" /\ s.sends = "stream" THEN "disturbed" ELSE s.body
           t == [s EXCEPT !.wire = "connected", !.hopTold = FALSE, !.body = b]
           met == [w EXCEPT !.mon = n, !.s = t]
           x == [t EXCEPT !.cancelled = FALSE]
           free == [met EXCEPT !.s = x]
<1>1. /\ DOMAIN w = {"r", "s", "reg", "mon", "lookups"} /\ w.r = r /\ Typed(s) /\ Begun(s)
      /\ OnWire(s) /\ P!Sound(w.mon) /\ Entry(w.reg, r, s) /\ Gauge(P!StateOf(w.mon), r, s)
  BY DEF Others, Shape, Own, Layered
<1>2. UnderWay(s)
  BY <1>1, BegunIsUnderWay
<1>3. s.hop \in Hops /\ s.hop > 0 /\ ~s.hopTold /\ ~s.told /\ ~s.location /\ s.hop <= s.count + 1
  <2>1. s.hop \in Hops /\ s.hop > 0
    BY <1>2, Places DEF UnderWay, Hops
  <2> QED
    BY <1>1, <2>1 DEF OnWire
<1>4. /\ t.wire = "connected" /\ t.hopTold = FALSE /\ t.hop = s.hop /\ t.told = s.told
      /\ t.location = s.location /\ t.count = s.count /\ t.ask = s.ask
      /\ t.lookup = s.lookup /\ t.started = s.started /\ t.cut = s.cut
      /\ DOMAIN t = DOMAIN s
  BY <1>1, FieldNames DEF Typed
<1>5. Typed(t)
  <2>1. t.promise = s.promise /\ t.res = s.res /\ t.signal = s.signal /\ t.target = s.target
    BY <1>1, FieldNames DEF Typed
  <2>2. t.body \in {"none", "live", "disturbed", "destroyed"}
    <3>1. t.body = b
      BY <1>1, FieldNames DEF Typed
    <3> QED
      BY <1>1, <3>1 DEF Typed
  <2> HIDE DEF t, b
  <2> QED
    BY <1>1, <1>4, <2>1, <2>2 DEF Typed
<1>6. Connects(w) = IF s.ask.follow # "off" THEN RedirectConnect(met) ELSE RequestConnect(free)
  <2>1. [met EXCEPT !.s.cancelled = FALSE] = free
    BY <1>1
  <2> DEFINE M == [w EXCEPT
                     !.mon = Pressure!Connected(@, Attempt(w)),
                     !.s = [s EXCEPT !.wire = "connected", !.hopTold = FALSE,
                                     !.body = IF @ = "live" /\ s.sends = "stream"
                                              THEN "disturbed" ELSE @]]
  <2>2. M = met
    BY <1>1, FieldNames DEF Typed
  <2>3. Connects(w) = IF s.ask.follow # "off" THEN RedirectConnect(M)
                      ELSE RequestConnect([M EXCEPT !.s.cancelled = FALSE])
    BY Zenon DEF Connects
  <2> HIDE DEF M, met, free, t, n
  <2> QED
    BY <2>1, <2>2, <2>3
<1>7. P!Sound(n) /\ P!StateOf(n) = Running(P!StateOf(w.mon), <<r, s.hop>>)
  <2>1. <<r, s.hop>> \in P!Live(w.mon)
    <3>1. P!StateOf(w.mon)[<<r, s.hop>>] \in {"pending", "running"}
      BY <1>1, <1>3 DEF Gauge
    <3> QED
      BY <1>3, <3>1 DEF P!Live, P!StateOf, Attempts
  <2>2. n = Pressure!Connected(w.mon, <<r, s.hop>>)
    BY <1>1 DEF Attempt
  <2> HIDE DEF n
  <2> QED
    BY <1>1, <2>1, <2>2, MonitorIsTold DEF Running
<1> HIDE DEF n, b
<1>8. /\ DOMAIN met = DOMAIN w /\ met.r = r /\ met.s = t
      /\ met.reg = w.reg /\ met.mon = n /\ met.lookups = w.lookups
  BY <1>1
<1> HIDE DEF t
<1> HIDE DEF met
<1>9. Shape(met)
  BY <1>1, <1>5, <1>7, <1>8 DEF Shape
<1>10. Others(r, met)
  <2>1. \A q \in Requests \ {r}, k \in Hops :
          P!StateOf(n)[<<q, k>>] = P!StateOf(w.mon)[<<q, k>>]
    BY <1>7, RunsElsewhere DEF Attempts
  <2>2. Aside(r, met, w)
    BY <1>8, <2>1 DEF Aside
  <2>3. met.reg \in Log!Registry /\ Log!IsExact(met.reg)
    BY <1>8 DEF Others
  <2> QED
    BY <1>4, <1>8, <1>9, <2>2, <2>3, Continued DEF LookingUp
<1>11. Own(r, met)
  <2>1. UnderWay(t)
    BY <1>2, <1>4 DEF UnderWay
  <2>2. Begun(t)
    BY <2>1, UnderWayIsBegun
  <2>3. OnWire(t)
    BY <1>3, <1>4 DEF OnWire
  <2>4. Entry(w.reg, r, t)
    BY <1>1, <1>3, <1>4 DEF Entry
  <2>5. Gauge(P!StateOf(n), r, t)
    <3>1. \A k \in Hops : P!StateOf(n)[<<r, k>>] = IF k = s.hop THEN "running"
                                                   ELSE P!StateOf(w.mon)[<<r, k>>]
      BY <1>7, RunsElsewhere DEF Attempts
    <3> QED
      BY <1>1, <1>4, <3>1 DEF Gauge
  <2> QED
    BY <1>8, <2>2, <2>3, <2>4, <2>5 DEF Own, Layered
<1>12. Mild(RedirectConnect(met), met)
  BY <1>3, <1>4, <1>8, <1>9, Connections
<1>13. Mild(free, met)
  <2>1. SameBut(x, t, Soft) /\ x.cut = t.cut
    BY <1>5, FieldNames DEF SameBut, Soft, Typed
  <2>2. Typed(x)
    BY <1>5, FieldNames DEF Typed
  <2> HIDE DEF x
  <2> QED
    BY <1>8, <1>9, <2>1, <2>2, Softly
<1> HIDE DEF free
<1>14. Mild(RequestConnect(free), met)
  BY <1>13, Connections, MildTransitive DEF Mild
<1> QED
  BY <1>6, <1>10, <1>11, <1>12, <1>14, Softens

LEMMA ConnectSteps ==
  ASSUME IInv, NEW r \in Requests, Connect(r) \/ Reconnect(r)
  PROVE  IInv'
<1>1. Others(r, System(r)) /\ Own(r, System(r)) /\ System(r).s = req[r]
  BY Present DEF System
<1>2. ASSUME Connect(r) PROVE IInv'
  BY <1>1, <1>2, Connecting, Steps DEF Connect
<1>3. ASSUME Reconnect(r) PROVE IInv'
  <2> DEFINE t == [req[r] EXCEPT !.again = TRUE]
             w == [System(r) EXCEPT !.s = t]
  <2>1. Typed(req[r]) /\ Shape(System(r))
    BY <1>1 DEF Others, Shape
  <2>2. SameBut(t, req[r], Soft) /\ t.cut = req[r].cut /\ t.wire = req[r].wire
    BY <2>1, FieldNames DEF SameBut, Soft, Typed
  <2>3. Typed(t)
    BY <2>1, FieldNames DEF Typed
  <2>4. [System(r) EXCEPT !.s.again = TRUE] = w
    BY DEF System
  <2>5. Becomes(Connects(w)) /\ req[r].wire = "connected"
    BY <1>3, <2>4 DEF Reconnect
  <2>6. w.s = t
    BY DEF System
  <2> HIDE DEF t
  <2>7. Mild(w, System(r))
    BY <1>1, <2>1, <2>2, <2>3, Softly
  <2> HIDE DEF w
  <2>8. Others(r, w) /\ Own(r, w)
    BY <1>1, <2>7, Softens
  <2>9. w.s.wire = "connected"
    BY <2>2, <2>5, <2>6
  <2> QED
    BY <2>5, <2>8, <2>9, Connecting, Steps
<1> QED
  BY <1>2, <1>3

(* redirect takes note of a response.                                      *)
LEMMA Recounted ==
  ASSUME IInv, NEW r \in Requests, NEW w, Others(r, w), Own(r, w),
         w.s.wire = "headers", ~w.s.hopTold, NEW t, Typed(t),
         SameBut(t, w.s, Soft \cup {"location", "count"}),
         t.location => t.cut \/ (w.s.hop < MaxHops /\ w.s.hop <= t.count),
         NEW v, v = [w EXCEPT !.s = t]
  PROVE  Others(r, v) /\ Own(r, v)
<1> DEFINE s == w.s
<1>1. /\ DOMAIN w = {"r", "s", "reg", "mon", "lookups"} /\ w.r = r /\ Typed(s) /\ Begun(s)
      /\ OnWire(s) /\ P!Sound(w.mon) /\ Entry(w.reg, r, s) /\ Gauge(P!StateOf(w.mon), r, s)
      /\ w.reg \in Log!Registry /\ Log!IsExact(w.reg)
  BY DEF Others, Shape, Own, Layered
<1>2. /\ t.hop = s.hop /\ t.wire = s.wire /\ t.told = s.told /\ t.hopTold = s.hopTold
      /\ t.lookup = s.lookup /\ t.started = s.started /\ t.ask = s.ask
  <2>1. DOMAIN s = Fields
    BY <1>1 DEF Typed
  <2> QED
    BY <2>1, FieldNames DEF SameBut, Soft
<1>3. UnderWay(s)
  BY <1>1, BegunIsUnderWay
<1>4. Begun(t)
  <2>1. UnderWay(t)
    BY <1>2, <1>3 DEF UnderWay
  <2> QED
    BY <2>1, UnderWayIsBegun
<1>5. OnWire(t)
  <2>1. ~s.told
    BY <1>1, <1>3, Places DEF OnWire, UnderWay, Hops
  <2> QED
    BY <1>2, <2>1 DEF OnWire
<1>6. Entry(w.reg, r, t)
  BY <1>1, <1>2 DEF Entry
<1>7. Gauge(P!StateOf(w.mon), r, t)
  BY <1>1, <1>2 DEF Gauge
<1>8. /\ DOMAIN v = DOMAIN w /\ v.r = r /\ v.s = t
      /\ v.reg = w.reg /\ v.mon = w.mon /\ v.lookups = w.lookups
  BY <1>1
<1>9. Others(r, v)
  <2>1. Shape(v) /\ Aside(r, v, w)
    BY <1>1, <1>8 DEF Shape, Aside
  <2> QED
    BY <1>1, <1>2, <1>8, <2>1, Continued DEF LookingUp
<1> QED
  BY <1>4, <1>5, <1>6, <1>7, <1>8, <1>9 DEF Own, Layered

LEMMA Redirecting ==
  ASSUME IInv, NEW r \in Requests, NEW w, Others(r, w), Own(r, w),
         w.s.wire = "headers", ~w.s.hopTold, w.s.hop <= w.s.count + 1,
         w.s.ask.follow \in {"limit", "policy"},
         NEW seeOther \in BOOLEAN, NEW located \in BOOLEAN, NEW accepts \in BOOLEAN,
         accepts /\ w.s.ask.follow = "policy" => w.s.hop < MaxHops,
         ~accepts => w.s.ask.follow = "policy"
  PROVE  /\ Others(r, RedirectHeaders(w, seeOther, located, accepts))
         /\ Own(r, RedirectHeaders(w, seeOther, located, accepts))
<1> DEFINE s == w.s
           c == [s EXCEPT !.location = TRUE, !.count = s.count + 1]
           kept == [w EXCEPT !.s = c]
           c1 == [c EXCEPT !.location = FALSE]
           c2 == [c EXCEPT !.cut = TRUE]
           c3 == [c EXCEPT !.sends = "none"]
           v == RedirectHeaders(w, seeOther, located, accepts)
           follows == located /\ (s.ask.follow = "policy" => accepts)
                      /\ ~(accepts /\ s.ask.follow = "limit" /\ s.count + 1 >= MaxHops)
<1>1. /\ DOMAIN w = {"r", "s", "reg", "mon", "lookups"} /\ Typed(s) /\ DOMAIN s = Fields
  BY DEF Others, Shape, Typed
<1>2. Typed(c) /\ c.count = s.count + 1 /\ c.count \in Nat /\ c.cut = s.cut
  <2>1. s.count + 1 \in Nat
    <3>1. s.count \in Nat
      BY <1>1 DEF Typed
    <3> QED
      BY <3>1
  <2> QED
    BY <1>1, <2>1, FieldNames DEF Typed
<1>3. SameBut(c, s, Soft \cup {"location", "count"}) /\ DOMAIN c = Fields
  BY <1>1, FieldNames DEF SameBut
<1>4. /\ [w EXCEPT !.s.location = TRUE, !.s.count = @ + 1] = kept
      /\ [kept EXCEPT !.s.location = FALSE] = [w EXCEPT !.s = c1]
      /\ [kept EXCEPT !.s.cut = TRUE] = [w EXCEPT !.s = c2]
      /\ [kept EXCEPT !.s.sends = "none"] = [w EXCEPT !.s = c3]
  <2>1. [w EXCEPT !.s.location = TRUE, !.s.count = @ + 1] = kept
    BY <1>1, FieldNames
  <2> HIDE DEF c
  <2>2. [kept EXCEPT !.s.location = FALSE] = [w EXCEPT !.s = c1]
    BY <1>1
  <2>3. [kept EXCEPT !.s.cut = TRUE] = [w EXCEPT !.s = c2]
    BY <1>1
  <2>4. [kept EXCEPT !.s.sends = "none"] = [w EXCEPT !.s = c3]
    BY <1>1
  <2> QED
    BY <2>1, <2>2, <2>3, <2>4
<1>5. /\ Typed(c1) /\ SameBut(c1, s, Soft \cup {"location", "count"}) /\ ~c1.location
  <2> HIDE DEF c
  <2>1. Typed(c1)
    BY <1>2, <1>3, FieldNames DEF Typed
  <2>2. SameBut(c1, s, Soft \cup {"location", "count"}) /\ ~c1.location
    BY <1>3, FieldNames DEF SameBut
  <2> QED
    BY <2>1, <2>2
<1>6. /\ Typed(c2) /\ SameBut(c2, s, Soft \cup {"location", "count"}) /\ c2.cut
  <2> HIDE DEF c
  <2>1. Typed(c2)
    BY <1>2, <1>3, FieldNames DEF Typed
  <2>2. SameBut(c2, s, Soft \cup {"location", "count"}) /\ c2.cut
    BY <1>3, FieldNames DEF SameBut, Soft
  <2> QED
    BY <2>1, <2>2
<1>7. /\ Typed(c3) /\ SameBut(c3, s, Soft \cup {"location", "count"}) /\ c3.count = c.count
  <2> HIDE DEF c
  <2>1. Typed(c3)
    BY <1>2, <1>3, FieldNames DEF Typed
  <2>2. SameBut(c3, s, Soft \cup {"location", "count"}) /\ c3.count = c.count
    BY <1>3, FieldNames DEF SameBut, Soft
  <2> QED
    BY <2>1, <2>2
<1>8. follows => s.hop < MaxHops
  <2>1. s.hop \in 0..MaxHops /\ MaxHops \in Nat /\ s.count \in Nat
    BY <1>1, Places DEF Typed
  <2> QED
    BY <2>1
<1>9. \/ v = [w EXCEPT !.s.cut = TRUE]
      \/ v = UpHeaders([w EXCEPT !.s = c1], "redirect")
      \/ v = [w EXCEPT !.s = c2]
      \/ follows /\ v \in {kept, [w EXCEPT !.s = c3]}
  <2> DEFINE K == [w EXCEPT !.s.location = TRUE, !.s.count = @ + 1]
  <2>2. K = kept
    BY <1>4
  <2>1. K.s.count = s.count + 1
    <3>1. kept.s = c
      BY <1>1
    <3> HIDE DEF K, c, kept
    <3> QED
      BY <1>2, <2>2, <3>1
  <2>3. [K EXCEPT !.s.location = FALSE] = [w EXCEPT !.s = c1]
    BY <1>4, <2>2
  <2>4. [K EXCEPT !.s.cut = TRUE] = [w EXCEPT !.s = c2]
    BY <1>4, <2>2
  <2>5. [K EXCEPT !.s.sends = "none"] = [w EXCEPT !.s = c3]
    BY <1>4, <2>2
  <2> HIDE DEF c1, c2, c3, kept, c
  <2>6. v = CASE ~located -> Throws(w)
              [] located /\ s.ask.follow = "policy" /\ ~accepts -> PassThrough(K, "redirect")
              [] located /\ accepts /\ s.ask.follow = "limit" /\ K.s.count >= MaxHops -> Throws(K)
              [] located /\ accepts /\ ~seeOther /\ s.sends = "stream" /\ s.body = "disturbed" ->
                   Throws(K)
              [] OTHER -> IF seeOther THEN [K EXCEPT !.s.sends = "none"] ELSE K
    BY Zenon DEF RedirectHeaders
  <2> HIDE DEF K, v
  <2>7. Throws(w) = [w EXCEPT !.s.cut = TRUE] /\ Throws(K) = [w EXCEPT !.s = c2]
    BY <2>4 DEF Throws
  <2>8. PassThrough(K, "redirect") = UpHeaders([w EXCEPT !.s = c1], "redirect")
    BY <2>3 DEF PassThrough
  <2> QED
    BY <2>1, <2>2, <2>5, <2>6, <2>7, <2>8
<1> HIDE DEF c, c1, c2, c3, kept, v, follows
<1>10. CASE v = [w EXCEPT !.s.cut = TRUE]
  <2>1. Mild(v, w)
    BY <1>10, Cuts DEF Others
  <2> QED
    BY <2>1, Softens DEF v
<1>11. CASE v = UpHeaders([w EXCEPT !.s = c1], "redirect")
  <2> DEFINE u == [w EXCEPT !.s = c1]
  <2>1. u = [w EXCEPT !.s = c1]
    OBVIOUS
  <2> HIDE DEF u
  <2>2. Others(r, u) /\ Own(r, u)
    BY <1>5, <2>1, Recounted
  <2>3. Mild(v, u)
    BY <1>11, <2>1, <2>2, HeadersGoUp DEF Others
  <2> QED
    BY <2>2, <2>3, Softens DEF v
<1>12. CASE v = [w EXCEPT !.s = c2]
  BY <1>6, <1>12, Recounted DEF v
<1>13. CASE follows /\ v \in {kept, [w EXCEPT !.s = c3]}
  <2>1. s.hop < MaxHops /\ s.hop <= c.count
    BY <1>2, <1>8, <1>13
  <2>2. CASE v = kept
    BY <1>2, <1>3, <2>1, <2>2, Recounted DEF v, kept
  <2>3. CASE v = [w EXCEPT !.s = c3]
    BY <1>7, <2>1, <2>3, Recounted DEF v
  <2> QED
    BY <1>13, <2>2, <2>3
<1> QED
  BY <1>9, <1>10, <1>11, <1>12, <1>13

LEMMA AnswerStep == ASSUME IInv, NEW r \in Requests, Answer(r) PROVE IInv'
<1> DEFINE s == req[r]
           b == [System(r) EXCEPT !.s.wire = "headers"]
           W(status) == [System(r) EXCEPT !.s.wire = "headers",
                           !.mon = Pressure!Headers(@, <<r, s.hop>>, status)]
           Follows(seeOther, located, accepts) ==
             /\ accepts /\ s.ask.follow = "policy" => s.hop < MaxHops
             /\ ~accepts => s.ask.follow = "policy"
<1>1. s.wire = "connected"
  BY DEF Answer
<1>2. PICK status \in {"final", "overload", "redirect"} :
        \/ Becomes(UpHeaders(W(status), status))
        \/ /\ s.ask.follow # "off"
           /\ \E seeOther, located, accepts \in BOOLEAN :
                /\ Follows(seeOther, located, accepts)
                /\ Becomes(RedirectHeaders(W(status), seeOther, located, accepts))
  BY Zenon DEF Answer
<1> DEFINE w == W(status)
           n == Pressure!Headers(mon, <<r, s.hop>>, status)
<1>3. /\ Typed(s) /\ UnderWay(s) /\ OnWire(s) /\ s.hop > 0 /\ Entry(reg, r, s)
      /\ Gauge(P!StateOf(mon), r, s) /\ P!Sound(mon)
  BY <1>1, OnTheWire DEF IInv
<1>4. Others(r, b) /\ Wired(r, b, "headers")
  BY <1>1, Rewired
<1>5. P!Sound(n) /\ P!StateOf(n) = P!StateOf(mon)
  <2>1. <<r, s.hop>> \in Attempts
    BY <1>3 DEF UnderWay, Attempts
  <2> QED
    BY <1>3, <2>1, MonitorIsTold
<1>6. /\ DOMAIN w = {"r", "s", "reg", "mon", "lookups"} /\ w.r = r /\ w.s = b.s
      /\ w.reg = reg /\ w.mon = n /\ w.lookups = b.lookups
  BY DEF System
<1> HIDE DEF b, n, W
<1>7. Others(r, w)
  <2>1. Shape(w)
    BY <1>4, <1>5, <1>6 DEF Shape, Others
  <2>2. Aside(r, w, b)
    BY <1>4, <1>5, <1>6 DEF Aside, Wired
  <2>3. w.reg \in Log!Registry /\ Log!IsExact(w.reg)
    BY <1>6 DEF IInv
  <2> QED
    BY <1>4, <1>6, <2>1, <2>2, <2>3, Continued
<1>8. /\ UnderWay(w.s) /\ w.s.wire = "headers" /\ w.s.hop = s.hop /\ w.s.told = s.told
      /\ w.s.hopTold = s.hopTold /\ w.s.location = s.location /\ w.s.count = s.count
      /\ w.s.ask = s.ask
  BY <1>4, <1>6 DEF Wired
<1>9. ~s.hopTold /\ ~s.told /\ ~s.location /\ s.hop <= s.count + 1
  BY <1>1, <1>3 DEF OnWire
<1> HIDE DEF w
<1>10. Own(r, w)
  <2>1. Begun(w.s)
    BY <1>8, UnderWayIsBegun
  <2>2. OnWire(w.s)
    BY <1>8, <1>9 DEF OnWire
  <2>3. Entry(w.reg, r, w.s)
    BY <1>1, <1>3, <1>6, <1>8, <1>9 DEF Entry
  <2>4. Gauge(P!StateOf(w.mon), r, w.s)
    BY <1>1, <1>3, <1>5, <1>6, <1>8 DEF Gauge
  <2> QED
    BY <2>1, <2>2, <2>3, <2>4 DEF Own, Layered
<1>11. CASE Becomes(UpHeaders(w, status))
  <2>1. Mild(UpHeaders(w, status), w)
    BY <1>7, HeadersGoUp DEF Others
  <2> QED
    BY <1>7, <1>10, <1>11, <2>1, Softens, Steps
<1>12. ASSUME s.ask.follow # "off",
              NEW seeOther \in BOOLEAN, NEW located \in BOOLEAN, NEW accepts \in BOOLEAN,
              Follows(seeOther, located, accepts),
              Becomes(RedirectHeaders(w, seeOther, located, accepts))
       PROVE  IInv'
  <2>1. s.ask.follow \in {"limit", "policy"}
    BY <1>3, <1>12 DEF UnderWay, Ask
  <2>2. /\ accepts /\ w.s.ask.follow = "policy" => w.s.hop < MaxHops
        /\ ~accepts => w.s.ask.follow = "policy"
    BY <1>8, <1>12
  <2>3. w.s.hop <= w.s.count + 1 /\ ~w.s.hopTold /\ w.s.ask.follow \in {"limit", "policy"}
    BY <1>8, <1>9, <2>1
  <2>4. /\ Others(r, RedirectHeaders(w, seeOther, located, accepts))
        /\ Own(r, RedirectHeaders(w, seeOther, located, accepts))
    BY <1>7, <1>8, <1>10, <2>2, <2>3, Redirecting
  <2> QED
    BY <1>12, <2>4, Steps
<1> QED
  BY <1>2, <1>11, <1>12 DEF w

-----------------------------------------------------------------------------
(* The end of a response.                                                  *)

(* An attempt that has ended well, before the layers above hear of it.     *)
Ended(r, v) ==
  /\ Others(r, v) /\ UnderWay(v.s) /\ v.s.wire = "closed" /\ v.s.hopTold /\ ~v.s.told
  /\ v.s.location => v.s.hop < MaxHops /\ v.s.hop <= v.s.count
  /\ On(v.reg, r) /\ v.reg.ends[r] = 0 /\ AtRest(v.mon, r)

LEMMA EndedIsOwn == ASSUME NEW r \in Requests, NEW v, Ended(r, v) PROVE Own(r, v)
<1>1. v.s.hop > 0
  BY Places DEF Ended, UnderWay, Hops
<1>2. Begun(v.s)
  BY UnderWayIsBegun DEF Ended
<1>3. OnWire(v.s)
  BY DEF Ended, OnWire
<1>4. Entry(v.reg, r, v.s)
  BY <1>1 DEF Ended, Entry
<1>5. Gauge(P!StateOf(v.mon), r, v.s)
  BY Rests DEF Ended, AtRest
<1> QED
  BY <1>2, <1>3, <1>4, <1>5 DEF Own, Layered

LEMMA EndGoesUp ==
  ASSUME NEW r \in Requests, NEW w, Ended(r, w)
  PROVE  Others(r, UpComplete(w)) /\ Own(r, UpComplete(w))
<1> DEFINE u == LogDone([w EXCEPT !.s.told = TRUE])
           v == IF w.s.hidden THEN RequestError(u) ELSE RequestComplete(u)
<1>1. UpComplete(w) \in {w, v}
  BY DEF UpComplete
<1>2. /\ Others(r, u) /\ Alike(u.s, w.s) /\ u.s.told /\ u.s.hopTold = w.s.hopTold
      /\ u.mon = w.mon /\ u.reg = Log!Leave(w.reg, r)
  BY Tells DEF Ended
<1> HIDE DEF u
<1>3. Mild(v, u)
  BY <1>2, Promised DEF Others
<1> HIDE DEF v
<1>4. Own(r, u)
  <2>1. UnderWay(u.s) /\ u.s.wire = "closed" /\ u.s.hopTold /\ u.s.hop = w.s.hop
    BY <1>2 DEF Ended, UnderWay, Alike
  <2>2. ~On(u.reg, r) /\ u.reg.ends[r] = 1
    BY <1>2, Leaves DEF Ended, Others
  <2>3. Begun(u.s)
    BY <2>1, UnderWayIsBegun
  <2>4. OnWire(u.s)
    BY <2>1 DEF OnWire
  <2>5. Entry(u.reg, r, u.s)
    BY <1>2, <2>1, <2>2, Places DEF Entry, UnderWay, Hops
  <2>6. Gauge(P!StateOf(u.mon), r, u.s)
    BY <1>2, <2>1, Rests DEF Ended, AtRest
  <2> QED
    BY <2>3, <2>4, <2>5, <2>6 DEF Own, Layered
<1>5. Others(r, w) /\ Own(r, w)
  BY EndedIsOwn DEF Ended
<1>6. Others(r, v) /\ Own(r, v)
  BY <1>2, <1>3, <1>4, Softens
<1> QED
  BY <1>1, <1>5, <1>6

LEMMA RedirectIsFollowed ==
  ASSUME IInv, NEW r \in Requests, NEW w, Ended(r, w), w.s.location, NEW o \in Origins,
         NEW v, v = RedirectComplete(w, o)
  PROVE  Others(r, v) /\ Own(r, v)
<1> DEFINE t == [w.s EXCEPT !.location = FALSE]
           u == [w EXCEPT !.s = t]
<1>1. /\ DOMAIN w = {"r", "s", "reg", "mon", "lookups"} /\ w.r = r /\ Typed(w.s) /\ P!Sound(w.mon)
      /\ w.reg \in Log!Registry /\ Log!IsExact(w.reg)
  BY DEF Ended, Others, Shape
<1>2. /\ t.hop = w.s.hop /\ t.wire = w.s.wire /\ t.told = w.s.told /\ t.hopTold = w.s.hopTold
      /\ t.lookup = w.s.lookup /\ t.started = w.s.started /\ t.ask = w.s.ask
      /\ t.count = w.s.count /\ ~t.location
  BY <1>1, FieldNames DEF Typed
<1>3. Typed(t)
  BY <1>1, FieldNames DEF Typed
<1>4. v = DispatchHop(u, o)
  <2>1. [w EXCEPT !.s.location = FALSE] = u
    BY <1>1
  <2> QED
    BY <2>1 DEF RedirectComplete
<1> HIDE DEF t
<1>5. /\ DOMAIN u = DOMAIN w /\ u.r = r /\ u.s = t
      /\ u.reg = w.reg /\ u.mon = w.mon /\ u.lookups = w.lookups
  BY <1>1
<1> HIDE DEF u
<1>6. Others(r, u)
  <2>1. Shape(u) /\ Aside(r, u, w)
    BY <1>1, <1>3, <1>5 DEF Shape, Aside
  <2> QED
    BY <1>1, <1>2, <1>5, <2>1, Continued DEF LookingUp, Ended
<1>7. AtRest(u.mon, r) /\ u.s.hop < MaxHops /\ u.s.hop <= u.s.count
  BY <1>2, <1>5 DEF Ended
<1>8. Others(r, v) /\ Hopped(r, v, u)
  BY <1>4, <1>6, <1>7, HopStarts
<1>9. /\ v.s.wire = "queued" /\ ~v.s.hopTold /\ ~v.s.told /\ ~v.s.location /\ v.s.hop \in Hops
      /\ v.reg = w.reg /\ v.s.hop = u.s.hop + 1 /\ v.s.count = u.s.count
  BY <1>2, <1>5, <1>8 DEF Hopped, Ended
<1>10. UnderWay(v.s)
  BY <1>2, <1>5, <1>8, <1>9 DEF UnderWay, Hopped, Ended
<1>11. Begun(v.s)
  BY <1>10, UnderWayIsBegun
<1>12. OnWire(v.s)
  <2>1. u.s.hop \in 0..MaxHops /\ MaxHops \in Nat /\ u.s.count \in Nat
    BY <1>3, <1>5, Places DEF Typed
  <2>2. u.s.hop + 1 <= u.s.count + 1
    BY <1>7, <2>1
  <2> QED
    BY <1>9, <2>2 DEF OnWire
<1>13. Entry(v.reg, r, v.s)
  BY <1>9, Places DEF Entry, Ended, Hops
<1>14. Gauge(P!StateOf(v.mon), r, v.s)
  <2>1. \A k \in Hops :
          P!StateOf(v.mon)[<<r, k>>] = IF k = v.s.hop THEN "pending"
                                       ELSE P!StateOf(u.mon)[<<r, k>>]
    BY <1>8, AndElsewhere DEF Attempts, Hopped
  <2> QED
    BY <1>7, <1>9, <2>1 DEF Gauge, AtRest
<1> QED
  BY <1>8, <1>11, <1>12, <1>13, <1>14 DEF Own, Layered

Finished(w) ==
  [w EXCEPT !.s.hopTold = TRUE, !.mon = Pressure!Completed(@, Attempt(w))]

LEMMA AttemptEnds ==
  ASSUME IInv, NEW r \in Requests, req[r].wire = "headers", ~req[r].cut,
         NEW v, v = Finished(Over(r))
  PROVE  Ended(r, v)
<1> DEFINE s == req[r]
           w == Over(r)
           t == [w.s EXCEPT !.hopTold = TRUE]
           n == Pressure!Completed(w.mon, Attempt(w))
<1>1. /\ Typed(s) /\ UnderWay(s) /\ OnWire(s) /\ s.hop > 0 /\ Entry(reg, r, s)
  BY OnTheWire
<1>2. ~s.hopTold /\ ~s.told /\ (s.location => s.hop < MaxHops /\ s.hop <= s.count)
  BY <1>1 DEF OnWire, Typed
<1>3. On(reg, r) /\ reg.ends[r] = 0
  BY <1>1, <1>2 DEF Entry
<1>4. /\ Others(r, w) /\ UnderWay(w.s) /\ w.s.wire = "closed"
      /\ w.s.hop = s.hop /\ w.s.told = s.told
      /\ w.s.location = s.location /\ w.s.count = s.count
      /\ w.reg = reg /\ P!StateOf(w.mon) = P!StateOf(mon)
  BY AttemptIsOver
<1>5. v = [w EXCEPT !.s.hopTold = TRUE, !.mon = n]
  BY DEF Finished
<1> HIDE DEF w
<1>6. /\ DOMAIN w = {"r", "s", "reg", "mon", "lookups"} /\ w.r = r /\ Typed(w.s)
  BY <1>4 DEF Others, Shape
<1>7. /\ t.hopTold = TRUE /\ t.hop = w.s.hop /\ t.wire = w.s.wire /\ t.told = w.s.told
      /\ t.lookup = w.s.lookup /\ t.started = w.s.started /\ t.ask = w.s.ask
      /\ t.count = w.s.count /\ t.location = w.s.location
  BY <1>6, FieldNames DEF Typed
<1>8. Typed(t)
  BY <1>6, FieldNames DEF Typed
<1>9. \E e \in BOOLEAN : n = Pressure!Settle(w.mon, <<r, w.s.hop>>, e)
  BY <1>6 DEF Pressure!Completed, Attempt
<1> HIDE DEF n
<1>10. /\ DOMAIN v = DOMAIN w /\ v.r = w.r /\ v.s = t /\ v.reg = w.reg
       /\ v.mon = n /\ v.lookups = w.lookups
  BY <1>5, <1>6
<1> HIDE DEF t
<1>11. Others(r, v) /\ P!StateOf(v.mon) = Gone(P!StateOf(w.mon), <<r, w.s.hop>>)
  <2>1. w.s.hop \in Hops /\ Typed(v.s) /\ v.s.lookup = w.s.lookup
    BY <1>4, <1>7, <1>8, <1>10 DEF UnderWay
  <2>2. PICK e \in BOOLEAN : n = Pressure!Settle(w.mon, <<r, w.s.hop>>, e)
    BY <1>9
  <2>3. v.mon = Pressure!Settle(w.mon, <<r, w.s.hop>>, e)
    BY <1>10, <2>2
  <2>4. /\ DOMAIN v = {"r", "s", "reg", "mon", "lookups"} /\ v.r = w.r /\ v.reg = w.reg
        /\ v.lookups = w.lookups /\ Others(r, w)
    BY <1>4, <1>6, <1>10
  <2> QED
    BY <2>1, <2>3, <2>4, Settles
<1>12. AtRest(v.mon, r)
  BY <1>4, <1>11, SettledIsAtRest DEF AtRest
<1>13. UnderWay(v.s)
  BY <1>4, <1>7, <1>10 DEF UnderWay
<1>14. v.s.location => v.s.hop < MaxHops /\ v.s.hop <= v.s.count
  BY <1>2, <1>4, <1>7, <1>10
<1> QED
  BY <1>2, <1>3, <1>4, <1>7, <1>10, <1>11, <1>12, <1>13, <1>14 DEF Ended

LEMMA CompleteStep == ASSUME IInv, NEW r \in Requests, Complete(r) PROVE IInv'
<1> DEFINE v == Finished(Over(r))
           w == Over(r)
           u == PressureError(w, FALSE)
<1>1. /\ req[r].wire = "headers" /\ ~req[r].cut
      /\ \/ \E o \in req[r].ask.to : Becomes(RedirectComplete(v, o))
         \/ Becomes(u)
  BY DEF Complete, Finished
<1>2. ASSUME NEW o \in req[r].ask.to, Becomes(RedirectComplete(v, o)) PROVE IInv'
  <2>1. Ended(r, v)
    BY <1>1, AttemptEnds
  <2>2. o \in Origins
    BY <1>1, OnTheWire DEF UnderWay, Ask
  <2> HIDE DEF v
  <2>3. CASE v.s.location
    BY <1>2, <2>1, <2>2, <2>3, RedirectIsFollowed, Steps
  <2>4. CASE ~v.s.location
    <3>1. RedirectComplete(v, o) = UpComplete(v)
      BY <2>4 DEF RedirectComplete
    <3> QED
      BY <1>2, <2>1, <3>1, EndGoesUp, Steps
  <2> QED
    BY <2>3, <2>4
<1>3. ASSUME Becomes(u) PROVE IInv'
  <2>1. /\ Others(r, w) /\ UnderWay(w.s) /\ w.s.wire = "closed"
        /\ w.s.hop = req[r].hop /\ w.s.told = req[r].told /\ w.s.hopTold = req[r].hopTold
        /\ w.reg = reg /\ P!StateOf(w.mon) = P!StateOf(mon)
    BY <1>1, AttemptIsOver
  <2> HIDE DEF w
  <2>2. /\ Others(r, u) /\ Begun(u.s) /\ u.s.hopTold /\ u.s.wire = w.s.wire
        /\ Entry(u.reg, r, u.s) /\ Gauge(P!StateOf(u.mon), r, u.s)
    BY <1>1, <2>1, Failing
  <2> HIDE DEF u
  <2>3. OnWire(u.s)
    BY <2>1, <2>2 DEF OnWire
  <2> QED
    BY <1>3, <2>2, <2>3, Steps DEF Own, Layered
<1> QED
  BY <1>1, <1>2, <1>3

-----------------------------------------------------------------------------
(* The timer, close() and the trace writer.                                *)

LEMMA OnlyTheMonitor ==
  ASSUME IInv, P!Sound(mon'), P!StateOf(mon') = P!StateOf(mon),
         UNCHANGED <<world, req, reg, lookups>>, tracing' \in BOOLEAN
  PROVE  IInv'
<1>1. ASSUME NEW q \in Requests PROVE Typed(req'[q]) /\ Own(q, System(q)')
  <2>1. System(q)' = [r |-> q, s |-> req[q], reg |-> reg, mon |-> mon', lookups |-> lookups]
    BY DEF System
  <2>2. Typed(req[q]) /\ Layered(req[q]) /\ Entry(reg, q, req[q]) /\ Gauge(P!StateOf(mon), q, req[q])
    BY DEF IInv, Own, System
  <2> QED
    BY <2>1, <2>2 DEF Own
<1> QED
  BY <1>1 DEF IInv

LEMMA MonitorSteps ==
  ASSUME IInv, Tick \/ CloseMonitor \/ InstallTracer
  PROVE  IInv'
<1>1. P!Sound(mon) /\ tracing \in BOOLEAN /\ world \in Worlds
  BY DEF IInv
<1>2. ASSUME NEW m, P!Sound(m), P!StateOf(m) = P!StateOf(mon), Shared(m) PROVE IInv'
  <2>1. mon' = Pressure!Collect(m) /\ UNCHANGED <<world, req, reg, lookups>> /\ tracing' = tracing
    BY <1>2 DEF Shared
  <2>2. P!Sound(mon') /\ P!StateOf(mon') = P!StateOf(mon)
    BY <1>2, <2>1, MonitorRuns
  <2> QED
    BY <1>1, <2>1, <2>2, OnlyTheMonitor
<1>3. CASE Tick
  <2>1. PICK m \in Pressure!Ticks(mon, tracing, Sampling[world]) : Shared(m)
    BY <1>3 DEF Tick
  <2>2. Sampling[world] \in SUBSET Pressure!Levels
    BY <1>1, ExchangeAssumption
  <2>3. P!Sound(m) /\ P!StateOf(m) = P!StateOf(mon)
    BY <1>1, <2>1, <2>2, MonitorRuns
  <2> QED
    BY <1>2, <2>1, <2>3
<1>4. CASE CloseMonitor
  <2>1. Shared(Pressure!Close(mon))
    BY <1>4 DEF CloseMonitor
  <2>2. P!Sound(Pressure!Close(mon)) /\ P!StateOf(Pressure!Close(mon)) = P!StateOf(mon)
    BY <1>1, MonitorRuns
  <2> QED
    BY <1>2, <2>1, <2>2
<1>5. CASE InstallTracer
  <2>1. UNCHANGED <<world, req, reg, lookups>> /\ mon' = mon /\ tracing' \in BOOLEAN
    BY <1>1, <1>5 DEF InstallTracer
  <2> QED
    BY <1>1, <2>1, OnlyTheMonitor
<1> QED
  BY <1>3, <1>4, <1>5

-----------------------------------------------------------------------------
(* The invariant.                                                          *)

LEMMA Starts == Init => IInv
<1> SUFFICES ASSUME Init PROVE IInv
  OBVIOUS
<1>1. /\ world \in Worlds /\ req = [r \in Requests |-> NewRequest] /\ lookups = 0
      /\ reg = L!NobodyInFlight /\ mon = Pressure!NewMonitor
  BY SameRegistry DEF Init
<1>2. tracing \in BOOLEAN
  BY DEF Init
<1>3. reg \in Log!Registry /\ Log!IsExact(reg)
  BY <1>1, SameRegistry, L!EmptyIsExact
<1>4. P!Sound(mon) /\ \A h \in Attempts : P!StateOf(mon)[h] = "none"
  BY <1>1, MonitorStarts
<1>5. ASSUME NEW r \in Requests PROVE Typed(req[r]) /\ Own(r, System(r))
  <2> DEFINE s == NewRequest
  <2>1. /\ s.hop = 0 /\ s.target = 0 /\ s.count = 0 /\ s.wire = "none" /\ s.lookup = "none"
        /\ s.started = FALSE /\ s.told = FALSE /\ s.location = FALSE /\ s.hopTold = FALSE
        /\ s.cut = FALSE
    BY DEF NewRequest
  <2>2. s.promise = "none" /\ s.res = "none" /\ s.signal = "none" /\ s.body = "none"
    BY DEF NewRequest
  <2>3. DOMAIN s = Fields
    BY DEF Fields
  <2>4. System(r).s = s /\ System(r).reg = reg /\ System(r).mon = mon /\ req[r] = s
    BY <1>1 DEF System
  <2> HIDE DEF s
  <2>5. Typed(s)
    <3>1. s.hop \in 0..MaxHops /\ s.target \in 0..s.hop /\ s.count \in Nat
      BY <2>1, Places
    <3> QED
      BY <2>1, <2>2, <2>3, <3>1 DEF Typed
  <2>6. Layered(s)
    BY <2>1 DEF Layered, Begun, OnWire
  <2>7. Entry(reg, r, s)
    <3>1. ~On(reg, r) /\ reg.ends[r] = 0
      BY <1>1, SameRegistry DEF On, L!NobodyInFlight, L!NotListed
    <3> QED
      BY <2>1, <3>1 DEF Entry
  <2>8. Gauge(P!StateOf(mon), r, s)
    BY <1>4, <2>1 DEF Gauge, Attempts
  <2> QED
    BY <2>4, <2>5, <2>6, <2>7, <2>8 DEF Own
<1>6. lookups = Cardinality({r \in Requests : LookingUp(req[r])})
  <2>1. \A r \in Requests : ~LookingUp(req[r])
    BY <1>1 DEF LookingUp, NewRequest
  <2>2. {r \in Requests : LookingUp(req[r])} = {}
    BY <2>1
  <2> QED
    BY <1>1, <2>2, FS_EmptySet
<1> QED
  BY <1>1, <1>2, <1>3, <1>4, <1>5, <1>6 DEF IInv

LEMMA WireSteps == ASSUME IInv, NEW r \in Requests, Wire(r) PROVE IInv'
BY ConnectSteps, AnswerStep, OverrunStep, CompleteStep, FailStep, LateRejectionStep,
   UpgradeStep, SocketStep DEF Wire

LEMMA Continuing == ASSUME IInv, NEW r \in Requests, Continues(r) PROVE IInv'
<1>1. CASE Reject(r)
  BY <1>1, CallerSteps
<1>2. ASSUME req[r].started, NEW o \in req[r].ask.to, NEW good \in BOOLEAN,
             AfterLookup(r, o, good)
      PROVE  IInv'
  BY <1>2, AfterLookupStep
<1> QED
  BY <1>1, <1>2 DEF Continues

LEMMA Calling == ASSUME IInv, NEW r \in Requests, Caller(r) PROVE IInv'
<1>1. ASSUME NEW a \in Asks[world][r], NEW early \in BOOLEAN, NEW good \in BOOLEAN,
             NEW o \in a.to, Start(r, a, early, o, good)
      PROVE  IInv'
  BY <1>1, StartStep
<1>2. CASE Abort(r)
  BY <1>2, AbortStep
<1>3. CASE Read(r) \/ Drop(r)
  BY <1>3, CallerSteps
<1> QED
  BY <1>1, <1>2, <1>3 DEF Caller

LEMMA Continuity == IInv /\ [Next]_vars => IInv'
<1> SUFFICES ASSUME IInv, [Next]_vars PROVE IInv'
  OBVIOUS
<1>1. ASSUME NEW r \in Requests,
             Caller(r) \/ Continues(r) \/ LookupSettles(r) \/ Wire(r) \/ Body(r)
      PROVE  IInv'
  <2>1. CASE Caller(r)
    BY <2>1, Calling
  <2>2. CASE Continues(r)
    BY <2>2, Continuing
  <2>3. CASE LookupSettles(r)
    BY <2>3, LookupStep
  <2>4. CASE Wire(r)
    BY <2>4, WireSteps
  <2>5. CASE Body(r)
    BY <2>5, BodySteps DEF Body
  <2> QED
    BY <1>1, <2>1, <2>2, <2>3, <2>4, <2>5
<1>2. CASE Tick \/ CloseMonitor \/ InstallTracer
  BY <1>2, MonitorSteps
<1>3. CASE UNCHANGED vars
  <2>1. /\ UNCHANGED <<world, req, reg, lookups>> /\ mon' = mon /\ tracing' = tracing
    BY <1>3 DEF vars
  <2> QED
    BY <2>1, OnlyTheMonitor DEF IInv
<1> QED
  BY <1>1, <1>2, <1>3 DEF Next

(* Whatever the requests, their layers and the timer do, the layers of     *)
(* each request agree with its entry in the registry and with its states   *)
(* in the monitor.                                                         *)
THEOREM Invariance == Spec => []IInv
BY Starts, Continuity, PTL DEF Spec

-----------------------------------------------------------------------------
(* What it says.                                                           *)

LEMMA Facts == IInv => TypeOK /\ RegistryIsExact /\ GaugesAreExact /\ SamplingIsPaired
<1> SUFFICES ASSUME IInv PROVE TypeOK /\ RegistryIsExact /\ GaugesAreExact /\ SamplingIsPaired
  OBVIOUS
<1>1. ASSUME NEW r \in Requests
      PROVE  /\ Typed(req[r]) /\ Layered(req[r]) /\ Entry(reg, r, req[r])
             /\ Gauge(P!StateOf(mon), r, req[r])
  BY DEF IInv, Own, System
<1>2. P!Sound(mon) /\ Log!IsExact(reg) /\ reg \in Log!Registry
  BY DEF IInv
<1>3. TypeOK
  <2>1. mon \in Pressure!Monitor
    BY <1>2, SameRecords DEF P!Sound
  <2>2. lookups \in 0..Cardinality(Requests)
    <3>1. Cardinality({r \in Requests : LookingUp(req[r])}) <= Cardinality(Requests)
      BY Places, FS_Subset
    <3>2. Cardinality(Requests) \in Nat /\ lookups \in Nat
      <4>1. IsFiniteSet({r \in Requests : LookingUp(req[r])})
        BY Places, FS_Subset
      <4> QED
        BY <4>1, Places, FS_CardinalityType DEF IInv
    <3>3. lookups = Cardinality({r \in Requests : LookingUp(req[r])})
      BY DEF IInv
    <3> QED
      BY <3>1, <3>2, <3>3
  <2>3. world \in Worlds /\ tracing \in BOOLEAN
    BY DEF IInv
  <2>4. reg \in [list : Seq(Requests), index : [Requests -> Nat], ends : [Requests -> Nat]]
    BY <1>2 DEF Log!Registry
  <2>5. \A r \in Requests :
          LET s == req[r]
          IN /\ s.promise \in {"none", "waiting", "resolved", "rejecting", "rejected"}
             /\ s.res \in {"none", "open", "ended", "closing", "closed"}
             /\ s.signal \in {"none", "live", "aborted"}
             /\ s.lookup \in {"none", "under way", "resolved", "rejected", "done"}
             /\ s.wire \in {"none", "queued", "connected", "headers", "upgraded", "closed"}
             /\ s.body \in {"none", "live", "disturbed", "destroyed"}
             /\ s.hop \in 0..MaxHops /\ s.target \in 0..s.hop
    BY <1>1 DEF Typed
  <2> QED
    BY <2>1, <2>2, <2>3, <2>4, <2>5 DEF TypeOK
<1>4. RegistryIsExact
  <2> SUFFICES ASSUME NEW r \in Requests
               PROVE  LET s == req[r]
                      IN /\ Listed(r) <=> s.hop > 0 /\ (~s.told \/ s.wire = "upgraded")
                         /\ reg.ends[r] <= 1
                         /\ s.told /\ ~Listed(r) /\ s.hop > 0 => reg.ends[r] = 1
    BY <1>2 DEF RegistryIsExact
  <2>1. Entry(reg, r, req[r]) /\ (Listed(r) <=> On(reg, r))
    BY <1>1 DEF Listed, On
  <2> QED
    BY <2>1 DEF Entry
<1>5. GaugesAreExact
  <2>1. Pressure!CountsItsHandlers(mon)
    BY <1>2, SameMonitor DEF P!Sound
  <2>2. lookups = Cardinality({r \in Requests : req[r].lookup \notin {"none", "done"}})
    BY DEF IInv, LookingUp
  <2>3. \A r \in Requests, k \in Hops :
          LET s == req[r]
              state == mon.handler[<<r, k>>].state
              now == k = s.hop /\ ~s.hopTold
          IN /\ state = "pending" <=> now /\ s.wire = "queued"
             /\ state = "running" <=> now /\ s.wire \in {"connected", "headers"}
    <3> TAKE r \in Requests, k \in Hops
    <3>1. mon.handler[<<r, k>>].state = P!StateOf(mon)[<<r, k>>]
      BY DEF P!StateOf, Attempts
    <3> QED
      BY <1>1, <3>1 DEF Gauge
  <2> QED
    BY <2>1, <2>2, <2>3 DEF GaugesAreExact
<1>6. SamplingIsPaired
  BY <1>2, SameMonitor DEF P!Sound, SamplingIsPaired
<1> QED
  BY <1>3, <1>4, <1>5, <1>6

(* The shared state keeps its shape: lookup counts no more lookups than    *)
(* there are requests, and the hop that redirect would abort is one that   *)
(* was dispatched.                                                         *)
THEOREM ExchangeTypeCorrect == Spec => []TypeOK
BY Invariance, Facts, PTL

(* A request is in the registry from its dispatch to its end, at the index *)
(* it knows, and has one end document, for any number of requests that     *)
(* join and leave in any order.                                            *)
THEOREM RegistryStaysExact == Spec => []RegistryIsExact
BY Invariance, Facts, PTL

(* The gauges of pressure count what the requests do, however the table    *)
(* lets go of records and whichever callback ends an attempt first, and    *)
(* lookup counts the lookups.                                              *)
THEOREM GaugesStayExact == Spec => []GaugesAreExact
BY Invariance, Facts, PTL

(* The monitor samples what it has, and every start document it owes an    *)
(* end for belongs to a latch that is engaged, while writers come and go.  *)
THEOREM SamplingStaysPaired == Spec => []SamplingIsPaired
BY Invariance, Facts, PTL

-----------------------------------------------------------------------------
(***************************************************************************)
(* What is left of a request.  The second invariant, AllKept, says what    *)
(* the fields of each request record know of each other; together with     *)
(* IInv it is kept by every step.  A callback is described by the fields   *)
(* it may change (Frame), so that each part of Kept is carried over by     *)
(* what the part reads.                                                    *)
(***************************************************************************)

Stream ==
  [state : {"none", "new", "calling", "open", "closed"}, destroyed : BOOLEAN,
   signal : {"none", "live", "aborted"}, inner : {"none", "alive", "read", "destroyed"},
   watching : BOOLEAN]

Kinds(s) ==
  /\ s.listening \in BOOLEAN /\ s.aborted \in BOOLEAN /\ s.chain \in BOOLEAN
  /\ s.cancelled \in BOOLEAN /\ s.hidden \in BOOLEAN
  /\ s.sends \in {"none", "stream", "factory"} /\ s.stream \in [Hops -> Stream]

(* What a request may be.                                                  *)
Asked(s) ==
  s.started =>
    /\ s.ask.raw => /\ s.promise = "none" /\ s.res = "none" /\ s.body = "none"
                    /\ s.signal = "none" /\ ~s.listening
    /\ s.ask.upgrade => s.ask.raw /\ s.sends = "none"

(* The promise, the body given to the caller and the body it gave.         *)
Promising(s) ==
  /\ s.started /\ ~s.ask.raw => s.promise # "none"
  /\ s.res # "none" <=> s.promise = "resolved"
  /\ s.res = "closed" => ~s.listening
  /\ s.promise \in {"rejecting", "rejected"} =>
       ~s.listening /\ s.body \in {"none", "destroyed"} /\ (s.aborted \/ s.told)
  /\ s.res # "none" => s.wire \notin {"none", "queued", "connected"} /\ ~s.location

(* The body the caller gave, before it is sent.                            *)
Handing(s) == s.body = "live" => s.wire \in {"none", "queued"} /\ s.sends = "stream"

OnLine(s) == s.wire \in {"connected", "headers"}

(* The way of an abort down to the transport.                              *)
Reaching(s) ==
  /\ OnLine(s) \/ (s.wire = "queued" /\ s.ask.follow # "off") => s.chain
  /\ OnLine(s) /\ s.cancelled /\ ~s.told => s.cut
  /\ OnLine(s) /\ s.ask.follow # "off" /\ ~s.cancelled => s.target = s.hop

(* An abort that was asked for has been passed on.                         *)
Heeded(s) == s.aborted /\ s.chain => s.cancelled \/ s.told

(* The ends that the layers have heard of.                                 *)
Ending(s) ==
  /\ s.hopTold => s.told
  /\ s.wire = "upgraded" => s.ask.upgrade
  /\ s.started /\ s.wire = "none" /\ s.lookup \in {"none", "done"} =>
       s.told \/ s.promise \in {"rejecting", "rejected"}

Closing(s) == s.wire \in {"closed", "upgraded"} => s.told

(* Who was told of an end has an answer.                                   *)
Informed(s) == s.told => s.promise # "waiting"

(* What has gone past redirect and response-error has an answer.           *)
Forwarded(s) ==
  s.wire = "headers" /\ ~s.location /\ ~s.hidden /\ ~s.cancelled /\ ~s.told /\ ~s.cut
  => s.promise # "waiting"

(* The body of a factory.                                                  *)
SoundStream(b) ==
  /\ b.destroyed => ~b.watching
  /\ b.state = "none" => ~b.watching
  /\ b.state \in {"new", "calling"} => b.inner = "none"
  /\ b.state = "calling" /\ b.destroyed => b.signal = "aborted"
  /\ b.state \in {"calling", "open"} => b.signal \in {"live", "aborted"}
  /\ b.state = "open" => ~b.destroyed
  /\ b.state = "closed" => /\ b.destroyed /\ b.inner # "alive"
                           /\ b.inner # "read" => b.signal = "aborted"

Stopped(b) == b.state = "none" \/ b.destroyed

Streaming(s) ==
  \A k \in Hops :
    /\ SoundStream(s.stream[k])
    /\ k > s.hop \/ (s.started /\ s.ask.upgrade) => s.stream[k].state = "none"
    /\ k < s.hop \/ (k = s.hop /\ s.wire = "closed") => Stopped(s.stream[k])

Kept(s) ==
  /\ Kinds(s) /\ Asked(s) /\ Promising(s) /\ Handing(s) /\ Reaching(s) /\ Heeded(s)
  /\ Ending(s) /\ Closing(s) /\ Informed(s) /\ Forwarded(s) /\ Streaming(s)

-----------------------------------------------------------------------------
(* The fields that a callback leaves alone.                                *)

Frame(t, s, F) ==
  /\ "ask" \notin F => t.ask = s.ask
  /\ "started" \notin F => t.started = s.started
  /\ "promise" \notin F => t.promise = s.promise
  /\ "res" \notin F => t.res = s.res
  /\ "signal" \notin F => t.signal = s.signal
  /\ "listening" \notin F => t.listening = s.listening
  /\ "aborted" \notin F => t.aborted = s.aborted
  /\ "chain" \notin F => t.chain = s.chain
  /\ "body" \notin F => t.body = s.body
  /\ "lookup" \notin F => t.lookup = s.lookup
  /\ "target" \notin F => t.target = s.target
  /\ "cancelled" \notin F => t.cancelled = s.cancelled
  /\ "told" \notin F => t.told = s.told
  /\ "hidden" \notin F => t.hidden = s.hidden
  /\ "location" \notin F => t.location = s.location
  /\ "sends" \notin F => t.sends = s.sends
  /\ "hop" \notin F => t.hop = s.hop
  /\ "wire" \notin F => t.wire = s.wire
  /\ "cut" \notin F => t.cut = s.cut
  /\ "hopTold" \notin F => t.hopTold = s.hopTold
  /\ "stream" \notin F => t.stream = s.stream

LEMMA Framed ==
  ASSUME NEW s, DOMAIN s = Fields, NEW F, NEW t, SameBut(t, s, F)
  PROVE  Frame(t, s, F) /\ DOMAIN t = Fields
BY FieldNames DEF SameBut, Frame

Bears(w) == DOMAIN w = {"r", "s", "reg", "mon", "lookups"} /\ DOMAIN w.s = Fields

(* v is w with another request, of which only the fields F differ.         *)
Differs(v, w, F) == Bears(v) /\ v.r = w.r /\ Frame(v.s, w.s, F)

(* What holds of a request whoever hears of an end or of an abort next.    *)
Underlying(s) ==
  /\ Kinds(s) /\ Asked(s) /\ Promising(s) /\ Reaching(s) /\ Ending(s) /\ Streaming(s)

LEMMA CallAbortActs ==
  ASSUME NEW w, Bears(w), w.s.cut \in BOOLEAN
  PROVE  /\ Differs(CallAbort(w), w, {"cancelled", "cut"})
         /\ LET s == w.s
                t == CallAbort(w).s
            IN IF ~s.chain \/ s.cancelled \/ s.told THEN t = s
               ELSE /\ t.cancelled
                    /\ t.cut = (s.cut \/ ~(s.hopTold \/ (s.ask.follow # "off" /\ (s.target = 0 \/ s.target # s.hop))))
<1> DEFINE s == w.s
           c == [s EXCEPT !.cancelled = TRUE]
           u == [s EXCEPT !.cancelled = TRUE, !.cut = TRUE]
           marked == [w EXCEPT !.s = c]
<1>1. DOMAIN s = Fields /\ DOMAIN w = {"r", "s", "reg", "mon", "lookups"}
  BY DEF Bears
<1>2. /\ SameBut(c, s, {"cancelled", "cut"}) /\ c.cancelled /\ c.cut = s.cut
      /\ c.hopTold = s.hopTold /\ DOMAIN c = Fields
  BY <1>1, FieldNames DEF SameBut
<1>3. SameBut(u, s, {"cancelled", "cut"}) /\ u.cancelled /\ u.cut
  BY <1>1, FieldNames DEF SameBut
<1>4. [c EXCEPT !.cut = TRUE] = u
  BY <1>1, FieldNames
<1> HIDE DEF c, u
<1>5. /\ marked.s = c /\ marked.r = w.r /\ Bears(marked)
  BY <1>1, <1>2 DEF Bears
<1>6. /\ HopAbort(marked).s = IF s.hopTold THEN c ELSE u
      /\ HopAbort(marked).r = w.r /\ DOMAIN HopAbort(marked) = DOMAIN w
  BY <1>1, <1>2, <1>4, <1>5 DEF HopAbort
<1> HIDE DEF marked
<1>7. Frame(c, s, {"cancelled", "cut"}) /\ Frame(u, s, {"cancelled", "cut"}) /\ DOMAIN u = Fields
  BY <1>1, <1>2, <1>3, Framed
<1>8. Frame(s, s, {"cancelled", "cut"})
  BY DEF Frame
<1>9. CASE ~s.chain \/ s.cancelled \/ s.told
  <2>1. CallAbort(w) = w
    BY <1>9 DEF CallAbort
  <2> QED
    BY <1>8, <1>9, <2>1 DEF Differs
<1>10. CASE ~(~s.chain \/ s.cancelled \/ s.told)
  <2>1. CallAbort(w) = IF s.ask.follow # "off" /\ (s.target = 0 \/ s.target # s.hop)
                       THEN marked ELSE HopAbort(marked)
    BY <1>1, <1>10 DEF CallAbort, marked, c
  <2>2. CASE s.ask.follow # "off" /\ (s.target = 0 \/ s.target # s.hop)
    BY <1>2, <1>5, <1>7, <1>10, <2>1, <2>2 DEF Differs
  <2>3. CASE ~(s.ask.follow # "off" /\ (s.target = 0 \/ s.target # s.hop))
    <3>1. CallAbort(w) = HopAbort(marked)
      BY <2>1, <2>3
    <3>2. CASE s.hopTold
      BY <1>1, <1>2, <1>6, <1>7, <1>10, <2>3, <3>1, <3>2 DEF Differs, Bears
    <3>3. CASE ~s.hopTold
      BY <1>1, <1>3, <1>6, <1>7, <1>10, <2>3, <3>1, <3>3 DEF Differs, Bears
    <3> QED
      BY <3>2, <3>3
  <2> QED
    BY <2>2, <2>3
<1> QED
  BY <1>9, <1>10

(* The abort is passed on once; whoever holds the transport cuts it.       *)
LEMMA CallAbortKeeps ==
  ASSUME NEW w, Bears(w), Typed(w.s), Begun(w.s), Underlying(w.s), Handing(w.s),
         Closing(w.s), Informed(w.s), Forwarded(w.s)
  PROVE  Kept(CallAbort(w).s) /\ Differs(CallAbort(w), w, {"cancelled", "cut"})
<1> DEFINE s == w.s
           t == CallAbort(w).s
<1>1. /\ Frame(t, s, {"cancelled", "cut"}) /\ Differs(CallAbort(w), w, {"cancelled", "cut"})
      /\ IF ~s.chain \/ s.cancelled \/ s.told THEN t = s
         ELSE /\ t.cancelled
              /\ t.cut = (s.cut \/ ~(s.hopTold \/ (s.ask.follow # "off" /\ (s.target = 0 \/ s.target # s.hop))))
  BY CallAbortActs DEF Typed, Differs
<1> HIDE DEF t, s
<1>2. Typed(s) /\ Begun(s) /\ Underlying(s) /\ Handing(s) /\ Closing(s) /\ Informed(s) /\ Forwarded(s)
  BY DEF s
<1>3. CASE ~s.chain \/ s.cancelled \/ s.told
  <2>1. t = s /\ Heeded(s)
    BY <1>1, <1>3 DEF Heeded
  <2> QED
    BY <1>1, <1>2, <2>1 DEF Kept, Underlying, t
<1>4. CASE s.chain /\ ~s.cancelled /\ ~s.told
  <2>1. /\ t.cancelled
        /\ t.cut = (s.cut \/ ~(s.hopTold \/ (s.ask.follow # "off" /\ (s.target = 0 \/ s.target # s.hop))))
    BY <1>1, <1>4
  <2>2. /\ t.started = s.started /\ t.ask = s.ask /\ t.promise = s.promise /\ t.res = s.res
        /\ t.body = s.body /\ t.signal = s.signal /\ t.listening = s.listening
        /\ t.aborted = s.aborted /\ t.chain = s.chain /\ t.hidden = s.hidden /\ t.sends = s.sends
        /\ t.stream = s.stream /\ t.told = s.told /\ t.wire = s.wire /\ t.location = s.location
        /\ t.hop = s.hop /\ t.target = s.target /\ t.hopTold = s.hopTold /\ t.lookup = s.lookup
    BY <1>1 DEF Frame
  <2>3. Kinds(t) /\ Asked(t) /\ Promising(t) /\ Handing(t) /\ Ending(t) /\ Closing(t) /\ Informed(t)
    BY <1>2, <2>1, <2>2 DEF Underlying, Kinds, Asked, Promising, Handing, Ending, Closing, Informed
  <2>4. Heeded(t) /\ Forwarded(t)
    BY <2>1 DEF Heeded, Forwarded
  <2>5. Reaching(t)
    <3>1. OnLine(s) => s.hop # 0
      BY <1>2 DEF OnLine, Begun
    <3> QED
      BY <1>2, <1>4, <2>1, <2>2, <3>1 DEF Underlying, Reaching, OnLine, Ending
  <2>6. Streaming(t)
    BY <1>2, <2>2 DEF Underlying, Streaming
  <2> QED
    BY <1>1, <2>3, <2>4, <2>5, <2>6 DEF Kept, t
<1> QED
  BY <1>3, <1>4

LEMMA RequestErrorActs ==
  ASSUME NEW w, Bears(w)
  PROVE  /\ Differs(RequestError(w), w, {"listening", "promise", "res", "body"})
         /\ LET s == w.s
                t == RequestError(w).s
            IN /\ t.listening = IF s.res = "none" THEN FALSE ELSE s.listening
               /\ t.promise = IF s.promise = "waiting" THEN "rejecting" ELSE s.promise
               /\ t.res = IF s.res \in {"open", "ended"} THEN "closing" ELSE s.res
               /\ t.body = IF s.body = "none" THEN "none" ELSE "destroyed"
<1> DEFINE s == w.s
           F == {"listening", "promise", "res", "body"}
           u == Unlisten(s)
           t == [u EXCEPT !.promise = IF s.promise = "waiting" THEN "rejecting" ELSE s.promise,
                          !.res = IF s.res \in {"open", "ended"} THEN "closing" ELSE s.res,
                          !.body = IF s.body = "none" THEN s.body ELSE "destroyed"]
<1>1. DOMAIN s = Fields /\ DOMAIN w = {"r", "s", "reg", "mon", "lookups"}
  BY DEF Bears
<1>2. /\ DOMAIN u = Fields /\ SameBut(u, s, F)
      /\ u.listening = IF s.res = "none" THEN FALSE ELSE s.listening
      /\ u.promise = s.promise /\ u.res = s.res /\ u.body = s.body
  <2>1. CASE s.res = "none"
    <3>1. u = [s EXCEPT !.listening = FALSE]
      BY <2>1 DEF Unlisten
    <3> HIDE DEF u
    <3> QED
      BY <1>1, <2>1, <3>1, FieldNames DEF SameBut
  <2>2. CASE s.res # "none"
    <3>1. u = s
      BY <2>2 DEF Unlisten
    <3> HIDE DEF u
    <3> QED
      BY <1>1, <2>2, <3>1 DEF SameBut
  <2> QED
    BY <2>1, <2>2
<1>3. RequestError(w) = [w EXCEPT !.s = t]
  BY <1>1, <1>2, FieldNames DEF RequestError
<1> HIDE DEF u
<1>4. /\ SameBut(t, u, F) /\ t.listening = u.listening
      /\ t.promise = IF s.promise = "waiting" THEN "rejecting" ELSE s.promise
      /\ t.res = IF s.res \in {"open", "ended"} THEN "closing" ELSE s.res
      /\ t.body = IF s.body = "none" THEN "none" ELSE "destroyed"
  BY <1>2, FieldNames DEF SameBut
<1> HIDE DEF t
<1>5. SameBut(t, s, F)
  BY <1>2, <1>4 DEF SameBut
<1>6. Frame(t, s, F) /\ DOMAIN t = Fields
  BY <1>1, <1>5, Framed
<1>7. RequestError(w).s = t /\ RequestError(w).r = w.r /\ DOMAIN RequestError(w) = DOMAIN w
  BY <1>1, <1>3
<1> QED
  BY <1>1, <1>2, <1>4, <1>6, <1>7 DEF Differs, Bears

(* The promise of a request that was aborted or has ended is settled.      *)
LEMMA RequestErrorSettles ==
  ASSUME NEW w, Bears(w), Kinds(w.s), Asked(w.s), Promising(w.s), Reaching(w.s), Streaming(w.s),
         Heeded(w.s), Closing(w.s), w.s.hopTold => w.s.told,
         w.s.wire = "upgraded" => w.s.ask.upgrade, w.s.promise = "waiting" \/ Ending(w.s),
         w.s.aborted \/ w.s.told
  PROVE  /\ Kept(RequestError(w).s)
         /\ Differs(RequestError(w), w, {"listening", "promise", "res", "body"})
<1> DEFINE s == w.s
           t == RequestError(w).s
<1>1. Differs(RequestError(w), w, {"listening", "promise", "res", "body"})
  BY RequestErrorActs
<1>2. /\ t.listening = IF s.res = "none" THEN FALSE ELSE s.listening
      /\ t.promise = IF s.promise = "waiting" THEN "rejecting" ELSE s.promise
      /\ t.res = IF s.res \in {"open", "ended"} THEN "closing" ELSE s.res
      /\ t.body = IF s.body = "none" THEN "none" ELSE "destroyed"
  BY RequestErrorActs
<1>3. Frame(t, s, {"listening", "promise", "res", "body"})
  BY <1>1 DEF Differs
<1>4. /\ Kinds(s) /\ Asked(s) /\ Promising(s) /\ Reaching(s) /\ Streaming(s)
      /\ Heeded(s) /\ Closing(s) /\ (s.aborted \/ s.told)
      /\ s.hopTold => s.told
      /\ s.wire = "upgraded" => s.ask.upgrade
      /\ s.promise = "waiting" \/ Ending(s)
  OBVIOUS
<1> HIDE DEF s, t
<1>5. /\ t.started = s.started /\ t.ask = s.ask /\ t.signal = s.signal
      /\ t.aborted = s.aborted /\ t.chain = s.chain /\ t.hidden = s.hidden /\ t.sends = s.sends
      /\ t.stream = s.stream /\ t.told = s.told /\ t.wire = s.wire /\ t.location = s.location
      /\ t.hop = s.hop /\ t.target = s.target /\ t.hopTold = s.hopTold /\ t.lookup = s.lookup
      /\ t.cancelled = s.cancelled /\ t.cut = s.cut
  BY <1>3 DEF Frame
<1>6. Kinds(t) /\ Asked(t)
  BY <1>2, <1>4, <1>5 DEF Kinds, Asked
<1>7. Promising(t)
  BY <1>2, <1>4, <1>5 DEF Promising
<1>8. Handing(t) /\ Informed(t) /\ Forwarded(t)
  BY <1>2 DEF Handing, Informed, Forwarded
<1>9. Reaching(t) /\ Heeded(t)
  BY <1>4, <1>5 DEF Reaching, Heeded, OnLine
<1>10. Ending(t) /\ Closing(t)
  BY <1>2, <1>4, <1>5 DEF Ending, Closing
<1>11. Streaming(t)
  BY <1>4, <1>5 DEF Streaming
<1> QED
  BY <1>1, <1>6, <1>7, <1>8, <1>9, <1>10, <1>11 DEF Kept, t

LEMMA RequestErrorKeeps ==
  ASSUME NEW w, Bears(w), Underlying(w.s), Heeded(w.s), Closing(w.s), w.s.aborted \/ w.s.told
  PROVE  /\ Kept(RequestError(w).s)
         /\ Differs(RequestError(w), w, {"listening", "promise", "res", "body"})
BY RequestErrorSettles DEF Underlying, Ending

-----------------------------------------------------------------------------
(* The bodies of factories.                                                *)

Dead(b) == b \in Stream /\ SoundStream(b) /\ Stopped(b)

LEMMA StreamIsDestroyed ==
  ASSUME NEW b \in Stream, SoundStream(b)
  PROVE  Dead(DestroyStream(b)) /\ (b.state = "none" => DestroyStream(b) = b)
<1> DEFINE d == DestroyStream(b)
<1>1. ASSUME b.state = "open" PROVE Dead(d)
  <2>1. d = [b EXCEPT !.state = "closed", !.destroyed = TRUE, !.watching = FALSE,
                      !.signal = IF b.signal = "live" /\ b.inner # "read" THEN "aborted" ELSE b.signal,
                      !.inner = IF b.inner = "alive" THEN "destroyed" ELSE b.inner]
    BY <1>1 DEF DestroyStream, CloseStream, Stream
  <2> HIDE DEF d
  <2> QED
    BY <1>1, <2>1 DEF SoundStream, Stream, Stopped, Dead
<1>2. ASSUME b.state = "new" PROVE Dead(d)
  <2>1. d = [b EXCEPT !.destroyed = TRUE, !.watching = FALSE]
    BY <1>2 DEF DestroyStream
  <2> HIDE DEF d
  <2> QED
    BY <1>2, <2>1 DEF SoundStream, Stream, Stopped, Dead
<1>3. ASSUME b.state = "calling" PROVE Dead(d)
  <2>1. d = [b EXCEPT !.destroyed = TRUE, !.watching = FALSE, !.signal = "aborted"]
    BY <1>3 DEF DestroyStream
  <2> HIDE DEF d
  <2> QED
    BY <1>3, <2>1 DEF SoundStream, Stream, Stopped, Dead
<1>4. ASSUME b.state \in {"none", "closed"} PROVE d = b /\ Dead(d)
  <2>1. d = b
    BY <1>4 DEF DestroyStream
  <2> HIDE DEF d
  <2> QED
    BY <1>4, <2>1 DEF SoundStream, Stopped, Dead
<1> HIDE DEF d
<1>5. Dead(d) /\ (b.state = "none" => d = b)
  BY <1>1, <1>2, <1>3, <1>4 DEF Stream
<1> QED
  BY <1>5 DEF d

LEMMA StreamCloses ==
  ASSUME NEW b \in Stream, b.signal # "none"
  PROVE  Dead(CloseStream(b)) /\ CloseStream(b).state = "closed"
<1> DEFINE d == CloseStream(b)
<1>1. d = [b EXCEPT !.state = "closed", !.destroyed = TRUE, !.watching = FALSE,
                    !.signal = IF b.signal = "live" /\ b.inner # "read" THEN "aborted" ELSE b.signal,
                    !.inner = IF b.inner = "alive" THEN "destroyed" ELSE b.inner]
  BY DEF CloseStream, Stream
<1> HIDE DEF d
<1>2. Dead(d) /\ d.state = "closed"
  BY <1>1 DEF SoundStream, Stream, Stopped, Dead
<1> QED
  BY <1>2 DEF d

-----------------------------------------------------------------------------
(* The signal.                                                             *)

LEMMA Puts ==
  ASSUME NEW w, Bears(w), NEW t, DOMAIN t = Fields
  PROVE  LET v == [w EXCEPT !.s = t] IN Bears(v) /\ v.s = t /\ v.r = w.r
BY DEF Bears

LEMMA OnAbortKeeps ==
  ASSUME NEW w, Shape(w), Begun(w.s), Kept(w.s)
  PROVE  Bears(OnAbort(w)) /\ Kept(OnAbort(w).s)
<1> DEFINE s == w.s
           t == [s EXCEPT !.aborted = TRUE]
           u == [t EXCEPT !.res = "closed", !.listening = FALSE]
           marked == [w EXCEPT !.s = t]
           called == CallAbort(marked)
<1>1. Typed(s) /\ Begun(s) /\ Kept(s) /\ Bears(w) /\ DOMAIN s = Fields
  BY DEF Shape, Typed, Bears
<1>2. OnAbort(w) = IF s.res \in {"open", "ended"} THEN CallAbort(Closed(marked))
                   ELSE IF called.s.promise = "waiting" THEN RequestError(called) ELSE called
  <2>1. [w EXCEPT !.s.aborted = TRUE] = marked
    OBVIOUS
  <2> QED
    BY <2>1 DEF OnAbort, Closed
<1>3. Frame(t, s, {"aborted"}) /\ t.aborted = TRUE /\ DOMAIN t = Fields
  <2>1. SameBut(t, s, {"aborted"}) /\ t.aborted = TRUE
    BY <1>1, FieldNames DEF SameBut
  <2> HIDE DEF t
  <2> QED
    BY <1>1, <2>1, Framed
<1>4. Frame(u, t, {"res", "listening"}) /\ u.res = "closed" /\ u.listening = FALSE /\ DOMAIN u = Fields
  <2>1. DOMAIN t = Fields
    BY <1>1
  <2> HIDE DEF t
  <2>2. SameBut(u, t, {"res", "listening"}) /\ u.res = "closed" /\ u.listening = FALSE
    BY <2>1, FieldNames DEF SameBut
  <2> HIDE DEF u
  <2> QED
    BY <2>1, <2>2, Framed
<1> HIDE DEF t, u
<1>5. Bears(marked) /\ marked.s = t
  BY <1>1, <1>3, Puts
<1>6. Bears(Closed(marked)) /\ Closed(marked).s = u
  <2>1. Closed(marked) = [marked EXCEPT !.s = u]
    BY <1>5 DEF Closed, u, Bears
  <2> HIDE DEF marked
  <2> QED
    BY <1>4, <1>5, <2>1, Puts
<1> HIDE DEF marked, s
<1>7. /\ t.ask = s.ask /\ t.started = s.started /\ t.promise = s.promise /\ t.res = s.res
      /\ t.signal = s.signal /\ t.listening = s.listening /\ t.chain = s.chain /\ t.body = s.body
      /\ t.lookup = s.lookup /\ t.target = s.target /\ t.cancelled = s.cancelled /\ t.told = s.told
      /\ t.hidden = s.hidden /\ t.location = s.location /\ t.sends = s.sends /\ t.hop = s.hop
      /\ t.wire = s.wire /\ t.cut = s.cut /\ t.hopTold = s.hopTold /\ t.stream = s.stream
  BY <1>3 DEF Frame
<1>8. Begun(t)
  BY <1>1, <1>7 DEF Begun
<1>9. Underlying(t)
  <2>0. Kinds(s) /\ Asked(s) /\ Promising(s) /\ Reaching(s) /\ Ending(s)
    BY <1>1 DEF Kept
  <2>a. Kinds(t)
    BY <1>3, <1>7, <2>0 DEF Kinds
  <2>b. Asked(t)
    BY <1>7, <2>0 DEF Asked
  <2>c. Promising(t)
    BY <1>3, <1>7, <2>0 DEF Promising
  <2>d. Reaching(t) /\ Ending(t)
    BY <1>7, <2>0 DEF Reaching, Ending, OnLine
  <2>1. Kinds(t) /\ Asked(t) /\ Promising(t) /\ Reaching(t) /\ Ending(t)
    BY <2>a, <2>b, <2>c, <2>d
  <2>2. Streaming(t)
    BY <1>1, <1>7 DEF Kept, Streaming
  <2> QED
    BY <2>1, <2>2 DEF Underlying
<1>10. Handing(t) /\ Closing(t) /\ Informed(t) /\ Forwarded(t)
  BY <1>1, <1>7 DEF Kept, Handing, Closing, Informed, Forwarded
<1>11. Mild(marked, w) /\ Shape(marked)
  <2>1. [w EXCEPT !.s.aborted = TRUE] = [w EXCEPT !.s = t]
    BY DEF t, s
  <2>2. SameBut(t, s, Soft)
    BY <1>1, FieldNames DEF SameBut, Soft, t
  <2>3. Typed(t)
    BY <1>1, <1>7, <2>2, Retyped DEF Typed
  <2>4. Mild(marked, w)
    BY <1>7, <2>2, <2>3, Softly DEF marked, s
  <2> QED
    BY <2>4 DEF Mild
<1>12. Typed(t)
  BY <1>5, <1>11 DEF Shape
<1>13. CASE s.res \in {"open", "ended"}
  <2>1. /\ u.ask = t.ask /\ u.started = t.started /\ u.promise = t.promise
        /\ u.signal = t.signal /\ u.chain = t.chain /\ u.body = t.body /\ u.aborted = t.aborted
        /\ u.lookup = t.lookup /\ u.target = t.target /\ u.cancelled = t.cancelled /\ u.told = t.told
        /\ u.hidden = t.hidden /\ u.location = t.location /\ u.sends = t.sends /\ u.hop = t.hop
        /\ u.wire = t.wire /\ u.cut = t.cut /\ u.hopTold = t.hopTold /\ u.stream = t.stream
    BY <1>4 DEF Frame
  <2>2. Typed(u)
    BY <1>6, <1>11, Closes DEF Mild, Shape
  <2>3. Begun(u)
    BY <1>8, <2>1 DEF Begun
  <2>4. Underlying(u)
    <3>1. Kinds(u) /\ Asked(u) /\ Promising(u) /\ Reaching(u) /\ Ending(u)
      BY <1>4, <1>7, <1>9, <1>13, <2>1 DEF Underlying, Kinds, Asked, Promising, Reaching, Ending, OnLine
    <3>2. Streaming(u)
      BY <1>9, <2>1 DEF Underlying, Streaming
    <3> QED
      BY <3>1, <3>2 DEF Underlying
  <2>5. Handing(u) /\ Closing(u) /\ Informed(u) /\ Forwarded(u)
    BY <1>10, <2>1 DEF Handing, Closing, Informed, Forwarded
  <2>6. OnAbort(w) = CallAbort(Closed(marked))
    BY <1>2, <1>13
  <2> QED
    BY <1>6, <2>2, <2>3, <2>4, <2>5, <2>6, CallAbortKeeps DEF Differs
<1>14. CASE ~(s.res \in {"open", "ended"})
  <2>1. Kept(called.s) /\ Differs(called, marked, {"cancelled", "cut"})
    BY <1>5, <1>8, <1>9, <1>10, <1>12, CallAbortKeeps
  <2>2. Bears(called) /\ called.s.aborted
    BY <1>3, <1>5, <2>1 DEF Differs, Frame
  <2> HIDE DEF called
  <2>3. Kept(RequestError(called).s) /\ Differs(RequestError(called), called, {"listening", "promise", "res", "body"})
    BY <2>1, <2>2, RequestErrorKeeps DEF Kept, Underlying
  <2> QED
    BY <1>2, <1>14, <2>1, <2>2, <2>3 DEF Differs
<1> QED
  BY <1>13, <1>14

AllKept == \A r \in Requests : Kept(req[r])

LEMMA KeepsAll ==
  ASSUME IInv, AllKept, NEW r \in Requests, NEW w, w.r = r, Kept(w.s), Becomes(w)
  PROVE  AllKept'
BY DEF AllKept, Becomes, IInv

(* The listeners that remain.                                              *)
LEMMA RestHearsKeeps ==
  ASSUME NEW w, Bears(w), Kept(w.s)
  PROVE  RestHears(w).r = w.r /\ Kept(RestHears(w).s)
<1> DEFINE h == w.s
           streams == [k \in Hops |-> IF h.stream[k].watching THEN DestroyStream(h.stream[k])
                                      ELSE h.stream[k]]
           broken == \E k \in {h.hop} \cap Hops :
                       h.stream[k].watching /\ h.stream[k].state = "open"
           t == [h EXCEPT !.lookup = IF h.lookup = "under way" THEN "rejected" ELSE h.lookup,
                          !.stream = streams, !.cut = h.cut \/ broken]
           F == {"lookup", "stream", "cut"}
<1>1. RestHears(w) = [w EXCEPT !.s = t]
  BY FieldNames DEF RestHears, Bears
<1>2. DOMAIN h = Fields /\ Kept(h)
  BY DEF Bears
<1>3. ASSUME NEW k \in Hops
      PROVE  /\ streams[k] \in Stream /\ SoundStream(streams[k])
             /\ Stopped(h.stream[k]) => Stopped(streams[k])
             /\ h.stream[k].state = "none" => streams[k].state = "none"
  <2>1. h.stream[k] \in Stream /\ SoundStream(h.stream[k])
    BY <1>2 DEF Kept, Kinds, Streaming
  <2>2. streams[k] = h.stream[k] \/ streams[k] = DestroyStream(h.stream[k])
    OBVIOUS
  <2> QED
    BY <2>1, <2>2, StreamIsDestroyed DEF Dead
<1>4. streams \in [Hops -> Stream]
  BY <1>3
<1> HIDE DEF streams, broken
<1>5. /\ SameBut(t, h, F) /\ t.lookup = IF h.lookup = "under way" THEN "rejected" ELSE h.lookup
      /\ t.stream = streams /\ t.cut = (h.cut \/ broken)
  BY <1>2, FieldNames DEF SameBut
<1> HIDE DEF t
<1>6. Frame(t, h, F) /\ DOMAIN t = Fields
  BY <1>2, <1>5, Framed
<1>7. RestHears(w).s = t /\ RestHears(w).r = w.r
  BY <1>1, <1>6, Puts
<1> HIDE DEF h
<1>8. /\ t.ask = h.ask /\ t.started = h.started /\ t.promise = h.promise /\ t.res = h.res
      /\ t.signal = h.signal /\ t.listening = h.listening /\ t.chain = h.chain /\ t.body = h.body
      /\ t.aborted = h.aborted /\ t.target = h.target /\ t.cancelled = h.cancelled
      /\ t.hidden = h.hidden /\ t.location = h.location /\ t.sends = h.sends /\ t.hop = h.hop
      /\ t.wire = h.wire /\ t.told = h.told /\ t.hopTold = h.hopTold
  BY <1>6 DEF Frame
<1>9. Kinds(t) /\ Asked(t) /\ Promising(t) /\ Handing(t)
  BY <1>2, <1>4, <1>5, <1>8 DEF Kept, Kinds, Asked, Promising, Handing
<1>10. Reaching(t) /\ Heeded(t)
  BY <1>2, <1>5, <1>8 DEF Kept, Reaching, Heeded, OnLine
<1>11. Ending(t) /\ Closing(t) /\ Informed(t) /\ Forwarded(t)
  <2>1. t.lookup \in {"none", "done"} => h.lookup \in {"none", "done"}
    BY <1>5
  <2>2. Ending(h) /\ Closing(h) /\ Informed(h) /\ Forwarded(h)
    BY <1>2 DEF Kept
  <2>3. Ending(t)
    BY <1>8, <2>1, <2>2 DEF Ending
  <2>4. Forwarded(t)
    BY <1>5, <1>8, <2>2 DEF Forwarded
  <2> QED
    BY <1>8, <2>2, <2>3, <2>4 DEF Closing, Informed
<1>12. Streaming(t)
  BY <1>2, <1>3, <1>5, <1>8 DEF Kept, Streaming
<1> QED
  BY <1>7, <1>9, <1>10, <1>11, <1>12 DEF Kept

LEMMA AbortKeeps ==
  ASSUME IInv, AllKept, NEW r \in Requests, Abort(r)
  PROVE  AllKept'
<1> DEFINE s == req[r]
           f == [s EXCEPT !.signal = "aborted"]
           fired == [System(r) EXCEPT !.s = f]
           heard == IF s.listening THEN OnAbort(fired) ELSE fired
<1>1. /\ Typed(s) /\ Begun(s) /\ Shape(System(r)) /\ System(r).s = s /\ System(r).r = r
      /\ Kept(s) /\ s.signal = "live"
  BY Present DEF Others, System, Own, Layered, AllKept, Abort
<1>2. SameBut(f, s, {"signal"}) /\ f.signal = "aborted" /\ DOMAIN f = Fields /\ DOMAIN s = Fields
  BY <1>1, FieldNames DEF SameBut, Typed
<1>3. Becomes(RestHears(heard))
  BY DEF Abort, System
<1> HIDE DEF f
<1>4. Frame(f, s, {"signal"}) /\ SameBut(f, s, Soft)
  BY <1>2, Framed DEF SameBut, Soft
<1>5. Shape(fired) /\ Bears(fired) /\ fired.s = f /\ fired.r = r
  <2>1. Typed(f)
    BY <1>1, <1>2, <1>4, Retyped DEF Typed, Frame
  <2>2. Mild(fired, System(r))
    BY <1>1, <1>4, <2>1, Softly DEF Frame
  <2>3. Bears(System(r))
    BY <1>1 DEF Bears, Shape, Typed
  <2> QED
    BY <1>1, <1>2, <2>2, <2>3, Puts DEF Mild
<1> HIDE DEF fired, s
<1>6. /\ f.ask = s.ask /\ f.started = s.started /\ f.promise = s.promise /\ f.res = s.res
      /\ f.listening = s.listening /\ f.chain = s.chain /\ f.body = s.body
      /\ f.aborted = s.aborted /\ f.target = s.target /\ f.cancelled = s.cancelled
      /\ f.hidden = s.hidden /\ f.location = s.location /\ f.sends = s.sends /\ f.hop = s.hop
      /\ f.wire = s.wire /\ f.told = s.told /\ f.hopTold = s.hopTold
      /\ f.lookup = s.lookup /\ f.cut = s.cut /\ f.stream = s.stream
  BY <1>4 DEF Frame
<1>7. Begun(f)
  BY <1>1, <1>6 DEF Begun
<1>8. Kept(f)
  <2>1. Kinds(f) /\ Asked(f) /\ Promising(f) /\ Handing(f) /\ Informed(f)
    BY <1>1, <1>6 DEF Kept, Kinds, Asked, Promising, Handing, Informed
  <2>2. Reaching(f) /\ Heeded(f) /\ Ending(f) /\ Closing(f) /\ Forwarded(f)
    BY <1>1, <1>6 DEF Kept, Reaching, Heeded, OnLine, Ending, Closing, Forwarded
  <2>3. Streaming(f)
    BY <1>1, <1>6 DEF Kept, Streaming
  <2> QED
    BY <2>1, <2>2, <2>3 DEF Kept
<1>9. Bears(heard) /\ Kept(heard.s) /\ heard.r = r
  <2>1. OnAbort(fired).r = fired.r
    BY <1>5, AbortIsHeard DEF Mild
  <2> QED
    BY <1>5, <1>7, <1>8, <2>1, OnAbortKeeps
<1> HIDE DEF heard
<1> QED
  BY <1>3, <1>9, RestHearsKeeps, KeepsAll

-----------------------------------------------------------------------------
(* The caller.                                                             *)

(* A step that only changes what the caller has in hand.                   *)
LEMMA ClosedKeeps ==
  ASSUME NEW w, Shape(w), Kept(w.s), w.s.res # "none"
  PROVE  /\ Kept(Closed(w).s) /\ Closed(w).r = w.r /\ Bears(Closed(w))
         /\ Frame(Closed(w).s, w.s, {"res", "listening"})
<1> DEFINE s == w.s
           t == [s EXCEPT !.res = "closed", !.listening = FALSE]
<1>1. DOMAIN s = Fields /\ Kept(s) /\ Bears(w) /\ s.res # "none"
  BY DEF Shape, Typed, Bears
<1>2. Closed(w) = [w EXCEPT !.s = t]
  BY <1>1 DEF Closed, Bears
<1>3. SameBut(t, s, {"res", "listening"}) /\ t.res = "closed" /\ t.listening = FALSE
  BY <1>1, FieldNames DEF SameBut
<1> HIDE DEF t
<1>4. Frame(t, s, {"res", "listening"}) /\ DOMAIN t = Fields
  BY <1>1, <1>3, Framed
<1>5. Closed(w).s = t /\ Closed(w).r = w.r /\ Bears(Closed(w))
  BY <1>1, <1>2, <1>4, Puts
<1> HIDE DEF s
<1>6. /\ t.ask = s.ask /\ t.started = s.started /\ t.promise = s.promise
      /\ t.signal = s.signal /\ t.chain = s.chain /\ t.body = s.body
      /\ t.aborted = s.aborted /\ t.target = s.target /\ t.cancelled = s.cancelled
      /\ t.hidden = s.hidden /\ t.location = s.location /\ t.sends = s.sends /\ t.hop = s.hop
      /\ t.wire = s.wire /\ t.told = s.told /\ t.hopTold = s.hopTold
      /\ t.lookup = s.lookup /\ t.cut = s.cut /\ t.stream = s.stream
  BY <1>4 DEF Frame
<1>7. Kinds(t) /\ Asked(t) /\ Promising(t) /\ Handing(t) /\ Informed(t)
  BY <1>1, <1>3, <1>6 DEF Kept, Kinds, Asked, Promising, Handing, Informed
<1>8. Reaching(t) /\ Heeded(t) /\ Ending(t) /\ Closing(t) /\ Forwarded(t)
  BY <1>1, <1>6 DEF Kept, Reaching, Heeded, OnLine, Ending, Closing, Forwarded
<1>9. Streaming(t)
  BY <1>1, <1>6 DEF Kept, Streaming
<1>10. Kept(t)
  BY <1>7, <1>8, <1>9 DEF Kept
<1> QED
  BY <1>4, <1>5, <1>10 DEF s

(* What an action starts from.                                             *)
LEMMA From ==
  ASSUME IInv, AllKept, NEW r \in Requests
  PROVE  /\ Shape(System(r)) /\ Bears(System(r)) /\ System(r).s = req[r] /\ System(r).r = r
         /\ Typed(req[r]) /\ Begun(req[r]) /\ OnWire(req[r]) /\ Kept(req[r])
         /\ DOMAIN req[r] = Fields
<1>1. Shape(System(r)) /\ System(r).s = req[r] /\ System(r).r = r
  BY Present DEF Others, System
<1>2. Typed(req[r]) /\ Begun(req[r]) /\ OnWire(req[r]) /\ Kept(req[r])
  BY Present, <1>1 DEF Own, Layered, AllKept
<1> QED
  BY <1>1, <1>2 DEF Bears, Shape, Typed

LEMMA PutsKept ==
  ASSUME IInv, AllKept, NEW r \in Requests, NEW w, Bears(w), w.r = r,
         NEW t, DOMAIN t = Fields, Kept(t), Becomes([w EXCEPT !.s = t])
  PROVE  AllKept'
<1> DEFINE v == [w EXCEPT !.s = t]
<1>1. v.s = t /\ v.r = r
  BY Puts
<1>2. Becomes(v)
  OBVIOUS
<1> HIDE DEF v
<1> QED
  BY <1>1, <1>2, KeepsAll

LEMMA CallAbortKept ==
  ASSUME NEW w, Bears(w), Typed(w.s), Begun(w.s), Kept(w.s)
  PROVE  Kept(CallAbort(w).s) /\ CallAbort(w).r = w.r
BY CallAbortKeeps DEF Kept, Underlying, Differs

LEMMA HandsKeep ==
  ASSUME IInv, AllKept, NEW r \in Requests, Read(r) \/ Drop(r)
  PROVE  AllKept'
<1> DEFINE w == System(r)
<1>1. /\ Shape(w) /\ Bears(w) /\ w.s = req[r] /\ w.r = r
      /\ Typed(req[r]) /\ Begun(req[r]) /\ Kept(req[r])
  BY From
<1>2. ASSUME req[r].res # "none"
      PROVE  /\ Kept(Closed(w).s) /\ Closed(w).r = r
             /\ Kept(CallAbort(Closed(w)).s) /\ CallAbort(Closed(w)).r = r
  <2> HIDE DEF w
  <2>1. /\ Kept(Closed(w).s) /\ Closed(w).r = r /\ Bears(Closed(w))
        /\ Frame(Closed(w).s, w.s, {"res", "listening"})
    BY <1>1, <1>2, ClosedKeeps
  <2>2. Typed(Closed(w).s)
    BY <1>1, Closes DEF Mild, Shape
  <2>3. Begun(Closed(w).s)
    BY <1>1, <2>1 DEF Begun, Frame
  <2> QED
    BY <2>1, <2>2, <2>3, CallAbortKept
<1>3. ASSUME req[r].res # "none", Becomes(Closed(w)) \/ Becomes(CallAbort(Closed(w)))
      PROVE  AllKept'
  BY <1>2, <1>3, KeepsAll
<1>4. ASSUME Becomes(CallAbort(w)) PROVE AllKept'
  <2> HIDE DEF w
  <2> QED
    BY <1>1, <1>4, CallAbortKept, KeepsAll
<1> QED
  BY <1>3, <1>4 DEF Read, Drop, Closed

LEMMA RejectKeeps ==
  ASSUME IInv, AllKept, NEW r \in Requests, Reject(r)
  PROVE  AllKept'
<1> DEFINE w == System(r)
           s == req[r]
           t == [s EXCEPT !.promise = "rejected"]
<1>1. Shape(w) /\ Bears(w) /\ w.s = s /\ w.r = r /\ Kept(s) /\ DOMAIN s = Fields
  BY From
<1>2. CASE s.res = "closing" /\ Becomes(Closed(w))
  BY <1>1, <1>2, ClosedKeeps, KeepsAll
<1>3. CASE s.promise = "rejecting" /\ Becomes([w EXCEPT !.s = t])
  <2>1. SameBut(t, s, {"promise"}) /\ t.promise = "rejected" /\ DOMAIN t = Fields
    BY <1>1, FieldNames DEF SameBut
  <2> HIDE DEF t
  <2>2. Frame(t, s, {"promise"})
    BY <1>1, <2>1, Framed
  <2> HIDE DEF s, w
  <2>3. Kinds(t) /\ Asked(t) /\ Promising(t) /\ Handing(t)
    BY <1>1, <1>3, <2>1, <2>2 DEF Kept, Kinds, Asked, Promising, Handing, Frame
  <2>4. Reaching(t) /\ Heeded(t) /\ Ending(t) /\ Closing(t) /\ Informed(t) /\ Forwarded(t)
    BY <1>1, <1>3, <2>1, <2>2
       DEF Kept, Reaching, Heeded, OnLine, Ending, Closing, Informed, Forwarded, Frame
  <2>5. Streaming(t)
    BY <1>1, <2>2 DEF Kept, Streaming, Frame
  <2>6. Kept(t)
    BY <2>3, <2>4, <2>5 DEF Kept
  <2> QED
    BY <1>1, <1>3, <2>1, <2>6, PutsKept
<1>4. [w EXCEPT !.s.promise = "rejected"] = [w EXCEPT !.s = t]
  BY DEF System
<1> QED
  BY <1>2, <1>3, <1>4 DEF Reject, Closed

-----------------------------------------------------------------------------
(* The lookup.                                                             *)

LEMMA LookupKeeps ==
  ASSUME IInv, AllKept, NEW r \in Requests, LookupSettles(r)
  PROVE  AllKept'
<1> DEFINE w == System(r)
           s == req[r]
<1>1. Bears(w) /\ w.s = s /\ w.r = r /\ Kept(s) /\ DOMAIN s = Fields
  BY From
<1>2. PICK outcome \in {"resolved", "rejected"} : Becomes([w EXCEPT !.s.lookup = outcome])
  BY DEF LookupSettles
<1> DEFINE t == [s EXCEPT !.lookup = outcome]
<1>3. [w EXCEPT !.s.lookup = outcome] = [w EXCEPT !.s = t]
  BY DEF System
<1>4. SameBut(t, s, {"lookup"}) /\ t.lookup \notin {"none", "done"} /\ DOMAIN t = Fields
  BY <1>1, FieldNames DEF SameBut
<1> HIDE DEF t
<1>5. Frame(t, s, {"lookup"})
  BY <1>1, <1>4, Framed
<1> HIDE DEF s, w
<1>6. Kinds(t) /\ Asked(t) /\ Promising(t) /\ Handing(t)
  BY <1>1, <1>5 DEF Kept, Kinds, Asked, Promising, Handing, Frame
<1>7. Reaching(t) /\ Heeded(t) /\ Ending(t) /\ Closing(t) /\ Informed(t) /\ Forwarded(t)
  BY <1>1, <1>4, <1>5
     DEF Kept, Reaching, Heeded, OnLine, Ending, Closing, Informed, Forwarded, Frame
<1>8. Streaming(t)
  BY <1>1, <1>5 DEF Kept, Streaming, Frame
<1>9. Kept(t)
  BY <1>6, <1>7, <1>8 DEF Kept
<1>10. Becomes([w EXCEPT !.s = t])
  BY <1>2, <1>3
<1> QED
  BY <1>1, <1>4, <1>9, <1>10, PutsKept

-----------------------------------------------------------------------------
(* The ends of an attempt.                                                 *)

LEMMA CutKeeps ==
  ASSUME NEW w, Bears(w), Kept(w.s)
  PROVE  LET v == [w EXCEPT !.s.cut = TRUE]
         IN Kept(v.s) /\ v.r = w.r /\ Bears(v) /\ Frame(v.s, w.s, {"cut"}) /\ v.s.cut
<1> DEFINE s == w.s
           t == [s EXCEPT !.cut = TRUE]
<1>1. SameBut(t, s, {"cut"}) /\ t.cut /\ DOMAIN t = Fields /\ DOMAIN s = Fields
  BY FieldNames DEF SameBut, Bears
<1>2. [w EXCEPT !.s.cut = TRUE] = [w EXCEPT !.s = t]
  BY DEF Bears
<1> HIDE DEF t
<1>3. Frame(t, s, {"cut"})
  BY <1>1, Framed
<1>4. Kept(s)
  OBVIOUS
<1>5. LET v == [w EXCEPT !.s = t] IN v.s = t /\ v.r = w.r /\ Bears(v)
  BY <1>1, Puts
<1> HIDE DEF s
<1>6. Kinds(t) /\ Asked(t) /\ Promising(t) /\ Handing(t)
  BY <1>3, <1>4 DEF Kept, Kinds, Asked, Promising, Handing, Frame
<1>7. Reaching(t) /\ Heeded(t) /\ Ending(t) /\ Closing(t) /\ Informed(t) /\ Forwarded(t)
  BY <1>1, <1>3, <1>4
     DEF Kept, Reaching, Heeded, OnLine, Ending, Closing, Informed, Forwarded, Frame
<1>8. Streaming(t)
  BY <1>3, <1>4 DEF Kept, Streaming, Frame
<1> QED
  BY <1>1, <1>2, <1>3, <1>5, <1>6, <1>7, <1>8 DEF Kept, s

(* What holds of a request whose attempt fails.                            *)
Failable(s) ==
  /\ Underlying(s) /\ Heeded(s) /\ Informed(s)
  /\ s.hopTold => Handing(s)
  /\ s.told => s.hopTold

LEMMA PressureErrorKeeps ==
  ASSUME NEW w, Bears(w), Failable(w.s), NEW e
  PROVE  LET v == PressureError(w, e)
         IN /\ Kept(v.s) /\ v.r = w.r /\ Bears(v)
            /\ Frame(v.s, w.s, {"hopTold", "told", "listening", "promise", "res", "body"})
<1> DEFINE s == w.s
           n == Pressure!Failed(w.mon, Attempt(w), e)
           settled == [w EXCEPT !.mon = n]
           t == [s EXCEPT !.hopTold = TRUE]
           x == [settled EXCEPT !.s = t]
           u == [t EXCEPT !.told = TRUE]
           g == Log!Leave(w.reg, w.r)
           told == [w EXCEPT !.mon = n, !.s = u, !.reg = g]
<1>1. DOMAIN w = {"r", "s", "reg", "mon", "lookups"} /\ DOMAIN s = Fields /\ Failable(s)
  BY DEF Bears
<1>2. /\ SameBut(u, s, {"hopTold", "told"}) /\ u.hopTold /\ u.told /\ DOMAIN u = Fields
      /\ t.told = s.told
  BY <1>1, FieldNames DEF SameBut
<1>3. PressureError(w, e) = IF s.hopTold THEN settled
                            ELSE IF s.told THEN x ELSE RequestError(told)
  <2>1. [settled EXCEPT !.s.hopTold = TRUE] = x
    BY <1>1
  <2>2. PressureError(w, e) = IF s.hopTold THEN settled ELSE UpError(x)
    BY <2>1 DEF PressureError
  <2>3. x.s = t /\ x.r = w.r /\ x.reg = w.reg
    BY <1>1
  <2>4. LogDone([x EXCEPT !.s.told = TRUE]) = told
    <3>1. [x EXCEPT !.s.told = TRUE] = [w EXCEPT !.mon = n, !.s = u]
      BY <1>1
    <3>2. LogDone([w EXCEPT !.mon = n, !.s = u]) = told
      BY <1>1 DEF LogDone
    <3> HIDE DEF x, u, told
    <3> QED
      BY <3>1, <3>2
  <2> HIDE DEF x, t, told
  <2>5. UpError(x) = IF s.told THEN x ELSE RequestError(told)
    BY <1>2, <2>3, <2>4 DEF UpError
  <2> QED
    BY <2>2, <2>5
<1> HIDE DEF t, u, x
<1>4. Bears(settled) /\ settled.s = s /\ settled.r = w.r
  BY <1>1 DEF Bears
<1>5. Bears(told) /\ told.s = u /\ told.r = w.r
  BY <1>1, <1>2 DEF Bears
<1> HIDE DEF settled, told, n
<1>6. Frame(u, s, {"hopTold", "told"})
  BY <1>1, <1>2, Framed
<1>7. CASE s.hopTold
  <2>1. Kept(s)
    BY <1>1, <1>7 DEF Failable, Underlying, Ending, Closing, Forwarded, Kept
  <2>2. Frame(s, s, {"hopTold", "told", "listening", "promise", "res", "body"})
    BY DEF Frame
  <2> QED
    BY <1>3, <1>4, <1>7, <2>1, <2>2
<1>8. CASE ~s.hopTold
  <2>1. PressureError(w, e) = RequestError(told)
    BY <1>1, <1>3, <1>8 DEF Failable
  <2> HIDE DEF s
  <2>2. Kinds(u) /\ Asked(u) /\ Promising(u)
    BY <1>1, <1>2, <1>6 DEF Failable, Underlying, Kinds, Asked, Promising, Frame
  <2>3. Reaching(u) /\ Ending(u) /\ Heeded(u) /\ Closing(u)
    BY <1>1, <1>2, <1>6
       DEF Failable, Underlying, Reaching, OnLine, Ending, Heeded, Closing, Frame
  <2>4. Streaming(u)
    BY <1>1, <1>6 DEF Failable, Underlying, Streaming, Frame
  <2>5. /\ Kept(RequestError(told).s)
        /\ Differs(RequestError(told), told, {"listening", "promise", "res", "body"})
    BY <1>2, <1>5, <2>2, <2>3, <2>4, RequestErrorKeeps DEF Underlying
  <2> HIDE DEF told
  <2>6. /\ Frame(RequestError(told).s, u, {"listening", "promise", "res", "body"})
        /\ Bears(RequestError(told)) /\ RequestError(told).r = w.r
    BY <1>5, <2>5 DEF Differs
  <2>7. Frame(RequestError(told).s, s, {"hopTold", "told", "listening", "promise", "res", "body"})
    BY <1>6, <2>6 DEF Frame
  <2> QED
    BY <2>1, <2>5, <2>6, <2>7 DEF s
<1> QED
  BY <1>7, <1>8

(* The body that was made for an attempt.                                  *)
Streamed(s) ==
  \A k \in Hops :
    /\ SoundStream(s.stream[k])
    /\ k > s.hop \/ (s.started /\ s.ask.upgrade) => s.stream[k].state = "none"
    /\ k < s.hop => Stopped(s.stream[k])

LEMMA DestroyBodyStops ==
  ASSUME NEW w, Bears(w), Kinds(w.s), w.s.hop \in Hops, Streamed(w.s)
  PROVE  LET v == DestroyBody(w)
         IN /\ Kinds(v.s) /\ Streaming(v.s) /\ v.r = w.r /\ Bears(v)
            /\ Frame(v.s, w.s, {"stream"})
<1> DEFINE s == w.s
           d == DestroyStream(s.stream[s.hop])
           x == [s.stream EXCEPT ![s.hop] = d]
           t == [s EXCEPT !.stream = x]
<1>1. /\ DOMAIN s = Fields /\ DOMAIN w = {"r", "s", "reg", "mon", "lookups"}
      /\ Kinds(s) /\ s.hop \in Hops /\ Streamed(s)
  BY DEF Bears
<1>2. DestroyBody(w) = [w EXCEPT !.s = t]
  BY <1>1, FieldNames DEF DestroyBody
<1>3. Dead(d) /\ (s.stream[s.hop].state = "none" => d = s.stream[s.hop])
  <2>1. s.stream[s.hop] \in Stream /\ SoundStream(s.stream[s.hop])
    BY <1>1 DEF Kinds, Streamed
  <2> HIDE DEF s
  <2> QED
    BY <2>1, StreamIsDestroyed
<1> HIDE DEF d
<1>4. /\ x \in [Hops -> Stream] /\ x[s.hop] = d
      /\ \A k \in Hops : k # s.hop => x[k] = s.stream[k]
  BY <1>1, <1>3 DEF Kinds, Dead
<1> HIDE DEF x
<1>5. SameBut(t, s, {"stream"}) /\ t.stream = x /\ DOMAIN t = Fields
  BY <1>1, FieldNames DEF SameBut
<1> HIDE DEF t
<1>6. Frame(t, s, {"stream"})
  BY <1>1, <1>5, Framed
<1>7. LET v == [w EXCEPT !.s = t] IN v.s = t /\ v.r = w.r /\ Bears(v)
  BY <1>5, Puts
<1> HIDE DEF s
<1>8. Kinds(t)
  BY <1>1, <1>4, <1>5, <1>6 DEF Kinds, Frame
<1>9. t.hop = s.hop /\ t.started = s.started /\ t.ask = s.ask
  BY <1>6 DEF Frame
<1>10. Streaming(t)
  <2> SUFFICES ASSUME NEW k \in Hops
               PROVE  /\ SoundStream(x[k])
                      /\ k > s.hop \/ (s.started /\ s.ask.upgrade) => x[k].state = "none"
                      /\ k < s.hop \/ k = s.hop => Stopped(x[k])
    BY <1>5, <1>9 DEF Streaming
  <2>1. s.hop \in Nat /\ k \in Nat
    BY <1>1, Places
  <2>2. CASE k = s.hop
    <3>1. SoundStream(d) /\ Stopped(d)
      BY <1>3 DEF Dead
    <3>2. s.started /\ s.ask.upgrade => d.state = "none"
      BY <1>1, <1>3 DEF Streamed
    <3> QED
      BY <1>4, <2>1, <2>2, <3>1, <3>2
  <2>3. CASE k # s.hop
    BY <1>1, <1>4, <2>3 DEF Streamed
  <2> QED
    BY <2>2, <2>3
<1> QED
  BY <1>2, <1>6, <1>7, <1>8, <1>10 DEF s

(* An attempt is over, and with it its body.                               *)
LEMMA Ceases ==
  ASSUME NEW w, Bears(w), w.s.wire = "closed", w.s.hop \in Hops, Kinds(w.s), Asked(w.s),
         Promising(w.s), Heeded(w.s), Informed(w.s), Ending(w.s), Streamed(w.s),
         w.s.hopTold => Handing(w.s), w.s.told => w.s.hopTold
  PROVE  LET v == DestroyBody(w)
         IN Bears(v) /\ v.r = w.r /\ Failable(v.s) /\ Frame(v.s, w.s, {"stream"})
<1> DEFINE s == w.s
           v == DestroyBody(w)
<1>1. /\ s.wire = "closed" /\ Asked(s) /\ Promising(s) /\ Heeded(s) /\ Informed(s)
      /\ Ending(s) /\ (s.hopTold => Handing(s)) /\ (s.told => s.hopTold)
  OBVIOUS
<1>2. /\ Kinds(v.s) /\ Streaming(v.s) /\ v.r = w.r /\ Bears(v) /\ Frame(v.s, s, {"stream"})
  BY DestroyBodyStops
<1> HIDE DEF v, s
<1>3. Asked(v.s) /\ Promising(v.s) /\ Reaching(v.s)
  BY <1>1, <1>2 DEF Asked, Promising, Reaching, OnLine, Frame
<1>4. /\ Heeded(v.s) /\ Informed(v.s) /\ Ending(v.s)
      /\ v.s.hopTold => Handing(v.s)
      /\ v.s.told => v.s.hopTold
  BY <1>1, <1>2 DEF Heeded, Informed, Ending, Handing, Frame
<1> QED
  BY <1>2, <1>3, <1>4 DEF Failable, Underlying, v, s

LEMMA OverStops ==
  ASSUME IInv, AllKept, NEW r \in Requests, req[r].wire \notin {"none", "upgraded"}
  PROVE  LET v == Over(r)
         IN /\ Bears(v) /\ v.r = r /\ Failable(v.s)
            /\ Frame(v.s, req[r], {"wire", "stream"}) /\ v.s.wire = "closed"
<1> DEFINE s == req[r]
           t == [s EXCEPT !.wire = "closed"]
           w == [System(r) EXCEPT !.s = t]
           v == Over(r)
<1>1. /\ Bears(System(r)) /\ System(r).s = s /\ System(r).r = r /\ Kept(s) /\ OnWire(s)
      /\ DOMAIN s = Fields /\ s.hop \in Hops /\ s.hop \in Nat /\ s.hop > 0
      /\ s.wire \notin {"none", "upgraded"}
  BY From, OnTheWire, Places DEF UnderWay
<1>2. Over(r) = DestroyBody(w)
  BY DEF Over, System
<1>3. SameBut(t, s, {"wire"}) /\ t.wire = "closed" /\ DOMAIN t = Fields
  BY <1>1, FieldNames DEF SameBut
<1> HIDE DEF t
<1>4. Frame(t, s, {"wire"})
  BY <1>1, <1>3, Framed
<1>5. Bears(w) /\ w.s = t /\ w.r = r
  BY <1>1, <1>3, Puts
<1> HIDE DEF w, s, v
<1>6. Kinds(t) /\ Asked(t) /\ Promising(t)
  BY <1>1, <1>3, <1>4 DEF Kept, Kinds, Asked, Promising, Frame
<1>7. Heeded(t) /\ Informed(t)
  BY <1>1, <1>3, <1>4 DEF Kept, Heeded, Informed, Frame
<1>8. Ending(t) /\ (t.hopTold => Handing(t)) /\ (t.told => t.hopTold)
  BY <1>1, <1>3, <1>4 DEF Kept, Ending, Handing, OnWire, Frame
<1>9. Streamed(t)
  BY <1>1, <1>4 DEF Kept, Streaming, Streamed, Frame
<1>10. t.hop \in Hops
  BY <1>1, <1>4 DEF Frame
<1>11. Bears(v) /\ v.r = r /\ Failable(v.s) /\ Frame(v.s, t, {"stream"})
  BY <1>2, <1>3, <1>5, <1>6, <1>7, <1>8, <1>9, <1>10, Ceases DEF v
<1>12. Frame(v.s, s, {"wire", "stream"}) /\ v.s.wire = "closed"
  BY <1>3, <1>4, <1>11 DEF Frame
<1> QED
  BY <1>11, <1>12 DEF v, s

LEMMA FailureKeeps ==
  ASSUME IInv, AllKept, NEW r \in Requests, Fail(r) \/ LateRejection(r) \/ Overrun(r)
  PROVE  AllKept'
<1> DEFINE w == Over(r)
<1>1. /\ Bears(System(r)) /\ System(r).s = req[r] /\ System(r).r = r /\ Kept(req[r])
      /\ OnWire(req[r]) /\ DOMAIN req[r] = Fields
  BY From
<1>2. ASSUME req[r].wire \notin {"none", "upgraded"}, NEW e, Becomes(PressureError(w, e))
      PROVE  AllKept'
  <2>1. Bears(w) /\ w.r = r /\ Failable(w.s)
    BY <1>2, OverStops
  <2> HIDE DEF w
  <2>2. Kept(PressureError(w, e).s) /\ PressureError(w, e).r = r
    BY <2>1, PressureErrorKeeps
  <2> QED
    BY <1>2, <2>2, KeepsAll
<1>3. CASE Fail(r)
  <2>1. PICK e : Becomes(PressureError(w, e))
    BY <1>3 DEF Fail
  <2> HIDE DEF w
  <2> QED
    BY <1>2, <1>3, <2>1 DEF Fail
<1>4. CASE LateRejection(r)
  <2> DEFINE v == DestroyBody(System(r))
  <2>1. Becomes(PressureError(v, FALSE)) /\ req[r].wire = "closed"
    BY <1>4 DEF LateRejection
  <2>2. req[r].hop \in Hops /\ req[r].hop > 0
    BY <2>1, OnTheWire DEF UnderWay
  <2>3. Streamed(req[r])
    BY <1>1 DEF Kept, Streaming, Streamed
  <2>4. Bears(v) /\ v.r = r /\ Failable(v.s)
    BY <1>1, <2>1, <2>2, <2>3, Ceases DEF Kept, OnWire
  <2> HIDE DEF v
  <2>5. Kept(PressureError(v, FALSE).s) /\ PressureError(v, FALSE).r = r
    BY <2>4, PressureErrorKeeps
  <2> QED
    BY <2>1, <2>5, KeepsAll
<1>5. CASE Overrun(r)
  <2> DEFINE v == PressureError(System(r), FALSE)
  <2>1. Becomes([v EXCEPT !.s.cut = TRUE]) /\ req[r].wire = "headers"
    BY <1>5 DEF Overrun
  <2>2. req[r].hop > 0
    BY <2>1, OnTheWire
  <2>3. Failable(req[r])
    BY <1>1, <2>2 DEF Kept, Failable, Underlying, OnWire
  <2>4. Kept(v.s) /\ v.r = r /\ Bears(v)
    BY <1>1, <2>3, PressureErrorKeeps
  <2> HIDE DEF v
  <2> DEFINE u == [v EXCEPT !.s.cut = TRUE]
  <2>5. Kept(u.s) /\ u.r = r
    BY <2>4, CutKeeps
  <2> HIDE DEF u
  <2> QED
    BY <2>1, <2>5, KeepsAll DEF u
<1> QED
  BY <1>3, <1>4, <1>5

-----------------------------------------------------------------------------
(* The bodies of factories.                                                *)

LEMMA StreamChanges ==
  ASSUME NEW s, Kept(s), NEW k \in Hops, NEW b \in Stream, SoundStream(b),
         s.stream[k].state # "none", Stopped(s.stream[k]) => Stopped(b),
         NEW t, Frame(t, s, {"stream", "cut"}), t.stream = [s.stream EXCEPT ![k] = b], s.cut => t.cut
  PROVE  Kept(t)
<1>1. /\ t.stream \in [Hops -> Stream] /\ t.stream[k] = b
      /\ \A j \in Hops : j # k => t.stream[j] = s.stream[j]
  BY DEF Kept, Kinds
<1>2. Kinds(t) /\ Asked(t) /\ Promising(t) /\ Handing(t)
  BY <1>1 DEF Kept, Kinds, Asked, Promising, Handing, Frame
<1>3. Reaching(t) /\ Heeded(t) /\ Ending(t) /\ Closing(t) /\ Informed(t) /\ Forwarded(t)
  BY DEF Kept, Reaching, Heeded, OnLine, Ending, Closing, Informed, Forwarded, Frame
<1>4. Streaming(t)
  <2>1. t.hop = s.hop /\ t.started = s.started /\ t.ask = s.ask /\ t.wire = s.wire
    BY DEF Frame
  <2>2. Streaming(s)
    BY DEF Kept
  <2> SUFFICES ASSUME NEW j \in Hops
               PROVE  /\ SoundStream(t.stream[j])
                      /\ j > s.hop \/ (s.started /\ s.ask.upgrade) => t.stream[j].state = "none"
                      /\ j < s.hop \/ (j = s.hop /\ s.wire = "closed") => Stopped(t.stream[j])
    BY <2>1 DEF Streaming
  <2>3. CASE j = k
    BY <1>1, <2>2, <2>3 DEF Streaming
  <2>4. CASE j # k
    BY <1>1, <2>2, <2>4 DEF Streaming
  <2> QED
    BY <2>3, <2>4
<1> QED
  BY <1>2, <1>3, <1>4 DEF Kept

LEMMA FactoriesKeep ==
  ASSUME IInv, AllKept, NEW r \in Requests, NEW k \in Hops,
         ConstructStream(r, k) \/ FactorySettles(r, k) \/ BodyEnds(r, k)
  PROVE  AllKept'
<1> DEFINE w == System(r)
           s == req[r]
           a == s.stream[k]
<1>1. /\ Bears(w) /\ w.s = s /\ w.r = r /\ Kept(s) /\ DOMAIN s = Fields
      /\ a \in Stream /\ SoundStream(a)
  BY From DEF Kept, Kinds, Streaming
<1>2. ASSUME NEW b \in Stream, SoundStream(b), a.state # "none", Stopped(a) => Stopped(b),
             Becomes(WithStream(r, k, b))
      PROVE  AllKept'
  <2> DEFINE x == [s.stream EXCEPT ![k] = b]
             c == s.cut \/ (k = s.hop /\ b.state = "closed" /\ b.inner # "read")
             t == [s EXCEPT !.stream = x, !.cut = c]
  <2>1. WithStream(r, k, b) = [w EXCEPT !.s = t]
    BY <1>1, FieldNames DEF WithStream, System
  <2> HIDE DEF x, c
  <2>2. SameBut(t, s, {"stream", "cut"}) /\ t.stream = x /\ t.cut = c /\ DOMAIN t = Fields
    BY <1>1, FieldNames DEF SameBut
  <2> HIDE DEF t
  <2>3. Frame(t, s, {"stream", "cut"})
    BY <1>1, <2>2, Framed
  <2>4. Kept(t)
    BY <1>1, <1>2, <2>2, <2>3, StreamChanges DEF x, c
  <2> QED
    BY <1>1, <1>2, <2>1, <2>2, <2>4, PutsKept
<1>3. ASSUME ConstructStream(r, k) PROVE AllKept'
  <2> DEFINE b == Construct(a)
             x == [s.stream EXCEPT ![k] = b]
             t == [s EXCEPT !.stream = x]
  <2>1. a.state = "new" /\ Becomes([w EXCEPT !.s.stream[k] = Construct(@)])
    BY <1>3 DEF ConstructStream
  <2>2. [w EXCEPT !.s.stream[k] = Construct(@)] = [w EXCEPT !.s = t]
    BY <1>1, FieldNames DEF System
  <2>3. b \in Stream /\ SoundStream(b) /\ (Stopped(a) => Stopped(b))
    <3>1. b = [a EXCEPT !.state = "calling", !.signal = IF a.destroyed THEN "aborted" ELSE "live"]
      BY DEF Construct
    <3> HIDE DEF b, a, s
    <3> QED
      BY <1>1, <2>1, <3>1 DEF Stream, SoundStream, Stopped
  <2> HIDE DEF x, b
  <2>4. SameBut(t, s, {"stream", "cut"}) /\ t.stream = x /\ t.cut = s.cut /\ DOMAIN t = Fields
    BY <1>1, FieldNames DEF SameBut
  <2> HIDE DEF t
  <2>5. Frame(t, s, {"stream", "cut"})
    BY <1>1, <2>4, Framed
  <2>6. Kept(t)
    BY <1>1, <2>1, <2>3, <2>4, <2>5, StreamChanges DEF x
  <2>7. Becomes([w EXCEPT !.s = t])
    BY <2>1, <2>2
  <2> QED
    BY <1>1, <2>4, <2>6, <2>7, PutsKept
<1>4. ASSUME FactorySettles(r, k) PROVE AllKept'
  <2>1. PICK ok \in BOOLEAN : Becomes(WithStream(r, k, Made(a, ok)))
    BY <1>4 DEF FactorySettles
  <2>2. a.state = "calling"
    BY <1>4 DEF FactorySettles
  <2> DEFINE made == [a EXCEPT !.state = "open", !.inner = "alive"]
             b == Made(a, ok)
  <2> HIDE DEF s, a, w
  <2>3. made \in Stream /\ made.signal = a.signal /\ a.signal # "none"
    BY <1>1, <2>2 DEF Stream, SoundStream
  <2>4. CASE ok /\ ~a.destroyed
    <3>1. b = made
      BY <2>4 DEF Made
    <3> HIDE DEF b
    <3>2. SoundStream(made) /\ ~Stopped(a)
      BY <1>1, <2>2, <2>4 DEF Stream, SoundStream, Stopped
    <3> QED
      BY <1>2, <2>1, <2>2, <2>3, <3>1, <3>2 DEF b
  <2>5. CASE ~(ok /\ ~a.destroyed)
    <3>1. b = CloseStream(made) \/ b = CloseStream(a)
      BY <2>5 DEF Made
    <3> HIDE DEF b, made
    <3>2. Dead(b)
      BY <1>1, <2>3, <3>1, StreamCloses
    <3> QED
      BY <1>2, <2>1, <2>2, <3>2 DEF b, Dead
  <2> QED
    BY <2>4, <2>5
<1>5. ASSUME BodyEnds(r, k) PROVE AllKept'
  <2> DEFINE b == CloseStream([a EXCEPT !.inner = "read"])
             c == CloseStream(a)
  <2>1. a.state = "open" /\ (Becomes(WithStream(r, k, b)) \/ Becomes(WithStream(r, k, c)))
    BY <1>5 DEF BodyEnds
  <2> HIDE DEF s, a, w
  <2>2. a.signal # "none" /\ [a EXCEPT !.inner = "read"] \in Stream
        /\ [a EXCEPT !.inner = "read"].signal = a.signal
    BY <1>1, <2>1 DEF Stream, SoundStream
  <2>3. Dead(b) /\ Dead(c)
    BY <1>1, <2>2, StreamCloses
  <2> HIDE DEF b, c
  <2> QED
    BY <1>2, <2>1, <2>3 DEF Dead
<1> QED
  BY <1>3, <1>4, <1>5

-----------------------------------------------------------------------------
(* A connection that is the caller's.                                      *)

LEMMA UpgradeKeeps ==
  ASSUME IInv, AllKept, NEW r \in Requests, Upgrade(r)
  PROVE  AllKept'
<1> DEFINE s == req[r]
           t == [s EXCEPT !.wire = "upgraded", !.hopTold = TRUE, !.told = TRUE]
           w == [System(r) EXCEPT !.s = t]
           n == Pressure!Settle(w.mon, Attempt(w), FALSE)
           v == [w EXCEPT !.mon = n]
<1>1. /\ Bears(System(r)) /\ System(r).r = r /\ Kept(s) /\ Begun(s) /\ DOMAIN s = Fields
  BY From
<1>2. Becomes(v) /\ s.wire = "connected" /\ s.ask.upgrade
  <2>1. [System(r) EXCEPT !.s.wire = "upgraded", !.s.hopTold = TRUE, !.s.told = TRUE] = w
    BY DEF System
  <2> QED
    BY <2>1 DEF Upgrade
<1>3. /\ SameBut(t, s, {"wire", "hopTold", "told"}) /\ t.wire = "upgraded" /\ t.hopTold /\ t.told
      /\ DOMAIN t = Fields
  BY <1>1, FieldNames DEF SameBut
<1> HIDE DEF t
<1>4. Frame(t, s, {"wire", "hopTold", "told"})
  BY <1>1, <1>3, Framed
<1>5. Bears(w) /\ w.s = t /\ w.r = r
  BY <1>1, <1>3, Puts
<1> HIDE DEF w, n
<1>6. v.s = t /\ v.r = r
  BY <1>5 DEF Bears
<1> HIDE DEF v, s
<1>7. s.started /\ s.ask.raw /\ s.promise = "none" /\ s.res = "none" /\ s.body = "none"
  BY <1>1, <1>2 DEF Begun, Kept, Asked
<1>8. Kinds(t) /\ Asked(t) /\ Promising(t) /\ Handing(t) /\ Informed(t)
  BY <1>1, <1>3, <1>4, <1>7 DEF Kept, Kinds, Asked, Promising, Handing, Informed, Frame
<1>9. Reaching(t) /\ Heeded(t) /\ Ending(t) /\ Closing(t) /\ Forwarded(t)
  BY <1>1, <1>2, <1>3, <1>4
     DEF Kept, Reaching, Heeded, OnLine, Ending, Closing, Forwarded, Frame
<1>10. Streaming(t)
  BY <1>1, <1>3, <1>4 DEF Kept, Streaming, Frame
<1>11. Kept(t)
  BY <1>8, <1>9, <1>10 DEF Kept
<1> QED
  BY <1>2, <1>6, <1>11, KeepsAll

LEMMA SocketKeeps ==
  ASSUME IInv, AllKept, NEW r \in Requests, SocketCloses(r)
  PROVE  AllKept'
<1> DEFINE s == req[r]
           t == [s EXCEPT !.wire = "closed"]
           w == [System(r) EXCEPT !.s = t]
           g == Log!Leave(w.reg, w.r)
           v == [w EXCEPT !.reg = g]
<1>1. /\ Bears(System(r)) /\ System(r).r = r /\ Kept(s) /\ Begun(s) /\ DOMAIN s = Fields
  BY From
<1>2. Becomes(v) /\ s.wire = "upgraded"
  <2>1. [System(r) EXCEPT !.s.wire = "closed"] = w
    BY DEF System
  <2> QED
    BY <2>1 DEF SocketCloses, LogDone
<1>3. SameBut(t, s, {"wire"}) /\ t.wire = "closed" /\ DOMAIN t = Fields
  BY <1>1, FieldNames DEF SameBut
<1> HIDE DEF t
<1>4. Frame(t, s, {"wire"})
  BY <1>1, <1>3, Framed
<1>5. Bears(w) /\ w.s = t /\ w.r = r
  BY <1>1, <1>3, Puts
<1> HIDE DEF w, g
<1>6. v.s = t /\ v.r = r
  BY <1>5 DEF Bears
<1> HIDE DEF v, s
<1>7. s.started /\ s.ask.upgrade /\ s.told
  BY <1>1, <1>2 DEF Begun, Kept, Ending, Closing
<1>8. Kinds(t) /\ Asked(t) /\ Promising(t) /\ Handing(t) /\ Informed(t)
  BY <1>1, <1>2, <1>3, <1>4 DEF Kept, Kinds, Asked, Promising, Handing, Informed, Frame
<1>9. Reaching(t) /\ Heeded(t) /\ Ending(t) /\ Closing(t) /\ Forwarded(t)
  BY <1>1, <1>3, <1>4, <1>7
     DEF Kept, Reaching, Heeded, OnLine, Ending, Closing, Forwarded, Frame
<1>10. Streaming(t)
  BY <1>1, <1>3, <1>4, <1>7 DEF Kept, Streaming, Stopped, Frame
<1>11. Kept(t)
  BY <1>8, <1>9, <1>10 DEF Kept
<1> QED
  BY <1>2, <1>6, <1>11, KeepsAll

-----------------------------------------------------------------------------
(* The headers.                                                            *)

(* A request that has an answer and whose caller does not know it yet.     *)
Expectant(x) ==
  /\ Underlying(x) /\ Handing(x) /\ Heeded(x) /\ Closing(x) /\ Informed(x)
  /\ x.started /\ x.wire = "headers" /\ ~x.cancelled /\ ~x.told
  /\ IF x.ask.raw THEN x.promise # "waiting" ELSE x.promise = "waiting"

LEMMA Answering ==
  ASSUME NEW s, Typed(s), Kept(s), Begun(s), OnWire(s), s.wire = "connected", ~s.cut,
         NEW x, Frame(x, s, {"wire", "location", "cut", "sends"}), x.wire = "headers",
         x.sends \in {s.sends, "none"}
  PROVE  Expectant(x) /\ (x.cut \/ x.location => Kept(x))
<1>1. s.started /\ s.hop > 0 /\ ~s.hopTold
  <2>1. s.hop \in Nat /\ s.hop # 0
    <3>1. s.hop \in 0..MaxHops /\ MaxHops \in Nat
      BY Places DEF Typed
    <3>2. s.hop # 0
      BY DEF Begun
    <3> HIDE DEF Typed
    <3> QED
      BY ONLY <3>1, <3>2
  <2>2. s.hop > 0
    BY <2>1
  <2> QED
    BY <2>1, <2>2 DEF Typed, Begun, OnWire
<1>2. ~s.told /\ s.chain /\ ~s.cancelled
  BY <1>1 DEF Kept, Reaching, OnLine, OnWire
<1>3. s.res = "none" /\ s.promise # "resolved"
  BY DEF Kept, Promising
<1>4. IF s.ask.raw THEN s.promise # "waiting" ELSE s.promise = "waiting"
  BY <1>1, <1>2, <1>3 DEF Kept, Promising, Heeded, Asked, Typed
<1>5. /\ x.started /\ ~x.cancelled /\ ~x.told
      /\ IF x.ask.raw THEN x.promise # "waiting" ELSE x.promise = "waiting"
  BY <1>1, <1>2, <1>4 DEF Frame
<1>6. Kinds(x) /\ Asked(x)
  BY DEF Kept, Kinds, Asked, Frame
<1>7. Promising(x) /\ Handing(x)
  BY <1>3 DEF Kept, Promising, Handing, Frame
<1>8. Reaching(x) /\ Heeded(x)
  BY <1>2 DEF Kept, Reaching, OnLine, Heeded, Frame
<1>9. Ending(x) /\ Closing(x) /\ Informed(x)
  BY <1>1, <1>2 DEF Kept, Ending, Closing, Informed, Frame
<1>10. Streaming(x)
  BY DEF Kept, Streaming, Frame
<1>11. Expectant(x)
  BY <1>5, <1>6, <1>7, <1>8, <1>9, <1>10 DEF Expectant, Underlying
<1>12. x.cut \/ x.location => Forwarded(x)
  BY DEF Forwarded
<1> QED
  BY <1>11, <1>12 DEF Expectant, Underlying, Kept

LEMMA UpHeadersKeeps ==
  ASSUME NEW w, Bears(w), Expectant(w.s), ~w.s.location, NEW status
  PROVE  Kept(UpHeaders(w, status).s) /\ UpHeaders(w, status).r = w.r
<1> DEFINE s == w.s
           h == [s EXCEPT !.hidden = TRUE]
           t == [s EXCEPT !.promise = "resolved", !.res = "open"]
<1>1. DOMAIN s = Fields /\ Expectant(s) /\ ~s.location
  BY DEF Bears
<1>2. CASE status = "overload"
  <2>1. UpHeaders(w, status) = [w EXCEPT !.s = h]
    BY <1>1, <1>2 DEF UpHeaders, Expectant
  <2>2. SameBut(h, s, {"hidden"}) /\ h.hidden = TRUE /\ DOMAIN h = Fields
    BY <1>1, FieldNames DEF SameBut
  <2> HIDE DEF h
  <2>3. Frame(h, s, {"hidden"})
    BY <1>1, <2>2, Framed
  <2> HIDE DEF s
  <2>4. Kinds(h) /\ Asked(h) /\ Promising(h) /\ Handing(h)
    BY <1>1, <2>2, <2>3 DEF Expectant, Underlying, Kinds, Asked, Promising, Handing, Frame
  <2>5. Reaching(h) /\ Heeded(h) /\ Ending(h) /\ Closing(h) /\ Informed(h) /\ Forwarded(h)
    BY <1>1, <2>2, <2>3
       DEF Expectant, Underlying, Reaching, OnLine, Heeded, Ending, Closing, Informed, Forwarded, Frame
  <2>6. Streaming(h)
    BY <1>1, <2>3 DEF Expectant, Underlying, Streaming, Frame
  <2>7. Kept(h)
    BY <2>4, <2>5, <2>6 DEF Kept
  <2> QED
    BY <2>1, <2>2, <2>7, Puts
<1>3. CASE status # "overload" /\ s.ask.raw
  <2>1. UpHeaders(w, status) = w
    BY <1>1, <1>3 DEF UpHeaders, RequestHeaders
  <2>2. Forwarded(s)
    BY <1>1, <1>3 DEF Expectant, Forwarded
  <2> QED
    BY <1>1, <2>1, <2>2 DEF Expectant, Underlying, Kept
<1>4. CASE status # "overload" /\ ~s.ask.raw
  <2>1. s.promise = "waiting"
    BY <1>1, <1>4 DEF Expectant
  <2>2. UpHeaders(w, status) = [w EXCEPT !.s = t]
    <3>1. RequestHeaders(w) = [w EXCEPT !.s = t]
      BY <1>1, <1>4, <2>1, FieldNames DEF RequestHeaders, Bears
    <3> QED
      BY <1>1, <1>4, <3>1 DEF UpHeaders, Expectant
  <2>3. SameBut(t, s, {"promise", "res"}) /\ t.promise = "resolved" /\ t.res = "open" /\ DOMAIN t = Fields
    BY <1>1, FieldNames DEF SameBut
  <2> HIDE DEF t
  <2>4. Frame(t, s, {"promise", "res"})
    BY <1>1, <2>3, Framed
  <2> HIDE DEF s
  <2>5. Kinds(t) /\ Asked(t) /\ Handing(t)
    BY <1>1, <1>4, <2>3, <2>4 DEF Expectant, Underlying, Kinds, Asked, Handing, Frame
  <2>6. Promising(t)
    BY <1>1, <2>3, <2>4 DEF Expectant, Underlying, Promising, Frame
  <2>7. Reaching(t) /\ Heeded(t) /\ Ending(t) /\ Closing(t) /\ Informed(t) /\ Forwarded(t)
    BY <1>1, <2>3, <2>4
       DEF Expectant, Underlying, Reaching, OnLine, Heeded, Ending, Closing, Informed, Forwarded, Frame
  <2>8. Streaming(t)
    BY <1>1, <2>4 DEF Expectant, Underlying, Streaming, Frame
  <2>9. Kept(t)
    BY <2>5, <2>6, <2>7, <2>8 DEF Kept
  <2> QED
    BY <2>2, <2>3, <2>9, Puts
<1> QED
  BY <1>2, <1>3, <1>4

(* What redirect makes of the headers: it throws or holds them back, or    *)
(* hands them on.                                                          *)
Redirected(w, v, x) ==
  /\ DOMAIN x = Fields /\ Frame(x, w.s, {"location", "cut", "sends"})
  /\ x.sends \in {w.s.sends, "none"}
  /\ \/ v = [w EXCEPT !.s = x] /\ (x.cut \/ x.location)
     \/ v = UpHeaders([w EXCEPT !.s = x], "redirect") /\ ~x.location

LEMMA RedirectOutcomes ==
  ASSUME NEW w, Bears(w), NEW seeOther, NEW located, NEW accepts
  PROVE  \E x : Redirected(w, RedirectHeaders(w, seeOther, located, accepts), x)
<1> DEFINE s == w.s
           c == [s EXCEPT !.location = TRUE, !.count = s.count + 1]
           K == [w EXCEPT !.s = c]
           c0 == [s EXCEPT !.cut = TRUE]
           c1 == [c EXCEPT !.location = FALSE]
           c2 == [c EXCEPT !.cut = TRUE]
           c3 == [c EXCEPT !.sends = "none"]
           v == RedirectHeaders(w, seeOther, located, accepts)
           F == {"location", "cut", "sends", "count"}
<1>1. /\ DOMAIN w = {"r", "s", "reg", "mon", "lookups"} /\ DOMAIN s = Fields
  BY DEF Bears
<1>2. /\ SameBut(c, s, F) /\ c.location = TRUE /\ c.sends = s.sends /\ DOMAIN c = Fields
      /\ SameBut(c0, s, F) /\ c0.cut = TRUE /\ c0.sends = s.sends /\ DOMAIN c0 = Fields
  BY <1>1, FieldNames DEF SameBut
<1>3. /\ Throws(w) = [w EXCEPT !.s = c0]
      /\ [w EXCEPT !.s.location = TRUE, !.s.count = @ + 1] = K
      /\ [K EXCEPT !.s.location = FALSE] = [w EXCEPT !.s = c1]
      /\ [K EXCEPT !.s.cut = TRUE] = [w EXCEPT !.s = c2]
      /\ [K EXCEPT !.s.sends = "none"] = [w EXCEPT !.s = c3]
  <2>1. [w EXCEPT !.s.location = TRUE, !.s.count = @ + 1] = K
    BY <1>1, FieldNames
  <2>2. Throws(w) = [w EXCEPT !.s = c0]
    BY <1>1 DEF Throws
  <2> HIDE DEF c
  <2>3. [K EXCEPT !.s.location = FALSE] = [w EXCEPT !.s = c1]
    BY <1>1
  <2>4. [K EXCEPT !.s.cut = TRUE] = [w EXCEPT !.s = c2]
    BY <1>1
  <2>5. [K EXCEPT !.s.sends = "none"] = [w EXCEPT !.s = c3]
    BY <1>1
  <2> QED
    BY <2>1, <2>2, <2>3, <2>4, <2>5
<1> HIDE DEF c
<1>4. /\ SameBut(c1, c, F) /\ c1.location = FALSE /\ c1.sends = c.sends /\ DOMAIN c1 = Fields
      /\ SameBut(c2, c, F) /\ c2.cut = TRUE /\ c2.sends = c.sends /\ DOMAIN c2 = Fields
  BY <1>2, FieldNames DEF SameBut
<1>5. SameBut(c3, c, F) /\ c3.location = TRUE /\ c3.sends = "none" /\ DOMAIN c3 = Fields
  BY <1>2, FieldNames DEF SameBut
<1>6. v \in {[w EXCEPT !.s = c0], UpHeaders([w EXCEPT !.s = c1], "redirect"),
             [w EXCEPT !.s = c2], K, [w EXCEPT !.s = c3]}
  <2> DEFINE J == [w EXCEPT !.s.location = TRUE, !.s.count = @ + 1]
  <2>1. v = CASE ~located -> Throws(w)
              [] located /\ s.ask.follow = "policy" /\ ~accepts -> PassThrough(J, "redirect")
              [] located /\ accepts /\ s.ask.follow = "limit" /\ J.s.count >= MaxHops -> Throws(J)
              [] located /\ accepts /\ ~seeOther /\ s.sends = "stream" /\ s.body = "disturbed" ->
                   Throws(J)
              [] OTHER -> IF seeOther THEN [J EXCEPT !.s.sends = "none"] ELSE J
    BY Zenon DEF RedirectHeaders
  <2>2. J = K
    BY <1>3
  <2> HIDE DEF J, K, v
  <2>3. Throws(J) = [w EXCEPT !.s = c2]
    BY <1>3, <2>2 DEF Throws
  <2>4. PassThrough(J, "redirect") = UpHeaders([w EXCEPT !.s = c1], "redirect")
    BY <1>3, <2>2 DEF PassThrough
  <2>5. [J EXCEPT !.s.sends = "none"] = [w EXCEPT !.s = c3]
    BY <1>3, <2>2
  <2> HIDE DEF c0, c1, c2, c3
  <2> QED
    BY <1>3, <2>1, <2>2, <2>3, <2>4, <2>5
<1> HIDE DEF c0, c1, c2, c3
<1>7. /\ SameBut(c1, s, F) /\ SameBut(c2, s, F) /\ SameBut(c3, s, F)
  BY <1>2, <1>4, <1>5 DEF SameBut
<1>8. \A x \in {c0, c, c1, c2, c3} : Frame(x, s, F)
  BY <1>1, <1>2, <1>7, Framed
<1>9. \A x \in {c0, c, c1, c2, c3} : Frame(x, s, {"location", "cut", "sends"})
  BY <1>8 DEF Frame
<1> HIDE DEF v
<1>10. CASE v = [w EXCEPT !.s = c0]
  <2>1. Redirected(w, v, c0)
    BY <1>2, <1>9, <1>10 DEF Redirected
  <2> QED
    BY <2>1 DEF v
<1>11. CASE v = UpHeaders([w EXCEPT !.s = c1], "redirect")
  <2>1. Redirected(w, v, c1)
    BY <1>2, <1>4, <1>9, <1>11 DEF Redirected
  <2> QED
    BY <2>1 DEF v
<1>12. CASE v = [w EXCEPT !.s = c2]
  <2>1. Redirected(w, v, c2)
    BY <1>2, <1>4, <1>9, <1>12 DEF Redirected
  <2> QED
    BY <2>1 DEF v
<1>13. CASE v = K
  <2>1. Redirected(w, v, c)
    BY <1>2, <1>9, <1>13 DEF Redirected
  <2> QED
    BY <2>1 DEF v
<1>14. CASE v = [w EXCEPT !.s = c3]
  <2>1. Redirected(w, v, c3)
    BY <1>2, <1>5, <1>9, <1>14 DEF Redirected
  <2> QED
    BY <2>1 DEF v
<1> QED
  BY <1>6, <1>10, <1>11, <1>12, <1>13, <1>14

LEMMA AnswerKeeps ==
  ASSUME IInv, AllKept, NEW r \in Requests, Answer(r)
  PROVE  AllKept'
<1> DEFINE s == req[r]
           t == [s EXCEPT !.wire = "headers"]
<1>1. /\ Bears(System(r)) /\ System(r).r = r /\ Kept(s) /\ Begun(s) /\ OnWire(s) /\ Typed(s)
      /\ DOMAIN s = Fields /\ s.wire = "connected" /\ ~s.cut
  BY From DEF Answer
<1>2. PICK status \in {"final", "overload", "redirect"} :
        LET w == [System(r) EXCEPT !.s.wire = "headers",
                                   !.mon = Pressure!Headers(@, <<r, s.hop>>, status)]
        IN \/ Becomes(UpHeaders(w, status))
           \/ \E seeOther, located, accepts \in BOOLEAN :
                Becomes(RedirectHeaders(w, seeOther, located, accepts))
  BY DEF Answer
<1> DEFINE n == Pressure!Headers(mon, <<r, s.hop>>, status)
           w == [System(r) EXCEPT !.s = t, !.mon = n]
<1>3. [System(r) EXCEPT !.s.wire = "headers",
                        !.mon = Pressure!Headers(@, <<r, s.hop>>, status)] = w
  BY DEF System
<1>4. \/ Becomes(UpHeaders(w, status))
      \/ \E seeOther, located, accepts \in BOOLEAN :
           Becomes(RedirectHeaders(w, seeOther, located, accepts))
  BY <1>2, <1>3
<1>5. SameBut(t, s, {"wire"}) /\ t.wire = "headers" /\ DOMAIN t = Fields /\ Typed(t)
  BY <1>1, FieldNames DEF SameBut, Typed
<1> HIDE DEF t, n
<1>6. Bears(w) /\ w.s = t /\ w.r = r
  BY <1>1, <1>5 DEF Bears
<1> HIDE DEF w
<1>7. Frame(t, s, {"wire"})
  BY <1>1, <1>5, Framed
<1> HIDE DEF s
<1>8. Expectant(t) /\ ~t.location
  <2>1. Frame(t, s, {"wire", "location", "cut", "sends"}) /\ t.sends = s.sends
    BY <1>7 DEF Frame
  <2>2. ~t.location
    BY <1>1, <1>7 DEF OnWire, Frame
  <2> QED
    BY <1>1, <1>5, <2>1, <2>2, Answering
<1>9. ASSUME Becomes(UpHeaders(w, status)) PROVE AllKept'
  BY <1>5, <1>6, <1>8, <1>9, UpHeadersKeeps, KeepsAll
<1>10. ASSUME NEW seeOther \in BOOLEAN, NEW located \in BOOLEAN, NEW accepts \in BOOLEAN,
              Becomes(RedirectHeaders(w, seeOther, located, accepts))
       PROVE  AllKept'
  <2> DEFINE v == RedirectHeaders(w, seeOther, located, accepts)
  <2>1. PICK x : Redirected(w, v, x)
    BY <1>6, RedirectOutcomes
  <2> HIDE DEF v
  <2>2. /\ Frame(x, s, {"wire", "location", "cut", "sends"}) /\ x.wire = "headers"
        /\ x.sends \in {s.sends, "none"} /\ DOMAIN x = Fields
        /\ Frame(x, t, {"location", "cut", "sends"})
    BY <1>5, <1>6, <1>7, <2>1 DEF Redirected, Frame
  <2>3. Expectant(x) /\ (x.cut \/ x.location => Kept(x))
    BY <1>1, <2>2, Answering
  <2> DEFINE u == [w EXCEPT !.s = x]
  <2>4. Bears(u) /\ u.s = x /\ u.r = r
    BY <1>6, <2>2, Puts
  <2>5. \/ v = u /\ (x.cut \/ x.location)
        \/ v = UpHeaders(u, "redirect") /\ ~x.location
    BY <2>1 DEF Redirected
  <2> HIDE DEF u
  <2>6. CASE v = u /\ (x.cut \/ x.location)
    <3>1. v.r = r /\ Kept(v.s)
      BY <2>3, <2>4, <2>6
    <3> QED
      BY <1>10, <3>1, KeepsAll DEF v
  <2>7. CASE v = UpHeaders(u, "redirect") /\ ~x.location
    <3>1. v.r = r /\ Kept(v.s)
      BY <2>3, <2>4, <2>7, UpHeadersKeeps
    <3> QED
      BY <1>10, <3>1, KeepsAll DEF v
  <2> QED
    BY <2>5, <2>6, <2>7
<1> QED
  BY <1>4, <1>9, <1>10

-----------------------------------------------------------------------------
(* The dispatches.                                                         *)

LEMMA RequestConnectActs ==
  ASSUME NEW w, Bears(w), w.s.cut \in BOOLEAN
  PROVE  LET s == w.s
             t == RequestConnect(w).s
         IN /\ Differs(RequestConnect(w), w, {"chain", "cancelled", "cut"}) /\ t.chain = TRUE
            /\ IF ~s.aborted \/ s.cancelled \/ s.told
               THEN t.cancelled = s.cancelled /\ t.cut = s.cut
               ELSE /\ t.cancelled
                    /\ t.cut = (s.cut \/ ~(s.hopTold \/ (s.ask.follow # "off" /\ (s.target = 0 \/ s.target # s.hop))))
<1> DEFINE s == w.s
           i == [s EXCEPT !.chain = TRUE]
           installed == [w EXCEPT !.s = i]
           t == RequestConnect(w).s
<1>1. DOMAIN s = Fields /\ DOMAIN w = {"r", "s", "reg", "mon", "lookups"} /\ s.cut \in BOOLEAN
  BY DEF Bears
<1>2. SameBut(i, s, {"chain"}) /\ i.chain = TRUE /\ DOMAIN i = Fields
  BY <1>1, FieldNames DEF SameBut
<1>3. RequestConnect(w) = IF s.aborted THEN CallAbort(installed) ELSE installed
  BY <1>1 DEF RequestConnect
<1> HIDE DEF i
<1>4. Frame(i, s, {"chain"})
  BY <1>1, <1>2, Framed
<1>5. Bears(installed) /\ installed.s = i /\ installed.r = w.r
  BY <1>2, Puts
<1> HIDE DEF installed
<1>6. CASE ~s.aborted
  <2>1. RequestConnect(w) = installed
    BY <1>3, <1>6
  <2> QED
    BY <1>2, <1>4, <1>5, <1>6, <2>1 DEF Differs, Frame
<1>7. CASE s.aborted
  <2>1. RequestConnect(w) = CallAbort(installed)
    BY <1>3, <1>7
  <2>2. i.cut \in BOOLEAN
    BY <1>1, <1>4 DEF Frame
  <2>3. /\ Bears(RequestConnect(w)) /\ RequestConnect(w).r = w.r /\ Frame(t, i, {"cancelled", "cut"})
        /\ IF ~i.chain \/ i.cancelled \/ i.told THEN t = i
           ELSE /\ t.cancelled
                /\ t.cut = (i.cut \/ ~(i.hopTold \/ (i.ask.follow # "off" /\ (i.target = 0 \/ i.target # i.hop))))
    BY <1>5, <2>1, <2>2, CallAbortActs DEF Differs
  <2> HIDE DEF t
  <2>4. Frame(t, s, {"chain", "cancelled", "cut"}) /\ t.chain = TRUE
    BY <1>2, <1>4, <2>3 DEF Frame
  <2>5. IF ~s.aborted \/ s.cancelled \/ s.told
        THEN t.cancelled = s.cancelled /\ t.cut = s.cut
        ELSE /\ t.cancelled
             /\ t.cut = (s.cut \/ ~(s.hopTold \/ (s.ask.follow # "off" /\ (s.target = 0 \/ s.target # s.hop))))
    BY <1>2, <1>4, <1>7, <2>3 DEF Frame
  <2> QED
    BY <2>3, <2>4, <2>5 DEF Differs, t
<1> QED
  BY <1>6, <1>7

(* A request that is about to be dispatched, for the first time or to      *)
(* another hop.                                                            *)
Poised(s) ==
  /\ Kinds(s) /\ Asked(s) /\ Promising(s) /\ Heeded(s)
  /\ s.started /\ ~s.told /\ s.res = "none"
  /\ s.body = "live" => s.sends = "stream"
  /\ \A k \in Hops :
       /\ SoundStream(s.stream[k])
       /\ k > s.hop \/ s.ask.upgrade => s.stream[k].state = "none"
       /\ k <= s.hop => Stopped(s.stream[k])

LEMMA HopKeeps ==
  ASSUME NEW w, Bears(w), Poised(w.s), w.s.hop \in Nat, w.s.hop + 1 \in Hops, NEW o,
         w.s.ask.follow # "off" => w.s.chain
  PROVE  Kept(DispatchHop(w, o).s) /\ DispatchHop(w, o).r = w.r
<1> DEFINE s == w.s
           k == s.hop + 1
           n == Pressure!Enter(w.mon, <<w.r, k>>, o)
           b == IF s.sends = "factory" THEN NewStream(s) ELSE s.stream[k]
           x == [s.stream EXCEPT ![k] = b]
           t == [s EXCEPT !.hop = k, !.wire = "queued", !.cut = FALSE, !.hopTold = FALSE,
                          !.again = FALSE, !.stream = x]
           F == {"hop", "wire", "cut", "hopTold", "again", "stream"}
<1>1. /\ DOMAIN w = {"r", "s", "reg", "mon", "lookups"} /\ DOMAIN s = Fields /\ Poised(s)
      /\ s.hop \in Nat /\ k \in Hops /\ (s.ask.follow # "off" => s.chain)
  BY DEF Bears
<1>2. DispatchHop(w, o) = [w EXCEPT !.mon = n, !.s = t]
  BY <1>1, FieldNames DEF DispatchHop
<1>3. /\ b \in Stream /\ SoundStream(b)
      /\ s.ask.upgrade => b.state = "none"
  <2>1. CASE s.sends = "factory"
    <3>1. b = [state |-> "new", destroyed |-> s.signal = "aborted", signal |-> "none",
               inner |-> "none", watching |-> s.signal = "live"]
      BY <2>1 DEF NewStream, NoStream
    <3>2. ~s.ask.upgrade
      BY <1>1, <2>1 DEF Poised, Asked
    <3> HIDE DEF b
    <3> QED
      BY <3>1, <3>2 DEF Stream, SoundStream
  <2>2. CASE s.sends # "factory"
    <3>1. b = s.stream[k]
      BY <2>2
    <3> HIDE DEF b, k, s
    <3> QED
      BY <1>1, <3>1 DEF Poised, Kinds
  <2> QED
    BY <2>1, <2>2
<1> HIDE DEF b
<1>4. /\ x \in [Hops -> Stream] /\ x[k] = b
      /\ \A j \in Hops : j # k => x[j] = s.stream[j]
  <2> HIDE DEF k
  <2> QED
    BY <1>1, <1>3 DEF Poised, Kinds
<1> HIDE DEF x, n
<1>5. /\ SameBut(t, s, F) /\ t.hop = k /\ t.wire = "queued" /\ t.cut = FALSE /\ t.hopTold = FALSE
      /\ t.stream = x /\ DOMAIN t = Fields
  <2> HIDE DEF k
  <2> QED
    BY <1>1, FieldNames DEF SameBut
<1> HIDE DEF t
<1>6. Frame(t, s, F)
  BY <1>1, <1>5, Framed
<1>7. DispatchHop(w, o).s = t /\ DispatchHop(w, o).r = w.r
  BY <1>1, <1>2
<1>8. Streaming(t)
  <2>1. t.started = s.started /\ t.ask = s.ask
    BY <1>6 DEF Frame
  <2> SUFFICES ASSUME NEW j \in Hops
               PROVE  /\ SoundStream(x[j])
                      /\ j > k \/ s.ask.upgrade => x[j].state = "none"
                      /\ j < k => Stopped(x[j])
    BY <1>5, <2>1 DEF Streaming
  <2>2. j \in Nat /\ k = s.hop + 1 /\ s.hop \in Nat
    BY <1>1, Places
  <2>3. /\ j > k => j > s.hop
        /\ j < k => j <= s.hop
        /\ ~(k < k) /\ ~(k > k)
    BY <2>2
  <2> HIDE DEF k, s
  <2>4. CASE j = k
    BY <1>3, <1>4, <2>3, <2>4
  <2>5. CASE j # k
    BY <1>1, <1>4, <2>3, <2>5 DEF Poised
  <2> QED
    BY <2>4, <2>5
<1> HIDE DEF s
<1>9. Kinds(t) /\ Asked(t)
  BY <1>1, <1>4, <1>5, <1>6 DEF Poised, Kinds, Asked, Frame
<1>10. Promising(t) /\ Handing(t)
  BY <1>1, <1>5, <1>6 DEF Poised, Promising, Handing, Frame
<1>11. Reaching(t) /\ Heeded(t)
  BY <1>1, <1>5, <1>6 DEF Poised, Reaching, OnLine, Heeded, Frame
<1>12. Ending(t) /\ Closing(t) /\ Informed(t) /\ Forwarded(t)
  BY <1>1, <1>5, <1>6 DEF Poised, Ending, Closing, Informed, Forwarded, Frame
<1> QED
  BY <1>7, <1>8, <1>9, <1>10, <1>11, <1>12 DEF Kept

(* The first dispatch; redirect has handed on an abort by then.            *)
LEMMA DispatchKeeps ==
  ASSUME NEW w, Bears(w), Typed(w.s), Poised(w.s), w.s.hop = 0, w.s.wire = "none", NEW o
  PROVE  /\ Kept(Dispatch(w, o).s) /\ Dispatch(w, o).r = w.r
         /\ Kept(DispatchThrows(w).s) /\ DispatchThrows(w).r = w.r
<1> DEFINE g == Log!Join(w.reg, w.r)
           logged == [w EXCEPT !.reg = g]
           bridged == IF w.s.ask.follow = "off" THEN logged ELSE RequestConnect(logged)
           s == w.s
           b == bridged.s
<1>1. /\ DOMAIN w = {"r", "s", "reg", "mon", "lookups"} /\ DOMAIN s = Fields
      /\ s.cut \in BOOLEAN /\ Poised(s) /\ s.hop = 0 /\ s.wire = "none"
  BY DEF Bears, Typed
<1>2. Bears(logged) /\ logged.s = s /\ logged.r = w.r
  BY <1>1 DEF Bears
<1>3. Dispatch(w, o) = DispatchHop(bridged, o)
  BY DEF Dispatch
<1>4. DispatchThrows(w) = RequestError(LogDone([bridged EXCEPT !.s.told = TRUE]))
  BY DEF DispatchThrows
<1> HIDE DEF logged
<1>5. /\ Bears(bridged) /\ bridged.r = w.r /\ Frame(b, s, {"chain", "cancelled", "cut"})
      /\ s.ask.follow # "off" => b.chain
      /\ b.chain \in BOOLEAN /\ b.cancelled \in BOOLEAN
      /\ b.aborted /\ b.chain => b.cancelled
  <2>1. CASE s.ask.follow = "off"
    <3>1. bridged = logged
      BY <2>1
    <3>2. b = s
      BY <1>2, <3>1
    <3>3. Frame(s, s, {"chain", "cancelled", "cut"})
      BY DEF Frame
    <3>4. /\ s.chain \in BOOLEAN /\ s.cancelled \in BOOLEAN
          /\ s.aborted /\ s.chain => s.cancelled
      BY <1>1 DEF Poised, Kinds, Heeded
    <3> QED
      BY <1>2, <2>1, <3>1, <3>2, <3>3, <3>4
  <2>2. CASE s.ask.follow # "off"
    <3> DEFINE v == RequestConnect(logged)
    <3>1. bridged = v
      BY <2>2
    <3>2. Bears(logged) /\ logged.s.cut \in BOOLEAN
      BY <1>1, <1>2
    <3>3. /\ Differs(v, logged, {"chain", "cancelled", "cut"}) /\ v.s.chain = TRUE
          /\ logged.s.aborted => v.s.cancelled \/ logged.s.told
          /\ v.s.cancelled = logged.s.cancelled \/ v.s.cancelled
      BY <3>2, RequestConnectActs
    <3> HIDE DEF v, bridged
    <3>4. /\ Bears(v) /\ v.r = w.r /\ Frame(v.s, s, {"chain", "cancelled", "cut"})
      BY <1>2, <3>3 DEF Differs
    <3>5. v.s.aborted = s.aborted /\ s.cancelled \in BOOLEAN /\ ~s.told
      BY <1>1, <3>4 DEF Frame, Poised, Kinds
    <3>6. v.s.aborted => v.s.cancelled
      BY <1>2, <3>3, <3>5
    <3>7. v.s.cancelled \in BOOLEAN
      BY <1>2, <3>3, <3>5
    <3> HIDE DEF s
    <3> QED
      BY <3>1, <3>3, <3>4, <3>6, <3>7
  <2> QED
    BY <2>1, <2>2
<1> HIDE DEF bridged, s, b
<1>6. Poised(b)
  <2>1. Kinds(b) /\ Asked(b) /\ Promising(b) /\ Heeded(b)
    BY <1>1, <1>5 DEF Poised, Kinds, Asked, Promising, Heeded, Frame
  <2>2. /\ b.started /\ ~b.told /\ b.res = "none"
        /\ b.body = "live" => b.sends = "stream"
    BY <1>1, <1>5 DEF Poised, Frame
  <2>3. b.hop = s.hop /\ b.ask = s.ask /\ b.stream = s.stream
    BY <1>5 DEF Frame
  <2> QED
    BY <1>1, <2>1, <2>2, <2>3 DEF Poised
<1>7. b.hop = 0 /\ b.wire = "none" /\ 0 + 1 \in Hops /\ (b.ask.follow # "off" => b.chain)
  <2>1. 0 + 1 \in Hops
    BY Places DEF Hops
  <2> QED
    BY <1>1, <1>5, <2>1 DEF Frame
<1>8. bridged.s = b
  BY DEF b
<1>9. Kept(Dispatch(w, o).s) /\ Dispatch(w, o).r = w.r
  BY <1>3, <1>5, <1>6, <1>7, <1>8, HopKeeps
<1>10. Kept(DispatchThrows(w).s) /\ DispatchThrows(w).r = w.r
  <2> DEFINE t == [b EXCEPT !.told = TRUE]
             u == [bridged EXCEPT !.s = t]
             h == Log!Leave(u.reg, u.r)
             v == [u EXCEPT !.reg = h]
  <2>1. SameBut(t, b, {"told"}) /\ t.told /\ DOMAIN t = Fields /\ DOMAIN b = Fields
    BY <1>5, <1>8, FieldNames DEF SameBut, Bears
  <2>2. DispatchThrows(w) = RequestError(v)
    <3>1. [bridged EXCEPT !.s.told = TRUE] = u
      BY <1>5, <1>8 DEF Bears
    <3> QED
      BY <1>4, <3>1 DEF LogDone
  <2> HIDE DEF t, h
  <2>3. Bears(u) /\ u.s = t /\ u.r = w.r
    BY <1>5, <2>1, Puts
  <2> HIDE DEF u
  <2>4. Bears(v) /\ v.s = t /\ v.r = w.r
    BY <2>3 DEF Bears
  <2> HIDE DEF v
  <2>5. Frame(t, b, {"told"})
    BY <2>1, Framed
  <2>6. Kinds(t) /\ Asked(t) /\ Promising(t) /\ Heeded(t)
    BY <1>6, <2>1, <2>5 DEF Poised, Kinds, Asked, Promising, Heeded, Frame
  <2>7. Reaching(t) /\ Closing(t) /\ Ending(t)
    BY <1>7, <2>1, <2>5 DEF Reaching, OnLine, Closing, Ending, Frame
  <2>8. Streaming(t)
    <3>1. t.stream = b.stream /\ t.hop = 0 /\ t.ask = b.ask /\ t.started = b.started
      BY <1>7, <2>5 DEF Frame
    <3>2. t.wire = "none"
      BY <1>7, <2>5 DEF Frame
    <3>3. \A k \in Hops : k > 0 /\ ~(k < 0) /\ k # 0
      BY Places DEF Hops
    <3> QED
      BY <1>6, <1>7, <3>1, <3>2, <3>3 DEF Poised, Streaming
  <2>9. Kept(RequestError(v).s) /\ RequestError(v).r = v.r
    BY <2>1, <2>4, <2>6, <2>7, <2>8, RequestErrorKeeps DEF Underlying, Differs
  <2> QED
    BY <2>2, <2>4, <2>9
<1> QED
  BY <1>9, <1>10

-----------------------------------------------------------------------------
(* The beginning of a request, and what follows its lookup.                *)

LEMMA BeginningIsPoised ==
  ASSUME NEW a \in Ask, a.upgrade => a.raw /\ a.body = "none",
         a.raw => ~a.signal /\ a.body # "stream",
         NEW early \in BOOLEAN, early => a.signal, NEW s, s = Beginning(a, early)
  PROVE  /\ Poised(s) /\ Reaching(s) /\ Handing(s) /\ Closing(s) /\ Informed(s) /\ Forwarded(s)
         /\ Streaming(s) /\ ~s.hopTold /\ s.wire = "none"
         /\ early => s.promise = "waiting" /\ s.aborted
<1>1. /\ s.ask = a /\ s.started = TRUE /\ s.told = FALSE /\ s.hop = 0 /\ s.wire = "none"
      /\ s.hopTold = FALSE /\ s.res = "none" /\ s.chain = FALSE /\ s.cancelled = FALSE
      /\ s.hidden = FALSE /\ s.sends = a.body /\ s.aborted = early
      /\ s.listening = (a.signal /\ ~early)
  BY DEF Beginning, NewRequest
<1>2. /\ s.promise = IF a.raw THEN "none" ELSE "waiting"
      /\ s.signal = IF ~a.signal THEN "none" ELSE IF early THEN "aborted" ELSE "live"
      /\ s.body = IF a.body = "stream" THEN "live" ELSE "none"
      /\ s.stream = [k \in Hops |-> NoStream]
      /\ s.location = FALSE
  BY DEF Beginning, NewRequest
<1>3. /\ a.raw \in BOOLEAN /\ a.signal \in BOOLEAN /\ a.body \in {"none", "stream", "factory"}
  BY DEF Ask
<1>4. /\ NoStream \in Stream /\ NoStream.state = "none" /\ SoundStream(NoStream) /\ Stopped(NoStream)
  BY DEF NoStream, Stream, SoundStream, Stopped
<1>5. \A k \in Hops : s.stream[k] = NoStream
  BY <1>2
<1> HIDE DEF NoStream
<1>6. Kinds(s)
  <2>1. s.stream \in [Hops -> Stream]
    BY <1>2, <1>4
  <2>2. s.listening \in BOOLEAN
    BY <1>1, <1>3
  <2> QED
    BY <1>1, <1>3, <2>1, <2>2 DEF Kinds
<1>7. Asked(s)
  BY <1>1, <1>2, <1>3 DEF Asked
<1>8. Promising(s)
  BY <1>1, <1>2, <1>3 DEF Promising
<1>9. Heeded(s) /\ Reaching(s) /\ Closing(s) /\ Informed(s) /\ Forwarded(s) /\ Handing(s)
  BY <1>1, <1>2 DEF Heeded, Reaching, OnLine, Closing, Informed, Forwarded, Handing
<1>10. Streaming(s)
  BY <1>4, <1>5 DEF Streaming
<1>11. Poised(s)
  BY <1>1, <1>2, <1>4, <1>5, <1>6, <1>7, <1>8, <1>9 DEF Poised
<1>12. early => s.promise = "waiting" /\ s.aborted
  BY <1>1, <1>2
<1> QED
  BY <1>1, <1>9, <1>10, <1>11, <1>12

LEMMA StartKeeps ==
  ASSUME IInv, AllKept, NEW r \in Requests, NEW a \in Asks[world][r], NEW early \in BOOLEAN,
         NEW o \in a.to, NEW good, Start(r, a, early, o, good)
  PROVE  AllKept'
<1> DEFINE s == Beginning(a, early)
           w == [System(r) EXCEPT !.s = s]
           t == [s EXCEPT !.lookup = "under way"]
           looking == [w EXCEPT !.s = t, !.lookups = lookups + 1]
<1>1. /\ a \in Ask /\ (a.upgrade => a.raw /\ a.body = "none")
      /\ a.raw => ~a.signal /\ a.body # "stream"
  <2>1. world \in Worlds /\ Asks[world] \in [Requests -> SUBSET Ask]
    BY ExchangeAssumption DEF IInv
  <2> QED
    BY <2>1, ExchangeAssumption
<1>2. \/ early /\ Becomes(RequestError(w))
      \/ Becomes(Dispatch(w, o)) \/ Becomes(DispatchThrows(w)) \/ Becomes(looking)
  <2>1. [w EXCEPT !.s.lookup = "under way", !.lookups = @ + 1] = looking
    <3> HIDE DEF s
    <3> QED
      BY DEF System
  <2> QED
    BY <2>1 DEF Start, Beginning
<1>3. s = Beginning(a, early) /\ (early => a.signal)
  BY DEF Start
<1> HIDE DEF s
<1>4. /\ Poised(s) /\ Reaching(s) /\ Handing(s) /\ Closing(s) /\ Informed(s) /\ Forwarded(s)
      /\ Streaming(s) /\ ~s.hopTold /\ s.wire = "none"
      /\ early => s.promise = "waiting" /\ s.aborted
  BY <1>1, <1>3, BeginningIsPoised
<1>5. Typed(s) /\ s.hop = 0 /\ DOMAIN s = Fields
  <2>1. Typed(s) /\ s.hop = 0
    BY <1>1, <1>3, BeginningIsTyped
  <2> QED
    BY <2>1 DEF Typed
<1>6. Bears(w) /\ w.s = s /\ w.r = r
  BY <1>5 DEF Bears, System
<1>7. SameBut(t, s, {"lookup"}) /\ t.lookup = "under way" /\ DOMAIN t = Fields
  BY <1>5, FieldNames DEF SameBut
<1> HIDE DEF w, t
<1>8. looking.s = t /\ looking.r = r
  BY <1>6 DEF Bears
<1> HIDE DEF looking
<1>9. Frame(t, s, {"lookup"})
  BY <1>5, <1>7, Framed
<1>10. Kept(t)
  <2>1. Kinds(t) /\ Asked(t) /\ Promising(t) /\ Handing(t) /\ Informed(t)
    BY <1>4, <1>9 DEF Poised, Kinds, Asked, Promising, Handing, Informed, Frame
  <2>2. Reaching(t) /\ Heeded(t) /\ Closing(t) /\ Forwarded(t)
    BY <1>4, <1>9 DEF Poised, Reaching, OnLine, Heeded, Closing, Forwarded, Frame
  <2>3. Ending(t)
    BY <1>4, <1>7, <1>9 DEF Ending, Frame
  <2>4. Streaming(t)
    BY <1>4, <1>9 DEF Streaming, Frame
  <2> QED
    BY <2>1, <2>2, <2>3, <2>4 DEF Kept
<1>11. CASE early /\ Becomes(RequestError(w))
  <2>1. Kept(RequestError(w).s) /\ RequestError(w).r = r
    BY <1>4, <1>6, <1>11, RequestErrorSettles DEF Poised, Differs
  <2> QED
    BY <1>11, <2>1, KeepsAll
<1>12. CASE Becomes(Dispatch(w, o)) \/ Becomes(DispatchThrows(w))
  BY <1>4, <1>5, <1>6, <1>12, DispatchKeeps, KeepsAll
<1>13. CASE Becomes(looking)
  BY <1>8, <1>10, <1>13, KeepsAll
<1> QED
  BY <1>2, <1>11, <1>12, <1>13

LEMMA AfterLookupKeeps ==
  ASSUME IInv, AllKept, NEW r \in Requests, req[r].started, NEW o \in req[r].ask.to, NEW good,
         AfterLookup(r, o, good)
  PROVE  AllKept'
<1> DEFINE s == req[r]
           t == [s EXCEPT !.lookup = "done"]
           x == [t EXCEPT !.told = TRUE]
           w == [System(r) EXCEPT !.s = t, !.lookups = lookups - 1]
           failed == [w EXCEPT !.s = x]
<1>1. \/ Becomes(RequestError(failed)) \/ Becomes(Dispatch(w, o)) \/ Becomes(DispatchThrows(w))
  <2>1. LookupFinishes(System(r)) = w
    BY DEF LookupFinishes, System
  <2>2. [w EXCEPT !.s.told = TRUE] = failed
    <3> HIDE DEF t
    <3> QED
      BY DEF System
  <2> HIDE DEF w, failed
  <2> QED
    BY <2>1, <2>2 DEF AfterLookup
<1>2. /\ Typed(s) /\ Begun(s) /\ OnWire(s) /\ Kept(s) /\ DOMAIN s = Fields /\ Bears(System(r))
      /\ s.started /\ System(r).r = r
  BY From
<1>3. s.hop = 0 /\ ~s.told /\ s.wire = "none" /\ ~s.location
  <2>1. s.lookup \in {"under way", "resolved", "rejected"}
    BY DEF AfterLookup
  <2> QED
    BY <1>2, <2>1, Zenon DEF Begun
<1>4. SameBut(t, s, {"lookup"}) /\ t.lookup = "done" /\ DOMAIN t = Fields
  BY <1>2, FieldNames DEF SameBut
<1>5. Typed(t)
  BY <1>2, FieldNames DEF Typed
<1> HIDE DEF t
<1>6. SameBut(x, t, {"told"}) /\ x.told = TRUE /\ DOMAIN x = Fields
  BY <1>4, FieldNames DEF SameBut
<1>7. Bears(w) /\ w.s = t /\ w.r = r
  BY <1>4 DEF Bears, System
<1> HIDE DEF x, w
<1>8. Bears(failed) /\ failed.s = x /\ failed.r = r
  BY <1>6, <1>7, Puts
<1> HIDE DEF failed
<1>9. Frame(t, s, {"lookup"}) /\ Frame(x, t, {"told"})
  BY <1>2, <1>4, <1>6, Framed
<1> HIDE DEF s
<1>10. Poised(t) /\ t.hop = 0 /\ t.wire = "none" /\ Streaming(t) /\ Kinds(t)
  <2>1. Kinds(t) /\ Asked(t) /\ Promising(t) /\ Heeded(t)
    BY <1>2, <1>9 DEF Kept, Kinds, Asked, Promising, Heeded, Frame
  <2>2. /\ t.started /\ ~t.told /\ t.res = "none"
        /\ t.body = "live" => t.sends = "stream"
        /\ t.hop = 0 /\ t.wire = "none"
    BY <1>2, <1>3, <1>9 DEF Kept, Promising, Handing, Frame
  <2>3. Streaming(t)
    BY <1>2, <1>9 DEF Kept, Streaming, Frame
  <2>4. \A k \in Hops : k > 0 /\ ~(k <= 0)
    BY Places DEF Hops
  <2> QED
    BY <2>1, <2>2, <2>3, <2>4 DEF Poised, Streaming
<1>11. CASE Becomes(RequestError(failed))
  <2>1. Kinds(x) /\ Asked(x) /\ Promising(x)
    BY <1>6, <1>9, <1>10 DEF Poised, Kinds, Asked, Promising, Frame
  <2>2. Reaching(x) /\ Ending(x) /\ Heeded(x) /\ Closing(x)
    BY <1>6, <1>9, <1>10 DEF Reaching, OnLine, Ending, Heeded, Closing, Frame
  <2>3. Streaming(x)
    BY <1>9, <1>10 DEF Streaming, Frame
  <2>4. Kept(RequestError(failed).s) /\ RequestError(failed).r = r
    BY <1>6, <1>8, <2>1, <2>2, <2>3, RequestErrorKeeps DEF Underlying, Differs
  <2> QED
    BY <1>11, <2>4, KeepsAll
<1>12. CASE Becomes(Dispatch(w, o)) \/ Becomes(DispatchThrows(w))
  BY <1>5, <1>7, <1>10, <1>12, DispatchKeeps, KeepsAll
<1> QED
  BY <1>1, <1>11, <1>12

-----------------------------------------------------------------------------
(* The end of a response.                                                  *)

(* A response has ended, and nobody above pressure has heard of it.        *)
Delivered(x) ==
  /\ Underlying(x) /\ Heeded(x) /\ x.started /\ x.wire = "closed"
  /\ ~x.cancelled /\ ~x.told /\ x.chain /\ x.hop \in Hops /\ x.body # "live"
  /\ x.location => x.res = "none" /\ x.hop + 1 \in Hops
  /\ ~x.location /\ ~x.hidden => x.promise # "waiting"

LEMMA OverDelivers ==
  ASSUME IInv, AllKept, NEW r \in Requests, req[r].wire = "headers", ~req[r].cut
  PROVE  LET w == Over(r)
         IN Bears(w) /\ w.r = r /\ Delivered(w.s) /\ Failable(w.s)
<1> DEFINE s == req[r]
           w == Over(r)
           x == w.s
<1>1. /\ Typed(s) /\ UnderWay(s) /\ OnWire(s) /\ s.hop > 0 /\ Kept(s)
      /\ s.wire = "headers" /\ ~s.cut
  BY OnTheWire, From
<1>2. /\ Bears(w) /\ w.r = r /\ Failable(x) /\ Frame(x, s, {"wire", "stream"}) /\ x.wire = "closed"
  BY OverStops
<1> HIDE DEF w, x, s
<1>3. ~s.hopTold /\ ~s.told /\ s.started /\ s.hop \in Hops
  BY <1>1 DEF OnWire, UnderWay
<1>4. s.chain /\ ~s.cancelled
  BY <1>1, <1>3 DEF Kept, Reaching, OnLine
<1>5. s.body # "live"
  BY <1>1 DEF Kept, Handing
<1>6. s.location => s.res = "none" /\ s.hop + 1 \in Hops
  <2>1. s.location => s.hop < MaxHops
    BY <1>1 DEF OnWire
  <2>2. s.hop \in Nat /\ MaxHops \in Nat
    BY <1>3, Places
  <2>3. s.location => s.hop + 1 \in Hops
    BY <2>1, <2>2 DEF Hops
  <2> QED
    BY <1>1, <2>3 DEF Kept, Promising
<1>7. ~s.location /\ ~s.hidden => s.promise # "waiting"
  BY <1>1, <1>3, <1>4 DEF Kept, Forwarded
<1>8. /\ x.started /\ ~x.cancelled /\ ~x.told /\ x.chain /\ x.hop \in Hops /\ x.body # "live"
      /\ x.location => x.res = "none" /\ x.hop + 1 \in Hops
      /\ ~x.location /\ ~x.hidden => x.promise # "waiting"
  BY <1>2, <1>3, <1>4, <1>5, <1>6, <1>7 DEF Frame
<1>9. Delivered(x)
  BY <1>2, <1>8 DEF Failable, Delivered
<1> QED
  BY <1>2, <1>9 DEF w, x

(* A redirect is followed.                                                 *)
LEMMA FollowKeeps ==
  ASSUME NEW w, Bears(w), NEW x, Delivered(x), Frame(w.s, x, {"hopTold"}), w.s.location, NEW o
  PROVE  Kept(RedirectComplete(w, o).s) /\ RedirectComplete(w, o).r = w.r
<1> DEFINE s == w.s
           t == [s EXCEPT !.location = FALSE]
           u == [w EXCEPT !.s = t]
<1>1. DOMAIN s = Fields /\ Frame(s, x, {"hopTold"}) /\ s.location /\ Delivered(x)
  BY DEF Bears
<1>2. RedirectComplete(w, o) = DispatchHop(u, o)
  <2>1. [w EXCEPT !.s.location = FALSE] = u
    BY DEF Bears
  <2> QED
    BY <2>1 DEF RedirectComplete
<1>3. SameBut(t, s, {"location"}) /\ t.location = FALSE /\ DOMAIN t = Fields
  BY <1>1, FieldNames DEF SameBut
<1> HIDE DEF t
<1>4. Bears(u) /\ u.s = t /\ u.r = w.r
  BY <1>3, Puts
<1>5. Frame(t, s, {"location"})
  BY <1>1, <1>3, Framed
<1> HIDE DEF u, s
<1>6. Frame(t, x, {"hopTold", "location"})
  BY <1>1, <1>5 DEF Frame
<1>7. x.location
  BY <1>1 DEF Frame
<1>8. Kinds(t) /\ Asked(t) /\ Promising(t) /\ Heeded(t)
  <2>1. /\ Kinds(x) /\ Asked(x) /\ Promising(x) /\ Heeded(x)
        /\ x.res = "none" /\ x.wire = "closed"
    BY <1>1, <1>7 DEF Delivered, Underlying
  <2>2. Kinds(t) /\ Heeded(t)
    BY <1>6, <2>1 DEF Kinds, Heeded, Frame
  <2>3. Asked(t)
    BY <1>6, <2>1 DEF Asked, Frame
  <2>4. Promising(t)
    BY <1>6, <2>1 DEF Promising, Frame
  <2> QED
    BY <2>2, <2>3, <2>4
<1>9. /\ t.started /\ ~t.told /\ t.res = "none" /\ t.body # "live" /\ t.chain
      /\ t.hop = x.hop /\ t.ask = x.ask /\ t.stream = x.stream
  BY <1>1, <1>6, <1>7 DEF Delivered, Frame
<1>10. x.hop \in Nat /\ x.hop + 1 \in Hops
  BY <1>1, <1>7, Places DEF Delivered
<1>11. \A k \in Hops : k <= x.hop => k < x.hop \/ k = x.hop
  BY <1>10, Places
<1>12. \A k \in Hops :
         /\ SoundStream(x.stream[k])
         /\ k > x.hop \/ x.ask.upgrade => x.stream[k].state = "none"
         /\ k <= x.hop => Stopped(x.stream[k])
  BY <1>1, <1>11 DEF Delivered, Underlying, Streaming
<1>13. Poised(t)
  BY <1>8, <1>9, <1>12 DEF Poised
<1> QED
  BY <1>2, <1>4, <1>9, <1>10, <1>13, HopKeeps

(* The end of a response goes up, through log and response-error.          *)
LEMMA EndKeeps ==
  ASSUME NEW w, Bears(w), NEW x, Delivered(x), Frame(w.s, x, {"hopTold"}), ~w.s.location, NEW o
  PROVE  Kept(RedirectComplete(w, o).s) /\ RedirectComplete(w, o).r = w.r
<1> DEFINE s == w.s
           y == [s EXCEPT !.told = TRUE]
           g == Log!Leave(w.reg, w.r)
           done == [w EXCEPT !.s = y, !.reg = g]
           z == [y EXCEPT !.res = IF y.res = "open" THEN "ended" ELSE y.res]
           v == RedirectComplete(w, o)
<1>1. /\ DOMAIN s = Fields /\ Frame(s, x, {"hopTold"}) /\ ~s.location /\ Delivered(x)
      /\ DOMAIN w = {"r", "s", "reg", "mon", "lookups"}
  BY DEF Bears
<1>2. ~s.cancelled /\ ~s.told /\ s.hidden = x.hidden
  BY <1>1 DEF Frame, Delivered
<1>3. v = IF s.hidden THEN RequestError(done) ELSE RequestComplete(done)
  <2>1. LogDone([w EXCEPT !.s.told = TRUE]) = done
    <3>1. [w EXCEPT !.s.told = TRUE] = [w EXCEPT !.s = y]
      BY <1>1
    <3>2. LogDone([w EXCEPT !.s = y]) = done
      BY <1>1 DEF LogDone
    <3> HIDE DEF y, done
    <3> QED
      BY <3>1, <3>2
  <2>2. v = UpComplete(w)
    BY <1>1 DEF RedirectComplete
  <2> HIDE DEF done
  <2> QED
    BY <1>2, <2>1, <2>2 DEF UpComplete
<1>4. SameBut(y, s, {"told"}) /\ y.told = TRUE /\ DOMAIN y = Fields
  BY <1>1, FieldNames DEF SameBut
<1> HIDE DEF y, v, g
<1>5. Bears(done) /\ done.s = y /\ done.r = w.r
  BY <1>1, <1>4 DEF Bears
<1>6. RequestComplete(done) = [done EXCEPT !.s = z]
  BY <1>4, <1>5, FieldNames DEF RequestComplete, Bears
<1>7. /\ SameBut(z, y, {"res"}) /\ DOMAIN z = Fields
      /\ z.res = IF y.res = "open" THEN "ended" ELSE y.res
  BY <1>4, FieldNames DEF SameBut
<1> HIDE DEF z, done
<1>8. Frame(y, s, {"told"}) /\ Frame(z, y, {"res"})
  BY <1>1, <1>4, <1>7, Framed
<1> HIDE DEF s
<1>9. Frame(y, x, {"hopTold", "told"}) /\ Frame(z, x, {"hopTold", "told", "res"}) /\ z.told
  BY <1>1, <1>4, <1>8 DEF Frame
<1>10. CASE s.hidden
  <2>1. Kinds(y) /\ Asked(y) /\ Promising(y)
    <3>1. /\ Kinds(x) /\ Asked(x) /\ Promising(x) /\ ~x.location /\ x.wire = "closed"
      BY <1>1 DEF Delivered, Underlying, Frame
    <3>2. Kinds(y)
      BY <1>9, <3>1 DEF Kinds, Frame
    <3>3. Asked(y)
      BY <1>9, <3>1 DEF Asked, Frame
    <3>4. Promising(y)
      BY <1>4, <1>9, <3>1 DEF Promising, Frame
    <3> QED
      BY <3>2, <3>3, <3>4
  <2>2. Reaching(y) /\ Ending(y) /\ Heeded(y) /\ Closing(y)
    BY <1>1, <1>4, <1>9
       DEF Delivered, Underlying, Reaching, OnLine, Ending, Heeded, Closing, Frame
  <2>3. Streaming(y)
    BY <1>1, <1>9 DEF Delivered, Underlying, Streaming, Frame
  <2>4. Kept(RequestError(done).s) /\ RequestError(done).r = w.r
    BY <1>4, <1>5, <2>1, <2>2, <2>3, RequestErrorKeeps DEF Underlying, Differs
  <2> QED
    BY <1>3, <1>10, <2>4 DEF v
<1>11. CASE ~s.hidden
  <2>1. z.res = IF x.res = "open" THEN "ended" ELSE x.res
    BY <1>7, <1>9 DEF Frame
  <2>2. x.promise # "waiting"
    <3>1. ~x.location
      BY <1>1 DEF Frame
    <3> QED
      BY <1>1, <1>2, <1>11, <3>1 DEF Delivered
  <2>3. Kinds(z) /\ Handing(z) /\ Informed(z)
    BY <1>1, <1>9, <2>2
       DEF Delivered, Underlying, Kinds, Handing, Informed, Frame
  <2>4. Promising(z) /\ Asked(z)
    BY <1>1, <1>9, <2>1 DEF Delivered, Underlying, Promising, Asked, Frame
  <2>5. Reaching(z) /\ Ending(z) /\ Heeded(z) /\ Closing(z) /\ Forwarded(z)
    BY <1>1, <1>9
       DEF Delivered, Underlying, Reaching, OnLine, Ending, Heeded, Closing, Forwarded, Frame
  <2>6. Streaming(z)
    BY <1>1, <1>9 DEF Delivered, Underlying, Streaming, Frame
  <2>7. Kept(z)
    BY <2>3, <2>4, <2>5, <2>6 DEF Kept
  <2>8. v = [done EXCEPT !.s = z]
    BY <1>3, <1>6, <1>11
  <2> QED
    BY <1>5, <1>7, <2>7, <2>8, Puts DEF v
<1> QED
  BY <1>10, <1>11

LEMMA CompleteKeeps ==
  ASSUME IInv, AllKept, NEW r \in Requests, Complete(r)
  PROVE  AllKept'
<1> DEFINE w == Over(r)
           u == PressureError(w, FALSE)
           v == Finished(w)
<1>1. /\ req[r].wire = "headers" /\ ~req[r].cut
      /\ (\E o \in req[r].ask.to : Becomes(RedirectComplete(v, o))) \/ Becomes(u)
  BY DEF Complete, Finished
<1>2. Bears(w) /\ w.r = r /\ Delivered(w.s) /\ Failable(w.s)
  BY <1>1, OverDelivers
<1> HIDE DEF w
<1>3. ASSUME NEW o, Becomes(RedirectComplete(v, o)) PROVE AllKept'
  <2> DEFINE t == [w.s EXCEPT !.hopTold = TRUE]
             n == Pressure!Completed(w.mon, Attempt(w))
  <2>1. v = [w EXCEPT !.s = t, !.mon = n]
    BY <1>2 DEF Finished, Bears
  <2>2. SameBut(t, w.s, {"hopTold"}) /\ DOMAIN t = Fields /\ DOMAIN w.s = Fields
    BY <1>2, FieldNames DEF SameBut, Bears
  <2> HIDE DEF t, n, v
  <2>3. Bears(v) /\ v.s = t /\ v.r = r
    BY <1>2, <2>1, <2>2 DEF Bears
  <2>4. Frame(v.s, w.s, {"hopTold"})
    BY <2>2, <2>3, Framed
  <2>5. Kept(RedirectComplete(v, o).s) /\ RedirectComplete(v, o).r = r
    <3>1. CASE v.s.location
      BY <1>2, <2>3, <2>4, <3>1, FollowKeeps
    <3>2. CASE ~v.s.location
      BY <1>2, <2>3, <2>4, <3>2, EndKeeps
    <3> QED
      BY <3>1, <3>2
  <2> QED
    BY <1>3, <2>5, KeepsAll
<1>4. ASSUME Becomes(u) PROVE AllKept'
  <2>1. Kept(u.s) /\ u.r = r
    BY <1>2, PressureErrorKeeps
  <2> HIDE DEF u
  <2> QED
    BY <1>4, <2>1, KeepsAll
<1> QED
  BY <1>1, <1>3, <1>4

-----------------------------------------------------------------------------
(* An attempt that connects.                                               *)

LEMMA Connected ==
  ASSUME NEW s, Typed(s), Begun(s), OnWire(s), Kept(s), s.wire \in {"queued", "connected"},
         NEW t, Frame(t, s, {"wire", "hopTold", "body", "target", "chain", "cancelled", "cut"}),
         t.wire = "connected", ~t.hopTold, t.chain = TRUE, t.cancelled \in BOOLEAN,
         t.body = IF s.body = "live" THEN "disturbed" ELSE s.body,
         t.cancelled => t.cut, s.aborted => t.cancelled,
         s.ask.follow # "off" /\ ~t.cancelled => t.target = s.hop
  PROVE  Kept(t)
<1>1. UnderWay(s) /\ s.started /\ s.hop \in Hops /\ s.hop > 0
  <2>1. UnderWay(s)
    BY BegunIsUnderWay
  <2> QED
    BY <2>1, Places DEF UnderWay, Hops
<1>2. ~s.told
  BY <1>1 DEF OnWire
<1>3. Kinds(t)
  BY DEF Kept, Kinds, Frame
<1>4. Asked(t)
  BY DEF Kept, Asked, Frame
<1>5. Promising(t)
  BY DEF Kept, Promising, Frame
<1>6. Handing(t) /\ Heeded(t) /\ Informed(t) /\ Forwarded(t) /\ Ending(t) /\ Closing(t)
  BY <1>1, <1>2 DEF Handing, Heeded, Informed, Forwarded, Ending, Closing, Frame
<1>7. Reaching(t)
  BY DEF Reaching, OnLine, Frame
<1>8. Streaming(t)
  BY DEF Kept, Streaming, Frame
<1> QED
  BY <1>3, <1>4, <1>5, <1>6, <1>7, <1>8 DEF Kept

LEMMA ConnectsKeep ==
  ASSUME NEW w, Bears(w), Typed(w.s), Begun(w.s), OnWire(w.s), Kept(w.s),
         w.s.wire \in {"queued", "connected"}
  PROVE  Kept(Connects(w).s) /\ Connects(w).r = w.r
<1> DEFINE s == w.s
           n == Pressure!Connected(w.mon, Attempt(w))
           b == IF s.body = "live" /\ s.sends = "stream" THEN "disturbed" ELSE s.body
           t == [s EXCEPT !.wire = "connected", !.hopTold = FALSE, !.body = b]
           met == [w EXCEPT !.mon = n, !.s = t]
           x == [t EXCEPT !.cancelled = FALSE]
           free == [met EXCEPT !.s = x]
           v == Connects(w)
<1>1. /\ DOMAIN w = {"r", "s", "reg", "mon", "lookups"} /\ Typed(s) /\ Begun(s)
      /\ OnWire(s) /\ Kept(s) /\ DOMAIN s = Fields /\ s.wire \in {"queued", "connected"}
  BY DEF Bears
<1>2. UnderWay(s) /\ s.hop # 0 /\ s.hop > 0
  <2>1. UnderWay(s)
    BY <1>1, BegunIsUnderWay
  <2> QED
    BY <2>1, Places DEF UnderWay, Hops
<1>3. ~s.told
  BY <1>1, <1>2 DEF OnWire
<1>4. b = IF s.body = "live" THEN "disturbed" ELSE s.body
  BY <1>1 DEF Kept, Handing
<1>5. v = IF s.ask.follow # "off" THEN RedirectConnect(met) ELSE RequestConnect(free)
  <2>1. [met EXCEPT !.s.cancelled = FALSE] = free
    BY <1>1
  <2> DEFINE M == [w EXCEPT
                     !.mon = Pressure!Connected(@, Attempt(w)),
                     !.s = [s EXCEPT !.wire = "connected", !.hopTold = FALSE,
                                     !.body = IF @ = "live" /\ s.sends = "stream"
                                              THEN "disturbed" ELSE @]]
  <2>2. M = met
    BY <1>1, FieldNames DEF Typed
  <2>3. v = IF s.ask.follow # "off" THEN RedirectConnect(M)
            ELSE RequestConnect([M EXCEPT !.s.cancelled = FALSE])
    BY Zenon DEF Connects
  <2> HIDE DEF M, met, free, t, n, v
  <2> QED
    BY <2>1, <2>2, <2>3
<1> HIDE DEF n, b, v
<1>6. /\ SameBut(t, s, {"wire", "hopTold", "body"}) /\ t.wire = "connected" /\ t.hopTold = FALSE
      /\ t.body = b /\ DOMAIN t = Fields
  BY <1>1, FieldNames DEF SameBut
<1> HIDE DEF t
<1>7. Bears(met) /\ met.s = t /\ met.r = w.r
  BY <1>1, <1>6 DEF Bears
<1> HIDE DEF met
<1>8. Frame(t, s, {"wire", "hopTold", "body"})
  BY <1>1, <1>6, Framed
<1>9. /\ t.cancelled = s.cancelled /\ t.chain = s.chain /\ t.hop = s.hop /\ t.told = s.told
      /\ t.aborted = s.aborted /\ t.ask = s.ask /\ t.cut = s.cut
      /\ s.cancelled \in BOOLEAN /\ s.cut \in BOOLEAN
  BY <1>1, <1>8 DEF Frame, Kept, Kinds, Typed
<1>10. CASE s.ask.follow # "off"
  <2> DEFINE m == Pressure!ClientAborts(met.mon, Attempt(met))
             c == [t EXCEPT !.cut = TRUE]
             d == [t EXCEPT !.target = s.hop]
  <2>1. v = IF s.cancelled THEN [met EXCEPT !.s = c, !.mon = m] ELSE [met EXCEPT !.s = d]
    <3>1. v = IF t.cancelled THEN HopAbort(met) ELSE [met EXCEPT !.s.target = t.hop]
      BY <1>5, <1>7, <1>10 DEF RedirectConnect
    <3>2. HopAbort(met) = [met EXCEPT !.s = c, !.mon = m]
      BY <1>6, <1>7 DEF HopAbort, Bears
    <3>3. [met EXCEPT !.s.target = t.hop] = [met EXCEPT !.s = d]
      BY <1>7, <1>9 DEF Bears
    <3> HIDE DEF c, d, m
    <3> QED
      BY <1>9, <3>1, <3>2, <3>3
  <2>2. SameBut(c, t, {"cut"}) /\ c.cut = TRUE /\ DOMAIN c = Fields
    BY <1>6, FieldNames DEF SameBut
  <2>3. SameBut(d, t, {"target"}) /\ d.target = s.hop /\ DOMAIN d = Fields
    BY <1>6, FieldNames DEF SameBut
  <2> HIDE DEF c, d, m
  <2>4. Frame(c, t, {"cut"}) /\ Frame(d, t, {"target"})
    BY <1>6, <2>2, <2>3, Framed
  <2>5. s.chain = TRUE /\ (s.aborted => s.cancelled)
    BY <1>1, <1>3, <1>10 DEF Kept, Kinds, Reaching, OnLine, Heeded
  <2>6. CASE s.cancelled
    <3>1. Frame(c, s, {"wire", "hopTold", "body", "target", "chain", "cancelled", "cut"})
      BY <1>8, <2>4 DEF Frame
    <3>2. /\ c.wire = "connected" /\ ~c.hopTold /\ c.chain = TRUE /\ c.cancelled
          /\ c.body = b /\ c.cancelled \in BOOLEAN
      BY <1>6, <1>9, <2>4, <2>5, <2>6 DEF Frame
    <3>3. Kept(c)
      BY <1>1, <1>4, <2>2, <3>1, <3>2, Connected
    <3>4. v.s = c /\ v.r = w.r
      BY <1>7, <2>1, <2>6 DEF Bears
    <3> QED
      BY <3>3, <3>4 DEF v
  <2>7. CASE ~s.cancelled
    <3>1. Frame(d, s, {"wire", "hopTold", "body", "target", "chain", "cancelled", "cut"})
      BY <1>8, <2>4 DEF Frame
    <3>2. /\ d.wire = "connected" /\ ~d.hopTold /\ d.chain = TRUE /\ ~d.cancelled
          /\ d.body = b /\ d.cancelled \in BOOLEAN
      BY <1>6, <1>9, <2>4, <2>5, <2>7 DEF Frame
    <3>3. Kept(d)
      BY <1>1, <1>4, <2>3, <2>5, <2>7, <3>1, <3>2, Connected
    <3>4. v.s = d /\ v.r = w.r
      BY <1>7, <2>1, <2>7 DEF Bears
    <3> QED
      BY <3>3, <3>4 DEF v
  <2> QED
    BY <2>6, <2>7
<1>11. CASE s.ask.follow = "off"
  <2>1. SameBut(x, t, {"cancelled"}) /\ x.cancelled = FALSE /\ DOMAIN x = Fields
    BY <1>6, FieldNames DEF SameBut
  <2> HIDE DEF x
  <2>2. Bears(free) /\ free.s = x /\ free.r = w.r
    BY <1>7, <2>1, Puts
  <2>3. Frame(x, t, {"cancelled"})
    BY <1>6, <2>1, Framed
  <2>4. v = RequestConnect(free)
    BY <1>5, <1>11
  <2> HIDE DEF free
  <2> DEFINE u == RequestConnect(free)
             y == u.s
  <2>5. x.cut = s.cut /\ x.told = s.told /\ x.hopTold = FALSE /\ x.ask = s.ask /\ x.aborted = s.aborted
    BY <1>6, <1>9, <2>3 DEF Frame
  <2>6. /\ Differs(u, free, {"chain", "cancelled", "cut"}) /\ y.chain = TRUE
        /\ IF ~x.aborted \/ x.cancelled \/ x.told
           THEN y.cancelled = x.cancelled /\ y.cut = x.cut
           ELSE /\ y.cancelled
                /\ y.cut = (x.cut \/ ~(x.hopTold \/ (x.ask.follow # "off" /\ (x.target = 0 \/ x.target # x.hop))))
    <3>1. free.s.cut \in BOOLEAN
      BY <1>9, <2>2, <2>5
    <3> QED
      BY <2>2, <3>1, RequestConnectActs
  <2> HIDE DEF u, y
  <2>7. u.r = w.r /\ Frame(y, x, {"chain", "cancelled", "cut"})
    BY <2>2, <2>6 DEF Differs, y
  <2>8. Frame(y, s, {"wire", "hopTold", "body", "target", "chain", "cancelled", "cut"})
    BY <1>8, <2>3, <2>7 DEF Frame
  <2>9. y.wire = "connected" /\ ~y.hopTold /\ y.body = b
    BY <1>6, <2>3, <2>7 DEF Frame
  <2>10. y.cancelled \in BOOLEAN /\ (y.cancelled => y.cut) /\ (s.aborted => y.cancelled)
    BY <1>3, <1>11, <2>1, <2>5, <2>6
  <2>11. Kept(y)
    BY <1>1, <1>4, <1>11, <2>6, <2>8, <2>9, <2>10, Connected
  <2> QED
    BY <2>4, <2>7, <2>11 DEF u, v, y
<1> QED
  BY <1>10, <1>11

LEMMA ConnectionsKeep ==
  ASSUME IInv, AllKept, NEW r \in Requests, Connect(r) \/ Reconnect(r)
  PROVE  AllKept'
<1> DEFINE s == req[r]
           w == System(r)
           t == [s EXCEPT !.again = TRUE]
           u == [w EXCEPT !.s = t]
<1>1. /\ Bears(w) /\ w.s = s /\ w.r = r /\ Typed(s) /\ Begun(s) /\ OnWire(s) /\ Kept(s)
      /\ DOMAIN s = Fields
  BY From
<1>2. CASE Connect(r)
  <2>1. Becomes(Connects(w)) /\ s.wire = "queued"
    BY <1>2 DEF Connect
  <2> HIDE DEF w, s
  <2>2. Kept(Connects(w).s) /\ Connects(w).r = r
    BY <1>1, <2>1, ConnectsKeep
  <2> QED
    BY <2>1, <2>2, KeepsAll
<1>3. CASE Reconnect(r)
  <2>1. Becomes(Connects(u)) /\ s.wire = "connected"
    <3>1. [System(r) EXCEPT !.s.again = TRUE] = u
      BY DEF System
    <3> QED
      BY <1>3, <3>1 DEF Reconnect
  <2>2. SameBut(t, s, {"again"}) /\ DOMAIN t = Fields
    BY <1>1, FieldNames DEF SameBut
  <2>3. t.count = s.count
    BY <1>1, FieldNames
  <2> HIDE DEF t, w
  <2>4. Bears(u) /\ u.s = t /\ u.r = r
    BY <1>1, <2>2, Puts
  <2> HIDE DEF u, s
  <2>5. Frame(t, s, {"again"})
    BY <1>1, <2>2, Framed
  <2>6. Frame(t, s, {})
    BY <2>5 DEF Frame
  <2>7. Typed(t) /\ Begun(t) /\ OnWire(t)
    <3>1. Typed(t)
      BY <1>1, <2>2, <2>3, <2>6 DEF Typed, Frame
    <3>2. Begun(t)
      BY <1>1, <2>6 DEF Begun, Frame
    <3>3. OnWire(t)
      BY <1>1, <2>3, <2>6 DEF OnWire, Frame
    <3> QED
      BY <3>1, <3>2, <3>3
  <2>8. Kept(t)
    <3>1. Kinds(t) /\ Asked(t) /\ Promising(t) /\ Handing(t)
      BY <1>1, <2>6 DEF Kept, Kinds, Asked, Promising, Handing, Frame
    <3>2. Reaching(t) /\ Heeded(t) /\ Ending(t) /\ Closing(t) /\ Informed(t) /\ Forwarded(t)
      BY <1>1, <2>6
         DEF Kept, Reaching, OnLine, Heeded, Ending, Closing, Informed, Forwarded, Frame
    <3>3. Streaming(t)
      BY <1>1, <2>6 DEF Kept, Streaming, Frame
    <3> QED
      BY <3>1, <3>2, <3>3 DEF Kept
  <2>9. t.wire = "connected"
    BY <2>1, <2>6 DEF Frame
  <2>10. Kept(Connects(u).s) /\ Connects(u).r = r
    BY <2>4, <2>7, <2>8, <2>9, ConnectsKeep
  <2> QED
    BY <2>1, <2>10, KeepsAll
<1> QED
  BY <1>2, <1>3

-----------------------------------------------------------------------------
(* Nothing is left of a request that has come to rest.                     *)

LEMMA NothingHappens ==
  ASSUME AllKept, req' = req
  PROVE  AllKept'
BY DEF AllKept

LEMMA KeptAtFirst == Init => AllKept
<1> SUFFICES ASSUME Init, NEW r \in Requests PROVE Kept(req[r])
  BY DEF AllKept
<1> DEFINE s == NewRequest
<1>1. req[r] = s
  BY DEF Init
<1>2. /\ s.started = FALSE /\ s.told = FALSE /\ s.hop = 0 /\ s.wire = "none"
      /\ s.hopTold = FALSE /\ s.res = "none" /\ s.chain = FALSE /\ s.cancelled = FALSE
      /\ s.hidden = FALSE /\ s.sends = "none" /\ s.aborted = FALSE /\ s.listening = FALSE
      /\ s.promise = "none" /\ s.body = "none" /\ s.ask = [raw |-> FALSE]
      /\ s.stream = [k \in Hops |-> NoStream]
  BY DEF NewRequest
<1>3. /\ NoStream \in Stream /\ NoStream.state = "none" /\ SoundStream(NoStream)
      /\ Stopped(NoStream)
  BY DEF NoStream, Stream, SoundStream, Stopped
<1> HIDE DEF s, NoStream
<1>4. s.stream \in [Hops -> Stream] /\ \A k \in Hops : s.stream[k] = NoStream
  BY <1>2, <1>3
<1>5. Kinds(s) /\ Asked(s) /\ Promising(s) /\ Handing(s)
  BY <1>2, <1>4 DEF Kinds, Asked, Promising, Handing
<1>6. Reaching(s) /\ Heeded(s) /\ Ending(s) /\ Closing(s) /\ Informed(s) /\ Forwarded(s)
  BY <1>2 DEF Reaching, OnLine, Heeded, Ending, Closing, Informed, Forwarded
<1>7. Streaming(s)
  BY <1>3, <1>4 DEF Streaming
<1> QED
  BY <1>1, <1>5, <1>6, <1>7 DEF Kept

LEMMA KeptForGood == IInv /\ AllKept /\ [Next]_vars => AllKept'
<1> SUFFICES ASSUME IInv, AllKept, [Next]_vars PROVE AllKept'
  OBVIOUS
<1>1. ASSUME NEW r \in Requests, Caller(r) PROVE AllKept'
  <2>1. ASSUME NEW a \in Asks[world][r], NEW early \in BOOLEAN, NEW good \in BOOLEAN,
               NEW o \in a.to, Start(r, a, early, o, good)
        PROVE  AllKept'
    BY <2>1, StartKeeps
  <2>2. CASE Abort(r)
    BY <2>2, AbortKeeps
  <2>3. CASE Read(r) \/ Drop(r)
    BY <2>3, HandsKeep
  <2> QED
    BY <1>1, <2>1, <2>2, <2>3 DEF Caller
<1>2. ASSUME NEW r \in Requests, Continues(r) PROVE AllKept'
  <2>1. CASE Reject(r)
    BY <2>1, RejectKeeps
  <2>2. ASSUME req[r].started, NEW o \in req[r].ask.to, NEW good \in BOOLEAN,
               AfterLookup(r, o, good)
        PROVE  AllKept'
    BY <2>2, AfterLookupKeeps
  <2> QED
    BY <1>2, <2>1, <2>2 DEF Continues
<1>3. ASSUME NEW r \in Requests, LookupSettles(r) PROVE AllKept'
  BY <1>3, LookupKeeps
<1>4. ASSUME NEW r \in Requests, Wire(r) PROVE AllKept'
  <2>1. CASE Connect(r) \/ Reconnect(r)
    BY <2>1, ConnectionsKeep
  <2>2. CASE Answer(r)
    BY <2>2, AnswerKeeps
  <2>3. CASE Complete(r)
    BY <2>3, CompleteKeeps
  <2>4. CASE Fail(r) \/ LateRejection(r) \/ Overrun(r)
    BY <2>4, FailureKeeps
  <2>5. CASE Upgrade(r)
    BY <2>5, UpgradeKeeps
  <2>6. CASE SocketCloses(r)
    BY <2>6, SocketKeeps
  <2> QED
    BY <1>4, <2>1, <2>2, <2>3, <2>4, <2>5, <2>6 DEF Wire
<1>5. ASSUME NEW r \in Requests, Body(r) PROVE AllKept'
  BY <1>5, FactoriesKeep DEF Body
<1>6. CASE Tick \/ CloseMonitor \/ InstallTracer
  <2>1. req' = req
    BY <1>6 DEF Tick, CloseMonitor, InstallTracer, Shared
  <2> QED
    BY <2>1, NothingHappens
<1>7. CASE UNCHANGED vars
  BY <1>7, NothingHappens DEF vars
<1> QED
  BY <1>1, <1>2, <1>3, <1>4, <1>5, <1>6, <1>7 DEF Next

LEMMA RestIsReleased == IInv /\ AllKept => NothingIsLeft
<1> SUFFICES ASSUME IInv, AllKept, NEW r \in Requests, Quiet(r) PROVE Released(r)
  BY DEF NothingIsLeft
<1> DEFINE s == req[r]
<1>1. /\ Typed(s) /\ Begun(s) /\ OnWire(s) /\ Kept(s)
      /\ Entry(reg, r, s) /\ Gauge(P!StateOf(mon), r, s) /\ P!Sound(mon)
  BY From DEF IInv, Own, System
<1>2. /\ s.started /\ s.wire \in {"none", "closed"} /\ s.lookup \in {"none", "done"}
      /\ s.promise # "rejecting" /\ s.res \in {"none", "closed"}
  BY DEF Quiet
<1> HIDE DEF s
<1>3. /\ Kinds(s) /\ Asked(s) /\ Promising(s) /\ Handing(s) /\ Ending(s) /\ Closing(s)
      /\ Informed(s) /\ Streaming(s)
  BY <1>1 DEF Kept
<1>4. s.promise \in {"none", "waiting", "resolved", "rejecting", "rejected"}
  BY <1>1 DEF Typed
<1>5. IF s.ask.raw THEN s.told ELSE s.promise \in {"resolved", "rejected"}
  BY <1>2, <1>3, <1>4 DEF Asked, Promising, Ending, Closing, Informed
<1>6. ~s.listening
  BY <1>2, <1>3, <1>5 DEF Asked, Promising
<1>7. ~Listed(r)
  <2>1. ~On(reg, r)
    <3>1. CASE s.wire = "none"
      <4>1. s.hop = 0
        BY <1>1, <3>1, Zenon DEF Begun
      <4> QED
        BY <1>1, <4>1 DEF Entry
    <3>2. CASE s.wire = "closed"
      BY <1>1, <1>3, <3>2 DEF Entry, Closing
    <3> QED
      BY <1>2, <3>1, <3>2
  <2> QED
    BY <2>1 DEF Listed, On
<1>8. s.body \in {"none", "destroyed"} \cup (IF s.promise = "rejected" THEN {} ELSE {"disturbed"})
  <2>1. s.body \in {"none", "live", "disturbed", "destroyed"}
    BY <1>1 DEF Typed
  <2>2. s.promise = "rejected" => s.body \in {"none", "destroyed"}
    BY <1>3 DEF Promising
  <2>3. s.body = "live" => s.promise = "rejected"
    BY <1>2, <1>3, <1>5 DEF Asked, Promising, Handing
  <2> QED
    BY <2>1, <2>2, <2>3
<1>9. ASSUME NEW k \in Hops PROVE LetGo(s.stream[k])
  <2> DEFINE b == s.stream[k]
  <2>1. b \in Stream /\ SoundStream(b)
    BY <1>3 DEF Kinds, Streaming
  <2>2. Stopped(b)
    <3>1. CASE s.wire = "none"
      <4>1. s.hop = 0
        BY <1>1, <3>1, Zenon DEF Begun
      <4>2. k > 0
        BY Places DEF Hops
      <4> QED
        BY <1>3, <4>1, <4>2 DEF Streaming, Stopped
    <3>2. CASE s.wire = "closed"
      <4>1. s.hop \in Nat /\ k \in Nat
        <5>1. s.hop \in 0..MaxHops /\ MaxHops \in Nat /\ k \in 1..MaxHops
          BY <1>1, Places DEF Typed, Hops
        <5> QED
          BY ONLY <5>1
      <4>2. k > s.hop \/ k < s.hop \/ k = s.hop
        BY <4>1
      <4> QED
        BY <1>3, <3>2, <4>2 DEF Streaming, Stopped
    <3> QED
      BY <1>2, <3>1, <3>2
  <2> HIDE DEF b
  <2>3. LetGo(b)
    BY <2>1, <2>2 DEF Stream, SoundStream, Stopped, LetGo
  <2> QED
    BY <2>3 DEF b
<1>10. ASSUME NEW k \in Hops PROVE mon.handler[<<r, k>>].state \in {"none", "done"}
  <2>1. P!StateOf(mon)[<<r, k>>] \notin {"pending", "running"}
    BY <1>1, <1>2 DEF Gauge
  <2>2. P!StateOf(mon)[<<r, k>>] = mon.handler[<<r, k>>].state
    BY DEF P!StateOf, Attempts
  <2>3. mon.handler[<<r, k>>].state \in {"none", "pending", "running", "done"}
    BY <1>1 DEF P!Sound, P!Monitor, P!Handler, Attempts
  <2> QED
    BY <2>1, <2>2, <2>3
<1> QED
  BY <1>5, <1>6, <1>7, <1>8, <1>9, <1>10 DEF Released, s

(* A request that has come to rest has told its caller and holds nothing,  *)
(* whichever layer ended it and whatever was going on when it did: no      *)
(* listener, place in the registry or gauge, no stream of the caller's     *)
(* that was not sent, and no factory that was neither read nor stopped.    *)
THEOREM NothingStaysBehind == Spec => []NothingIsLeft
<1>1. Init => IInv /\ AllKept
  BY Starts, KeptAtFirst
<1>2. IInv /\ AllKept /\ [Next]_vars => (IInv /\ AllKept)'
  BY Continuity, KeptForGood
<1> QED
  BY <1>1, <1>2, RestIsReleased, PTL DEF Spec
=============================================================================
