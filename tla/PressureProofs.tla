--------------------------- MODULE PressureProofs ---------------------------
(***************************************************************************)
(* Every operation of the monitor of Pressure keeps its gauges exact and   *)
(* its documents paired, for any set of origins and handlers, as long as   *)
(* there is a place for a new record.                                      *)
(***************************************************************************)
EXTENDS Pressure, FiniteSetTheorems, TLAPS

(* Finitely many handlers, and a name for no record at all.                *)
Countable == IsFiniteSet(PressureHandlers) /\ NoRecord \notin Records

(* A handler that is under way holds a record.                             *)
Held(m) == \A h \in Live(m) : m.handler[h].rec \in Records

(* An origin has a record of its own.                                      *)
Owned(m) ==
  \A o, p \in Origins : m.table[o] = m.table[p] /\ m.table[o] # NoRecord => o = p

(* An episode is that of an engaged latch, and a latch is engaged only     *)
(* while its signal has not fallen below the threshold that releases it.   *)
Hysteresis(rec) ==
  \A l \in Levels : /\ rec.episode[l] => rec.latched[l]
                    /\ rec.latched[l] => rec.signal[l] >= Middle

Sound(m) ==
  /\ m \in Monitor
  /\ Held(m) /\ Owned(m)
  /\ \A i \in Records : Hysteresis(m.recs[i])
  /\ CountsItsHandlers(m)
  /\ SamplesWhatItHas(m)

StateOf(m) == [h \in PressureHandlers |-> m.handler[h].state]

LEMMA RecordKind == NewRecord \in Record /\ Hysteresis(NewRecord) /\ IsIdle(NewRecord)
<1>1. NewRecord \in Record
  BY DEF NewRecord, Record, Idle, High
<1>2. Hysteresis(NewRecord)
  BY DEF NewRecord, Hysteresis
<1>3. IsIdle(NewRecord)
  BY DEF NewRecord, IsIdle
<1> QED
  BY <1>1, <1>2, <1>3

(* A monitor that has seen nothing.                                        *)
THEOREM NewMonitorSound ==
  ASSUME Countable
  PROVE  Sound(NewMonitor) /\ \A h \in PressureHandlers : StateOf(NewMonitor)[h] = "none"
<1> DEFINE m == NewMonitor
<1>1. /\ m.table = [o \in Origins |-> NoRecord] /\ m.recs = [i \in Records |-> NewRecord]
      /\ m.timer = FALSE /\ m.handler = [h \in PressureHandlers |-> NewHandler]
      /\ m.open = [o \in Origins |-> [l \in Levels |-> 0]]
  BY DEF NewMonitor
<1>2. NewHandler \in Handler /\ NewHandler.state = "none"
  BY DEF NewHandler, Handler
<1>3. m \in Monitor
  BY <1>2, RecordKind DEF NewMonitor, Monitor
<1> HIDE DEF m
<1>4. Live(m) = {} /\ InTable(m) = {} /\ InUse(m) = {}
  BY <1>1, <1>2 DEF Live, InTable, InUse
<1>5. Held(m) /\ Owned(m)
  BY <1>1, <1>4 DEF Held, Owned
<1>6. \A i \in Records : Hysteresis(m.recs[i])
  BY <1>1, RecordKind
<1>7. CountsItsHandlers(m)
  BY <1>4 DEF CountsItsHandlers
<1>8. SamplesWhatItHas(m)
  BY <1>1, <1>4 DEF SamplesWhatItHas, One
<1>9. \A h \in PressureHandlers : StateOf(m)[h] = "none"
  BY <1>1, <1>2 DEF StateOf
<1> QED
  BY <1>3, <1>5, <1>6, <1>7, <1>8, <1>9 DEF Sound, m

(* A handler is told something that is neither a connection nor an end.    *)
LEMMA Reshaped ==
  ASSUME NEW m, Sound(m), NEW n \in Monitor,
         n.table = m.table, n.recs = m.recs, n.timer = m.timer, n.open = m.open,
         \A k \in PressureHandlers : /\ n.handler[k].state = m.handler[k].state
                                     /\ n.handler[k].rec = m.handler[k].rec
  PROVE  Sound(n) /\ StateOf(n) = StateOf(m)
<1>1. Live(n) = Live(m) /\ InTable(n) = InTable(m)
  BY DEF Live, InTable
<1>2. InUse(n) = InUse(m)
  BY <1>1 DEF InUse, Live
<1>3. \A i, state : Holding(n, i, state) = Holding(m, i, state)
  BY DEF Holding
<1>4. Held(n) /\ Owned(n)
  BY <1>1 DEF Sound, Held, Owned, Live
<1>5. CountsItsHandlers(n)
  BY <1>1, <1>2, <1>3 DEF Sound, CountsItsHandlers
<1>6. SamplesWhatItHas(n)
  BY <1>1 DEF Sound, SamplesWhatItHas
<1>7. StateOf(n) = StateOf(m)
  BY DEF StateOf
<1> QED
  BY <1>4, <1>5, <1>6, <1>7 DEF Sound

LEMMA HoldingKind ==
  ASSUME Countable, NEW m, NEW i, NEW state
  PROVE  IsFiniteSet(Holding(m, i, state)) /\ Cardinality(Holding(m, i, state)) \in Nat
<1>1. Holding(m, i, state) \in SUBSET PressureHandlers
  BY DEF Holding
<1> QED
  BY <1>1, FS_Subset, FS_CardinalityType DEF Countable

(* What the gauges count when a handler takes a state or leaves it.        *)
HeldBy(m, h, i, state) == IF m.handler[h].rec = i /\ m.handler[h].state = state THEN 1 ELSE 0

(* No handler but h changes.                                               *)
Alone(m, n, h) == \A k \in PressureHandlers \ {h} : n.handler[k] = m.handler[k]

LEMMA HoldingMoves ==
  ASSUME Countable, NEW m, NEW n, NEW h \in PressureHandlers, NEW i, NEW state,
         Alone(m, n, h)
  PROVE  Cardinality(Holding(n, i, state)) =
           Cardinality(Holding(m, i, state)) + HeldBy(n, h, i, state) - HeldBy(m, h, i, state)
<1> DEFINE S == Holding(m, i, state) \ {h}
           before == m.handler[h].rec = i /\ m.handler[h].state = state
           after  == n.handler[h].rec = i /\ n.handler[h].state = state
<1>1. IsFiniteSet(S) /\ Cardinality(S) \in Nat
  BY HoldingKind, FS_RemoveElement, FS_CardinalityType
<1>2. Cardinality(Holding(m, i, state)) = Cardinality(S) + (IF before THEN 1 ELSE 0)
  <2>1. CASE before
    <3>1. Holding(m, i, state) = S \cup {h} /\ h \notin S
      BY <2>1 DEF Alone, Holding
    <3>2. Cardinality(S \cup {h}) = Cardinality(S) + 1
      BY <3>1, <1>1, FS_AddElement
    <3> HIDE DEF S
    <3> QED
      BY <3>1, <3>2, <2>1, <1>1
  <2>2. CASE ~before
    <3>1. Holding(m, i, state) = S
      BY <2>2 DEF Alone, Holding
    <3>2. Cardinality(S) \in Nat
      BY <1>1
    <3> HIDE DEF S
    <3> QED
      BY <3>1, <3>2, <2>2
  <2> QED
    BY <2>1, <2>2
<1>3. Cardinality(Holding(n, i, state)) = Cardinality(S) + (IF after THEN 1 ELSE 0)
  <2>1. CASE after
    <3>1. Holding(n, i, state) = S \cup {h} /\ h \notin S
      BY <2>1 DEF Alone, Holding
    <3>2. Cardinality(S \cup {h}) = Cardinality(S) + 1
      BY <3>1, <1>1, FS_AddElement
    <3> HIDE DEF S
    <3> QED
      BY <3>1, <3>2, <2>1, <1>1
  <2>2. CASE ~after
    <3>1. Holding(n, i, state) = S
      BY <2>2 DEF Alone, Holding
    <3>2. Cardinality(S) \in Nat
      BY <1>1
    <3> HIDE DEF S
    <3> QED
      BY <3>1, <3>2, <2>2
  <2> QED
    BY <2>1, <2>2
<1> QED
  BY <1>1, <1>2, <1>3 DEF HeldBy

(* A monitor whose gauges may not be what gauges should be.                *)
LooseRecord ==
  [pending : Int, running : Int, completed : Nat, errored : Nat,
   signal : [Levels -> Idle..High], latched : [Levels -> BOOLEAN],
   episode : [Levels -> BOOLEAN], dropped : BOOLEAN]

Loose ==
  [table : [Origins -> Records \cup {NoRecord}], recs : [Records -> LooseRecord],
   timer : BOOLEAN, handler : [PressureHandlers -> Handler],
   open : [Origins -> [Levels -> Int]]]

(* The gauges of the record that h holds become p and q.                   *)
Regauged(m, n, h, p, q) ==
  /\ \A j \in Records : j # m.handler[h].rec => n.recs[j] = m.recs[j]
  /\ LET was == m.recs[m.handler[h].rec]
         rec == n.recs[m.handler[h].rec]
     IN /\ rec.pending = p /\ rec.running = q
        /\ rec.signal = was.signal /\ rec.latched = was.latched
        /\ rec.episode = was.episode /\ rec.dropped = was.dropped

(* A handler that has its record moves from one state to another, and the  *)
(* gauges of the record with it.                                           *)
Moves(m, n, h) ==
  /\ n \in Loose /\ n.table = m.table /\ n.timer = m.timer /\ n.open = m.open
  /\ Alone(m, n, h)
  /\ n.handler[h].rec = m.handler[h].rec /\ n.handler[h].state \in {"running", "done"}
  /\ Regauged(m, n, h,
       m.recs[m.handler[h].rec].pending - (IF m.handler[h].state = "pending" THEN 1 ELSE 0),
       m.recs[m.handler[h].rec].running + (IF n.handler[h].state = "running" THEN 1 ELSE 0)
                                        - (IF m.handler[h].state = "running" THEN 1 ELSE 0))

LEMMA Moved ==
  ASSUME Countable, NEW m, Sound(m), NEW h \in Live(m), NEW n, Moves(m, n, h)
  PROVE  Sound(n) /\ StateOf(n) = [StateOf(m) EXCEPT ![h] = n.handler[h].state]
<1> DEFINE i == m.handler[h].rec
           rec == n.recs[i]
           p == rec.pending
           q == rec.running
<1>1. /\ m \in Monitor /\ h \in PressureHandlers /\ i \in Records /\ m.recs[i] \in Record
      /\ m.handler[h].state \in {"pending", "running"}
  BY DEF Sound, Held, Live, Monitor
<1>0. /\ n \in Loose /\ n.table = m.table /\ n.timer = m.timer /\ n.open = m.open
      /\ n.handler[h].rec = m.handler[h].rec /\ n.handler[h].state \in {"running", "done"}
  BY DEF Moves
<1>2. /\ \A j \in Records : j # i => n.recs[j] = m.recs[j]
      /\ rec.signal = m.recs[i].signal /\ rec.latched = m.recs[i].latched
      /\ rec.episode = m.recs[i].episode /\ rec.dropped = m.recs[i].dropped
  BY DEF Moves, Regauged
<1>3. /\ p = m.recs[i].pending - (IF m.handler[h].state = "pending" THEN 1 ELSE 0)
      /\ q = m.recs[i].running + (IF n.handler[h].state = "running" THEN 1 ELSE 0)
               - (IF m.handler[h].state = "running" THEN 1 ELSE 0)
  BY DEF Moves, Regauged
<1>4. Alone(m, n, h) /\ \A k \in PressureHandlers : k # h => n.handler[k] = m.handler[k]
  BY DEF Moves, Alone
<1>5. i \in InUse(m) /\ InTable(n) = InTable(m)
  BY <1>0 DEF InUse, InTable
<1>6. /\ m.recs[i].pending = Cardinality(Holding(m, i, "pending"))
      /\ m.recs[i].running = Cardinality(Holding(m, i, "running"))
  BY <1>5 DEF Sound, CountsItsHandlers
<1>7. /\ Cardinality(Holding(n, i, "pending")) = p
      /\ Cardinality(Holding(n, i, "running")) = q
  <2>1. /\ Cardinality(Holding(n, i, "pending")) =
             Cardinality(Holding(m, i, "pending"))
               + HeldBy(n, h, i, "pending") - HeldBy(m, h, i, "pending")
    <3> HIDE DEF i
    <3> QED
      BY <1>1, <1>4, HoldingMoves
  <2>2. /\ Cardinality(Holding(n, i, "running")) =
             Cardinality(Holding(m, i, "running"))
               + HeldBy(n, h, i, "running") - HeldBy(m, h, i, "running")
    <3> HIDE DEF i
    <3> QED
      BY <1>1, <1>4, HoldingMoves
  <2>3. /\ m.recs[i].pending \in Nat /\ m.recs[i].running \in Nat
    BY <1>1 DEF Record
  <2>4. n.handler[h].state # "pending" /\ n.handler[h].rec = i
    BY <1>0
  <2> HIDE DEF i, p, q
  <2> QED
    BY <1>3, <1>6, <2>1, <2>2, <2>3, <2>4 DEF i, HeldBy
<1>8. p \in Nat /\ q \in Nat
  BY <1>7, HoldingKind
<1>9. n \in Monitor
  <2>1. ASSUME NEW j \in Records PROVE n.recs[j] \in Record
    <3>1. n.recs[j] \in LooseRecord
      BY <1>0 DEF Loose
    <3>2. CASE j = i
      BY <3>1, <3>2, <1>8 DEF LooseRecord, Record
    <3>3. CASE j # i
      BY <3>3, <1>1, <1>2 DEF Monitor
    <3> QED
      BY <3>2, <3>3
  <2> QED
    BY <1>0, <2>1 DEF Loose, Monitor
<1> HIDE DEF rec, p, q
<1>10. Live(n) \subseteq Live(m) /\ InUse(n) \subseteq InUse(m)
  <2>1. \A k \in Live(n) : k \in Live(m) /\ n.handler[k].rec = m.handler[k].rec
    BY <1>0, <1>4 DEF Live
  <2> QED
    BY <2>1, <1>5 DEF InUse
<1>11. Held(n) /\ Owned(n)
  <2>1. \A k \in Live(n) : n.handler[k].rec = m.handler[k].rec
    BY <1>0, <1>4 DEF Live
  <2>2. Held(n)
    BY <2>1, <1>10 DEF Sound, Held
  <2> QED
    BY <1>0, <2>2 DEF Sound, Owned
<1>12. \A j \in Records : Hysteresis(n.recs[j])
  <2> SUFFICES ASSUME NEW j \in Records PROVE Hysteresis(n.recs[j])
    OBVIOUS
  <2>1. Hysteresis(m.recs[j])
    BY DEF Sound
  <2>2. /\ n.recs[j].episode = m.recs[j].episode /\ n.recs[j].latched = m.recs[j].latched
        /\ n.recs[j].signal = m.recs[j].signal
    BY <1>2 DEF rec
  <2> QED
    BY <2>1, <2>2 DEF Hysteresis
<1>13. CountsItsHandlers(n)
  <2> SUFFICES ASSUME NEW j \in InUse(n)
               PROVE  /\ n.recs[j].pending = Cardinality(Holding(n, j, "pending"))
                      /\ n.recs[j].running = Cardinality(Holding(n, j, "running"))
                      /\ j \in InTable(n) <=> ~n.recs[j].dropped
    BY DEF CountsItsHandlers
  <2>1. /\ m.recs[j].pending = Cardinality(Holding(m, j, "pending"))
        /\ m.recs[j].running = Cardinality(Holding(m, j, "running"))
        /\ j \in InTable(m) <=> ~m.recs[j].dropped
    BY <1>10 DEF Sound, CountsItsHandlers
  <2>2. j \in Records
    BY <1>9, <1>11 DEF InUse, InTable, Held, Monitor
  <2>3. CASE j = i
    BY <2>1, <2>2, <2>3, <1>2, <1>5, <1>7 DEF p, q, rec
  <2>4. CASE j # i
    <3>1. Holding(n, j, "pending") = Holding(m, j, "pending")
      BY <2>4, <1>0, <1>4 DEF Holding
    <3>2. Holding(n, j, "running") = Holding(m, j, "running")
      BY <2>4, <1>0, <1>4 DEF Holding
    <3> QED
      BY <2>1, <2>2, <2>4, <3>1, <3>2, <1>2, <1>5
  <2> QED
    BY <2>3, <2>4
<1>14. SamplesWhatItHas(n)
  <2>1. \A j \in Records : /\ n.recs[j].episode = m.recs[j].episode
                            /\ n.recs[j].latched = m.recs[j].latched
    BY <1>2 DEF rec
  <2>2. \A o \in Origins : n.table[o] # NoRecord => n.table[o] \in Records
    BY <1>9 DEF Monitor
  <2>3. ASSUME NEW o \in Origins, NEW l \in Levels
        PROVE  LET k == n.table[o]
                   engaged == k # NoRecord /\ n.recs[k].episode[l]
               IN n.open[o][l] = One(engaged) /\ (engaged => n.recs[k].latched[l])
    <3>1. LET k == m.table[o]
              engaged == k # NoRecord /\ m.recs[k].episode[l]
          IN m.open[o][l] = One(engaged) /\ (engaged => m.recs[k].latched[l])
      BY DEF Sound, SamplesWhatItHas
    <3> QED
      BY <1>0, <2>1, <2>2, <3>1 DEF One
  <2> QED
    BY <1>0, <2>3, <1>5 DEF Sound, SamplesWhatItHas
<1>15. StateOf(n) = [StateOf(m) EXCEPT ![h] = n.handler[h].state]
  BY <1>0, <1>4 DEF StateOf
<1> QED
  BY <1>9, <1>11, <1>12, <1>13, <1>14, <1>15 DEF Sound

LEMMA MonitorFields ==
  ASSUME NEW m \in Monitor, NEW h \in PressureHandlers
  PROVE  /\ m = [table |-> m.table, recs |-> m.recs, timer |-> m.timer,
                 handler |-> m.handler, open |-> m.open]
         /\ m.handler[h] = [state |-> m.handler[h].state, rec |-> m.handler[h].rec,
                            status |-> m.handler[h].status, client |-> m.handler[h].client]
BY DEF Monitor, Handler

(* The headers of an attempt, and an abort from above (pressure.js         *)
(* 433-460).                                                               *)
THEOREM HeadersSound ==
  ASSUME NEW m, Sound(m), NEW h \in PressureHandlers,
         NEW status \in {"final", "redirect", "overload"}
  PROVE  Sound(Headers(m, h, status)) /\ StateOf(Headers(m, h, status)) = StateOf(m)
<1> DEFINE n == Headers(m, h, status)
<1>1. m \in Monitor /\ m.handler[h] \in Handler
  BY DEF Sound, Monitor
<1>2. n = [m EXCEPT !.handler = [m.handler EXCEPT ![h] = [m.handler[h] EXCEPT !.status = status]]]
  BY <1>1 DEF Headers, Monitor
<1>3. [m.handler[h] EXCEPT !.status = status] \in Handler
  BY <1>1 DEF Handler
<1>4. /\ n \in Monitor /\ n.table = m.table /\ n.recs = m.recs /\ n.timer = m.timer
      /\ n.open = m.open
      /\ n.handler = [m.handler EXCEPT ![h] = [m.handler[h] EXCEPT !.status = status]]
  BY <1>1, <1>2, <1>3 DEF Monitor
<1>5. \A k \in PressureHandlers : /\ n.handler[k].state = m.handler[k].state
                                  /\ n.handler[k].rec = m.handler[k].rec
  BY <1>1, <1>4 DEF Handler, Monitor
<1> HIDE DEF n
<1> QED
  BY <1>4, <1>5, Reshaped DEF n

THEOREM ClientAbortsSound ==
  ASSUME NEW m, Sound(m), NEW h
  PROVE  Sound(ClientAborts(m, h)) /\ StateOf(ClientAborts(m, h)) = StateOf(m)
<1> DEFINE n == ClientAborts(m, h)
           y == [m.handler[h] EXCEPT !.client = TRUE]
           X == [m.handler EXCEPT ![h] = y]
<1>1. m \in Monitor
  BY DEF Sound
<1>2. n = [m EXCEPT !.handler = X]
  BY <1>1 DEF ClientAborts, Monitor
<1>3. h \in PressureHandlers =>
        y \in Handler /\ y.state = m.handler[h].state /\ y.rec = m.handler[h].rec
  <2> SUFFICES ASSUME h \in PressureHandlers
               PROVE  y \in Handler /\ y.state = m.handler[h].state /\ y.rec = m.handler[h].rec
    OBVIOUS
  <2>1. m.handler[h] \in Handler
    BY <1>1 DEF Monitor
  <2> QED
    BY <2>1 DEF Handler
<1> HIDE DEF y
<1>4. /\ X \in [PressureHandlers -> Handler]
      /\ \A k \in PressureHandlers : /\ X[k].state = m.handler[k].state
                                      /\ X[k].rec = m.handler[k].rec
  BY <1>1, <1>3 DEF Monitor
<1> HIDE DEF X
<1>5. /\ n \in Monitor /\ n.table = m.table /\ n.recs = m.recs /\ n.timer = m.timer
      /\ n.open = m.open /\ n.handler = X
  BY <1>1, <1>2, <1>4 DEF Monitor
<1> HIDE DEF n
<1> QED
  BY <1>4, <1>5, Reshaped DEF n

(* A record whose gauges have become p and q.                              *)
Gauged(rec, a, p, q) ==
  /\ rec \in LooseRecord /\ rec.pending = p /\ rec.running = q
  /\ rec.signal = a.signal /\ rec.latched = a.latched
  /\ rec.episode = a.episode /\ rec.dropped = a.dropped

LEMMA GaugedKind ==
  ASSUME NEW a \in Record, NEW p \in Int, NEW q \in Int
  PROVE  /\ Gauged([a EXCEPT !.pending = p, !.running = q], a, p, q)
         /\ Gauged([a EXCEPT !.pending = p], a, p, a.running)
         /\ Gauged([a EXCEPT !.running = q], a, a.pending, q)
<1>1. Gauged([a EXCEPT !.pending = p, !.running = q], a, p, q)
  BY DEF Gauged, Record, LooseRecord
<1>2. Gauged([a EXCEPT !.pending = p], a, p, a.running)
  BY DEF Gauged, Record, LooseRecord
<1>3. Gauged([a EXCEPT !.running = q], a, a.pending, q)
  BY DEF Gauged, Record, LooseRecord
<1> QED
  BY <1>1, <1>2, <1>3

LEMMA CountedKind ==
  ASSUME NEW a, NEW b, NEW p, NEW q, Gauged(b, a, p, q), NEW c \in Nat, NEW e \in Nat
  PROVE  Gauged([b EXCEPT !.completed = c, !.errored = e], a, p, q)
BY DEF Gauged, LooseRecord

(* A monitor with other handlers and other records.                        *)
With(m, x, r) == [m EXCEPT !.handler = x, !.recs = r]

LEMMA WithKind ==
  ASSUME NEW m \in Monitor, NEW x \in [PressureHandlers -> Handler],
         NEW r \in [Records -> LooseRecord]
  PROVE  /\ With(m, x, r) \in Loose /\ With(m, x, r).table = m.table
         /\ With(m, x, r).timer = m.timer /\ With(m, x, r).open = m.open
         /\ With(m, x, r).handler = x /\ With(m, x, r).recs = r
BY DEF With, Monitor, Loose

(* What a handler that moves leaves of the monitor.                        *)
MovedTo(m, h, y, rec) ==
  With(m, [m.handler EXCEPT ![h] = y], [m.recs EXCEPT ![m.handler[h].rec] = rec])

Shifts(m, h, y, rec) ==
  /\ y \in Handler /\ y.state \in {"running", "done"} /\ y.rec = m.handler[h].rec
  /\ Gauged(rec, m.recs[m.handler[h].rec],
       m.recs[m.handler[h].rec].pending - (IF m.handler[h].state = "pending" THEN 1 ELSE 0),
       m.recs[m.handler[h].rec].running + (IF y.state = "running" THEN 1 ELSE 0)
                                        - (IF m.handler[h].state = "running" THEN 1 ELSE 0))

LEMMA MovedToSound ==
  ASSUME Countable, NEW m, Sound(m), NEW h \in Live(m), NEW y, NEW rec, Shifts(m, h, y, rec)
  PROVE  /\ Sound(MovedTo(m, h, y, rec))
         /\ StateOf(MovedTo(m, h, y, rec)) = [StateOf(m) EXCEPT ![h] = y.state]
<1> DEFINE i == m.handler[h].rec
           x == [m.handler EXCEPT ![h] = y]
           r == [m.recs EXCEPT ![i] = rec]
           n == MovedTo(m, h, y, rec)
<1>1. m \in Monitor /\ h \in PressureHandlers /\ i \in Records
  BY DEF Sound, Held, Live
<1>2. /\ x \in [PressureHandlers -> Handler] /\ x[h] = y
      /\ \A k \in PressureHandlers \ {h} : x[k] = m.handler[k]
  BY <1>1 DEF Shifts, Monitor
<1>3. r \in [Records -> LooseRecord]
  BY <1>1 DEF Shifts, Gauged, Monitor, Record, LooseRecord
<1>4. r[i] = rec /\ \A j \in Records : j # i => r[j] = m.recs[j]
  BY <1>1 DEF Monitor
<1>5. n = With(m, x, r)
  BY DEF MovedTo
<1> HIDE DEF x, r, n
<1>6. /\ n \in Loose /\ n.table = m.table /\ n.timer = m.timer /\ n.open = m.open
      /\ n.handler = x /\ n.recs = r
  BY <1>1, <1>2, <1>3, <1>5, WithKind
<1>7. /\ Alone(m, n, h)
      /\ n.handler[h] = y
      /\ \A j \in Records : j # i => n.recs[j] = m.recs[j]
      /\ n.recs[i] = rec
  BY <1>2, <1>4, <1>6 DEF Alone
<1>8. Moves(m, n, h)
  BY <1>6, <1>7 DEF Shifts, Gauged, Regauged, Moves
<1>9. Sound(n) /\ StateOf(n) = [StateOf(m) EXCEPT ![h] = n.handler[h].state]
  BY <1>8, Moved
<1> QED
  BY <1>7, <1>9 DEF n

LEMMA UngaugedKind ==
  ASSUME NEW a \in Record, NEW state \in {"pending", "running"}
  PROVE  Gauged(Ungauged(a, state), a, a.pending - (IF state = "pending" THEN 1 ELSE 0),
                                       a.running - (IF state = "running" THEN 1 ELSE 0))
<1> DEFINE p == a.pending - 1
           q == a.running - 1
<1>1. a.pending \in Nat /\ a.running \in Nat
  BY DEF Record
<1>2. /\ Gauged([a EXCEPT !.pending = p], a, p, a.running)
      /\ Gauged([a EXCEPT !.running = q], a, a.pending, q)
  <2>1. p \in Int /\ q \in Int
    BY <1>1
  <2> HIDE DEF p, q
  <2> QED
    BY <2>1, GaugedKind
<1>3. CASE state = "pending"
  <2>1. Ungauged(a, state) = [a EXCEPT !.pending = p]
    BY <1>3 DEF Ungauged
  <2>2. /\ a.pending - (IF state = "pending" THEN 1 ELSE 0) = p
        /\ a.running - (IF state = "running" THEN 1 ELSE 0) = a.running
    BY <1>1, <1>3
  <2> HIDE DEF p
  <2> QED
    BY <1>2, <2>1, <2>2, Zenon
<1>4. CASE state = "running"
  <2>1. Ungauged(a, state) = [a EXCEPT !.running = q]
    BY <1>4 DEF Ungauged
  <2>2. /\ a.pending - (IF state = "pending" THEN 1 ELSE 0) = a.pending
        /\ a.running - (IF state = "running" THEN 1 ELSE 0) = q
    BY <1>1, <1>4
  <2> HIDE DEF q
  <2> QED
    BY <1>2, <2>1, <2>2, Zenon
<1> QED
  BY <1>3, <1>4

(* A connection, the first of an attempt or a further one, makes it run    *)
(* and counts once (pressure.js 433-453).                                  *)
THEOREM ConnectedSound ==
  ASSUME Countable, NEW m, Sound(m), NEW h \in Live(m)
  PROVE  /\ Sound(Connected(m, h))
         /\ StateOf(Connected(m, h)) = [StateOf(m) EXCEPT ![h] = "running"]
<1> DEFINE n == Connected(m, h)
           x == [m.handler[h] EXCEPT !.status = "none", !.client = FALSE]
           i == m.handler[h].rec
<1>1. /\ m \in Monitor /\ h \in PressureHandlers /\ m.handler[h] \in Handler
      /\ i \in Records /\ m.recs[i] \in Record
      /\ m.handler[h].state \in {"pending", "running"}
  BY DEF Sound, Held, Live, Monitor
<1>2. x \in Handler /\ x.state = m.handler[h].state /\ x.rec = i
  BY <1>1 DEF Handler
<1>3. CASE m.handler[h].state = "running"
  <2>1. n = [m EXCEPT !.handler = [m.handler EXCEPT ![h] = x]]
    BY <1>1, <1>3 DEF Connected, Monitor
  <2> HIDE DEF x
  <2>2. /\ n \in Monitor /\ n.table = m.table /\ n.recs = m.recs /\ n.timer = m.timer
        /\ n.open = m.open /\ n.handler = [m.handler EXCEPT ![h] = x]
    BY <1>1, <1>2, <2>1 DEF Monitor
  <2>3. \A k \in PressureHandlers : /\ n.handler[k].state = m.handler[k].state
                                    /\ n.handler[k].rec = m.handler[k].rec
    BY <1>1, <1>2, <2>2 DEF Monitor
  <2>4. [StateOf(m) EXCEPT ![h] = "running"] = StateOf(m)
    BY <1>1, <1>3 DEF StateOf
  <2> HIDE DEF n
  <2> QED
    BY <2>2, <2>3, <2>4, Reshaped DEF n
<1>4. CASE m.handler[h].state = "pending"
  <2> DEFINE y == [x EXCEPT !.state = "running"]
             a == m.recs[i]
             p == a.pending - 1
             q == a.running + 1
             rec == [a EXCEPT !.pending = p, !.running = q]
  <2>1. y \in Handler /\ y.state = "running" /\ y.rec = i
    BY <1>2 DEF Handler
  <2>2. n = MovedTo(m, h, y, rec)
    BY <1>1, <1>4 DEF Connected, MovedTo, With
  <2>3. /\ a \in Record /\ p \in Int /\ q \in Int
    BY <1>1 DEF Record
  <2>4. /\ p = a.pending - (IF m.handler[h].state = "pending" THEN 1 ELSE 0)
        /\ q = a.running + (IF y.state = "running" THEN 1 ELSE 0)
                 - (IF m.handler[h].state = "running" THEN 1 ELSE 0)
    <3>1. a.running \in Nat
      BY <2>3 DEF Record
    <3> QED
      BY <3>1, <1>4, <2>1
  <2>5. Gauged(rec, a, p, q)
    <3> HIDE DEF a, p, q
    <3> QED
      BY <2>3, GaugedKind
  <2> HIDE DEF rec, y, n, p, q
  <2>6. /\ Sound(MovedTo(m, h, y, rec))
        /\ StateOf(MovedTo(m, h, y, rec)) = [StateOf(m) EXCEPT ![h] = y.state]
    <3>1. Shifts(m, h, y, rec)
      BY <2>1, <2>4, <2>5 DEF Shifts
    <3> QED
      BY <3>1, MovedToSound
  <2> QED
    BY <2>1, <2>2, <2>6 DEF n
<1> QED
  BY <1>1, <1>3, <1>4

(* The end of an attempt counts once, however often it is reported         *)
(* (pressure.js 473-510).                                                  *)
THEOREM SettleSound ==
  ASSUME Countable, NEW m, Sound(m), NEW h \in PressureHandlers, NEW isError \in BOOLEAN
  PROVE  /\ Sound(Settle(m, h, isError))
         /\ StateOf(Settle(m, h, isError)) =
              [StateOf(m) EXCEPT ![h] = IF @ \in {"pending", "running"} THEN "done" ELSE @]
<1> DEFINE n == Settle(m, h, isError)
           i == m.handler[h].rec
           a == m.recs[i]
<1>1. CASE h \notin Live(m)
  <2>1. n = m
    BY <1>1 DEF Settle, Live
  <2>2. StateOf(m) = [StateOf(m) EXCEPT ![h] = IF @ \in {"pending", "running"} THEN "done" ELSE @]
    BY <1>1 DEF StateOf, Live
  <2> QED
    BY <2>1, <2>2
<1>2. CASE h \in Live(m)
  <2> DEFINE y == [m.handler[h] EXCEPT !.state = "done"]
             b == Ungauged(a, m.handler[h].state)
             c == b.completed + 1
             e == b.errored + (IF isError THEN 1 ELSE 0)
             rec == [b EXCEPT !.completed = c, !.errored = e]
  <2>1. /\ m \in Monitor /\ m.handler[h] \in Handler /\ i \in Records /\ a \in Record
        /\ m.handler[h].state \in {"pending", "running"}
    BY <1>2 DEF Sound, Held, Live, Monitor
  <2>2. y \in Handler /\ y.state = "done" /\ y.rec = i
    BY <2>1 DEF Handler
  <2>3. n = MovedTo(m, h, y, rec)
    BY <2>1, <1>2 DEF Settle, Settled, MovedTo, With, Live
  <2> DEFINE p == a.pending - (IF m.handler[h].state = "pending" THEN 1 ELSE 0)
             q == a.running - (IF m.handler[h].state = "running" THEN 1 ELSE 0)
  <2>4. Gauged(b, a, p, q)
    <3> HIDE DEF a
    <3> QED
      BY <2>1, UngaugedKind
  <2> HIDE DEF b
  <2>5. c \in Nat /\ e \in Nat
    BY <2>4 DEF Gauged, LooseRecord
  <2> HIDE DEF c, e, y, n
  <2>6. Gauged(rec, a, p, q)
    <3> HIDE DEF a, p, q
    <3> QED
      BY <2>4, <2>5, CountedKind
  <2> HIDE DEF rec
  <2>7. q = a.running + (IF y.state = "running" THEN 1 ELSE 0)
                      - (IF m.handler[h].state = "running" THEN 1 ELSE 0)
    <3>1. a.running \in Nat
      BY <2>1 DEF Record
    <3> QED
      BY <3>1, <2>2
  <2>8. Sound(MovedTo(m, h, y, rec))
        /\ StateOf(MovedTo(m, h, y, rec)) = [StateOf(m) EXCEPT ![h] = y.state]
    <3>1. Shifts(m, h, y, rec)
      <4> HIDE DEF q
      <4> QED
        BY <2>2, <2>6, <2>7 DEF Shifts
    <3> QED
      BY <1>2, <3>1, MovedToSound
  <2>9. [StateOf(m) EXCEPT ![h] = "done"] =
          [StateOf(m) EXCEPT ![h] = IF @ \in {"pending", "running"} THEN "done" ELSE @]
    BY <1>2, <2>1 DEF StateOf, Live
  <2> QED
    BY <2>2, <2>3, <2>8, <2>9 DEF n
<1> QED
  BY <1>1, <1>2

-----------------------------------------------------------------------------
(* The operations on the table.                                            *)

Has(n, t, r, b, x, open) ==
  /\ n \in Monitor /\ n.table = t /\ n.recs = r /\ n.timer = b
  /\ n.handler = x /\ n.open = open

LEMMA Retimed ==
  ASSUME NEW m \in Monitor, NEW b \in BOOLEAN
  PROVE  Has([m EXCEPT !.timer = b], m.table, m.recs, b, m.handler, m.open)
BY DEF Has, Monitor

LEMMA Remade ==
  ASSUME NEW m \in Monitor, NEW t \in [Origins -> Records \cup {NoRecord}],
         NEW r \in [Records -> Record], NEW b \in BOOLEAN,
         NEW x \in [PressureHandlers -> Handler], NEW open \in [Origins -> [Levels -> Int]]
  PROVE  /\ Has([m EXCEPT !.recs = r, !.handler = x], m.table, r, m.timer, x, m.open)
         /\ Has([m EXCEPT !.table = t, !.recs = r], t, r, m.timer, m.handler, m.open)
         /\ Has([m EXCEPT !.timer = b, !.table = t, !.open = open, !.recs = r],
                t, r, b, m.handler, open)
         /\ Has([m EXCEPT !.recs = r, !.open = open, !.table = t],
                t, r, m.timer, m.handler, open)
<1>2. Has([m EXCEPT !.recs = r, !.handler = x], m.table, r, m.timer, x, m.open)
  BY DEF Has, Monitor
<1>3. Has([m EXCEPT !.table = t, !.recs = r], t, r, m.timer, m.handler, m.open)
  BY DEF Has, Monitor
<1>4. Has([m EXCEPT !.timer = b, !.table = t, !.open = open, !.recs = r],
          t, r, b, m.handler, open)
  BY DEF Has, Monitor
<1>5. Has([m EXCEPT !.recs = r, !.open = open, !.table = t], t, r, m.timer, m.handler, open)
  BY DEF Has, Monitor
<1> QED
  BY <1>2, <1>3, <1>4, <1>5

(* What close() and a tick undo: a document is open for each episode.      *)
LEMMA Opened ==
  ASSUME NEW m, Sound(m), NEW o \in Origins, NEW l \in Levels
  PROVE  /\ Episode(m, o) \in [Levels -> BOOLEAN]
         /\ m.open[o][l] = (IF Episode(m, o)[l] THEN 1 ELSE 0)
         /\ m.open[o][l] - One(Episode(m, o)[l]) = 0
<1>1. Episode(m, o) \in [Levels -> BOOLEAN]
  <2>1. m.table[o] # NoRecord => m.recs[m.table[o]] \in Record
    BY DEF Sound, Monitor
  <2> QED
    BY <2>1 DEF Episode, NoEpisode, Record
<1>2. m.open[o][l] = (IF Episode(m, o)[l] THEN 1 ELSE 0)
  BY DEF Sound, SamplesWhatItHas, Episode, NoEpisode, One
<1> QED
  BY <1>1, <1>2 DEF One

(* What is in use is a record, and what a handler under way holds is.      *)
LEMMA UseKind ==
  ASSUME NEW m, m \in Monitor, Held(m)
  PROVE  /\ InTable(m) \subseteq Records /\ InUse(m) \subseteq Records
         /\ InTable(m) \subseteq InUse(m)
         /\ \A i \in InUse(m) \ InTable(m) :
              \E h \in PressureHandlers : /\ m.handler[h].rec = i
                                          /\ m.handler[h].state \in {"pending", "running"}
BY DEF InUse, InTable, Held, Live, Monitor

(* close() ends every episode, and what it lets go of stays with the       *)
(* handlers that hold it.                                                  *)
THEOREM CloseSound ==
  ASSUME Countable, NEW m, Sound(m)
  PROVE  Sound(Close(m)) /\ StateOf(Close(m)) = StateOf(m)
<1> DEFINE n == Close(m)
           T == [o \in Origins |-> NoRecord]
           O == [o \in Origins |-> [l \in Levels |-> m.open[o][l] - One(Episode(m, o)[l])]]
           let(rec) == [rec EXCEPT !.episode = NoEpisode, !.dropped = TRUE]
           R == [i \in Records |-> IF i \in InTable(m) THEN let(m.recs[i]) ELSE m.recs[i]]
           off == FALSE
<1>1. m \in Monitor
  BY DEF Sound
<1>2. n = [m EXCEPT !.timer = off, !.table = T, !.open = O, !.recs = R]
  BY Zenon DEF Close
<1>3. ASSUME NEW rec \in Record
      PROVE  /\ let(rec) \in Record /\ let(rec).pending = rec.pending
             /\ let(rec).running = rec.running /\ let(rec).dropped = TRUE
             /\ let(rec).episode = NoEpisode
             /\ let(rec).latched = rec.latched /\ let(rec).signal = rec.signal
  BY DEF Record, NoEpisode
<1> HIDE DEF let
<1>4. R \in [Records -> Record]
  BY <1>1, <1>3 DEF Monitor
<1>5. \A o \in Origins : \A l \in Levels : O[o][l] = 0
  BY Opened
<1>6. O \in [Origins -> [Levels -> Int]]
  BY <1>5
<1>7. T \in [Origins -> Records \cup {NoRecord}] /\ m.handler \in [PressureHandlers -> Handler]
      /\ off \in BOOLEAN /\ ~off
  BY <1>1 DEF Monitor
<1>8. \A i \in Records :
        /\ R[i].pending = m.recs[i].pending /\ R[i].running = m.recs[i].running
        /\ R[i].dropped = (i \in InTable(m) \/ m.recs[i].dropped)
        /\ R[i].latched = m.recs[i].latched /\ R[i].signal = m.recs[i].signal
        /\ \A l \in Levels : R[i].episode[l] => m.recs[i].episode[l]
  <2> SUFFICES ASSUME NEW i \in Records
               PROVE  /\ R[i].pending = m.recs[i].pending /\ R[i].running = m.recs[i].running
                      /\ R[i].dropped = (i \in InTable(m) \/ m.recs[i].dropped)
                      /\ R[i].latched = m.recs[i].latched /\ R[i].signal = m.recs[i].signal
                      /\ \A l \in Levels : R[i].episode[l] => m.recs[i].episode[l]
    OBVIOUS
  <2>1. m.recs[i] \in Record /\ m.recs[i].dropped \in BOOLEAN
    BY <1>1 DEF Monitor, Record
  <2>2. CASE i \in InTable(m)
    <3>1. R[i] = let(m.recs[i])
      BY <2>2
    <3> HIDE DEF R
    <3> QED
      BY <2>1, <2>2, <3>1, <1>3 DEF NoEpisode
  <2>3. CASE i \notin InTable(m)
    <3>1. R[i] = m.recs[i]
      BY <2>3
    <3> HIDE DEF R
    <3> QED
      BY <2>1, <2>3, <3>1
  <2> QED
    BY <2>2, <2>3
<1>9. \A o \in Origins : T[o] = NoRecord
  OBVIOUS
<1> HIDE DEF T, O, R, n, off
<1>10. /\ n \in Monitor /\ n.table = T /\ n.recs = R /\ n.timer = off
       /\ n.handler = m.handler /\ n.open = O
  <2>1. Has(n, T, R, off, m.handler, O)
    BY <1>1, <1>2, <1>4, <1>6, <1>7, Remade
  <2> QED
    BY <2>1 DEF Has
<1>11. Live(n) = Live(m) /\ InTable(n) = {}
  BY <1>9, <1>10 DEF Live, InTable
<1>12. Held(n) /\ Owned(n)
  BY <1>9, <1>10, <1>11 DEF Sound, Held, Owned
<1>13. \A i \in Records : Hysteresis(n.recs[i])
  BY <1>8, <1>10 DEF Sound, Hysteresis
<1>14. \A i, state : Holding(n, i, state) = Holding(m, i, state)
  BY <1>10 DEF Holding
<1>15. CountsItsHandlers(n)
  <2> SUFFICES ASSUME NEW i \in InUse(n)
               PROVE  /\ n.recs[i].pending = Cardinality(Holding(n, i, "pending"))
                      /\ n.recs[i].running = Cardinality(Holding(n, i, "running"))
                      /\ i \in InTable(n) <=> ~n.recs[i].dropped
    BY DEF CountsItsHandlers
  <2>1. i \in Records /\ i \in InUse(m)
    BY <1>10, <1>11, <1>12, UseKind DEF InUse
  <2>2. /\ m.recs[i].pending = Cardinality(Holding(m, i, "pending"))
        /\ m.recs[i].running = Cardinality(Holding(m, i, "running"))
        /\ i \in InTable(m) <=> ~m.recs[i].dropped
    BY <2>1 DEF Sound, CountsItsHandlers
  <2>3. m.recs[i].dropped \in BOOLEAN
    BY <2>1, <1>1 DEF Monitor, Record
  <2>4. n.recs[i].dropped
    BY <2>1, <2>2, <2>3, <1>8, <1>10
  <2> QED
    BY <2>1, <2>2, <2>4, <1>8, <1>10, <1>11, <1>14
<1>16. SamplesWhatItHas(n)
  BY <1>5, <1>7, <1>9, <1>10, <1>11 DEF SamplesWhatItHas, One
<1>17. StateOf(n) = StateOf(m)
  BY <1>10 DEF StateOf
<1> QED
  BY <1>10, <1>12, <1>13, <1>15, <1>16, <1>17 DEF Sound, n

(* A record that nothing can reach is forgotten.                           *)
THEOREM CollectSound ==
  ASSUME Countable, NEW m, Sound(m)
  PROVE  Sound(Collect(m)) /\ StateOf(Collect(m)) = StateOf(m)
<1> DEFINE n == Collect(m)
           R == [i \in Records |-> IF i \in InUse(m) THEN m.recs[i] ELSE NewRecord]
           forget(y) == [y EXCEPT !.status = "none", !.client = FALSE]
           X == [h \in PressureHandlers |->
                   IF m.handler[h].state = "done" THEN forget(m.handler[h]) ELSE m.handler[h]]
<1>1. m \in Monitor /\ Held(m)
  BY DEF Sound
<1>2. n = [m EXCEPT !.recs = R, !.handler = X]
  BY Zenon DEF Collect
<1>3. ASSUME NEW y \in Handler
      PROVE  forget(y) \in Handler /\ forget(y).state = y.state /\ forget(y).rec = y.rec
  BY DEF Handler
<1> HIDE DEF forget
<1>4. R \in [Records -> Record] /\ X \in [PressureHandlers -> Handler]
  BY <1>1, <1>3, RecordKind DEF Monitor
<1>5. \A h \in PressureHandlers : X[h].state = m.handler[h].state /\ X[h].rec = m.handler[h].rec
  BY <1>1, <1>3 DEF Monitor
<1>6. \A i \in Records : R[i] = IF i \in InUse(m) THEN m.recs[i] ELSE NewRecord
  OBVIOUS
<1> HIDE DEF R, X, n
<1>7. /\ n \in Monitor /\ n.table = m.table /\ n.recs = R /\ n.timer = m.timer
      /\ n.handler = X /\ n.open = m.open
  <2>1. /\ m.table \in [Origins -> Records \cup {NoRecord}] /\ m.timer \in BOOLEAN
        /\ m.open \in [Origins -> [Levels -> Int]]
    BY <1>1 DEF Monitor
  <2>2. Has(n, m.table, R, m.timer, X, m.open)
    BY <1>1, <1>2, <1>4, <2>1, Remade
  <2> QED
    BY <2>2 DEF Has
<1>8. Live(n) = Live(m) /\ InTable(n) = InTable(m)
  BY <1>5, <1>7 DEF Live, InTable
<1>9. InUse(n) = InUse(m)
  BY <1>5, <1>7, <1>8 DEF InUse, Live
<1>10. \A i, state : Holding(n, i, state) = Holding(m, i, state)
  BY <1>5, <1>7 DEF Holding
<1>11. Held(n) /\ Owned(n)
  BY <1>5, <1>7, <1>8 DEF Sound, Held, Owned, Live
<1>12. \A i \in Records : Hysteresis(n.recs[i])
  BY <1>6, <1>7, RecordKind DEF Sound
<1>13. \A i \in InUse(m) : i \in Records /\ n.recs[i] = m.recs[i]
  BY <1>1, <1>6, <1>7, UseKind
<1>14. CountsItsHandlers(n)
  BY <1>8, <1>9, <1>10, <1>13 DEF Sound, CountsItsHandlers
<1>15. SamplesWhatItHas(n)
  <2>1. \A o \in Origins : m.table[o] # NoRecord => m.table[o] \in InUse(m)
    BY DEF InUse, InTable
  <2>2. ASSUME NEW o \in Origins, NEW l \in Levels
        PROVE  LET i == n.table[o]
                   engaged == i # NoRecord /\ n.recs[i].episode[l]
               IN n.open[o][l] = One(engaged) /\ (engaged => n.recs[i].latched[l])
    <3>1. LET i == m.table[o]
              engaged == i # NoRecord /\ m.recs[i].episode[l]
          IN m.open[o][l] = One(engaged) /\ (engaged => m.recs[i].latched[l])
      BY DEF Sound, SamplesWhatItHas
    <3> QED
      BY <2>1, <1>7, <1>13, <3>1 DEF One
  <2> QED
    BY <2>2, <1>7, <1>8 DEF Sound, SamplesWhatItHas
<1>16. StateOf(n) = StateOf(m)
  BY <1>5, <1>7 DEF StateOf
<1> QED
  BY <1>7, <1>11, <1>12, <1>14, <1>15, <1>16 DEF Sound, n

(* A sample leaves the gauges alone, and what it latches obeys the         *)
(* thresholds (pressure.js 95-184, 245-285).                               *)
Resampled(a, rec) ==
  /\ a \in Record /\ Hysteresis(a)
  /\ a.pending = rec.pending /\ a.running = rec.running /\ a.dropped = rec.dropped

LEMMA SampledKind ==
  ASSUME NEW rec \in Record, NEW levels \in SUBSET Levels, NEW s \in Signals(rec, levels),
         NEW writer \in BOOLEAN
  PROVE  Resampled(Sampled(rec, s, writer), rec)
<1> DEFINE L == [l \in Levels |-> Latch(rec.latched[l], s[l])]
           E == [l \in Levels |-> L[l] /\ (rec.episode[l] \/ (~rec.latched[l] /\ writer))]
           a == Sampled(rec, s, writer)
           zero == 0
<1>1. PICK x \in [levels -> Idle..High] : s = [l \in Levels |-> IF l \in levels THEN x[l] ELSE Idle]
  BY DEF Signals
<1>2. s \in [Levels -> Idle..High]
  BY <1>1 DEF Idle, High
<1>3. rec.latched \in [Levels -> BOOLEAN] /\ rec.episode \in [Levels -> BOOLEAN]
  BY DEF Record
<1>4. L \in [Levels -> BOOLEAN] /\ \A l \in Levels : L[l] => s[l] >= Middle
  <2>1. \A was \in BOOLEAN : \A now \in Idle..High :
          Latch(was, now) \in BOOLEAN /\ (Latch(was, now) => now >= Middle)
    BY DEF Latch, Middle, High, Idle
  <2>2. \A l \in Levels : rec.latched[l] \in BOOLEAN /\ s[l] \in Idle..High
    BY <1>2, <1>3
  <2> QED
    BY <2>1, <2>2
<1>5. E \in [Levels -> BOOLEAN] /\ \A l \in Levels : E[l] => L[l]
  <2> HIDE DEF L
  <2> QED
    BY <1>3, <1>4
<1>6. a = [rec EXCEPT !.completed = zero, !.errored = zero, !.signal = s, !.latched = L,
                      !.episode = E]
  BY Zenon DEF Sampled
<1>7. zero \in Nat
  OBVIOUS
<1> HIDE DEF L, E, a, zero
<1>8. /\ a \in Record /\ a.pending = rec.pending /\ a.running = rec.running
      /\ a.dropped = rec.dropped /\ a.signal = s /\ a.latched = L /\ a.episode = E
  BY <1>2, <1>4, <1>5, <1>6, <1>7 DEF Record
<1> QED
  BY <1>4, <1>5, <1>8 DEF Resampled, Hysteresis, a

LEMMA SamplesKind ==
  ASSUME NEW m, Sound(m), NEW o \in Origins, NEW writer \in BOOLEAN,
         NEW levels \in SUBSET Levels, NEW a \in Samples(m, o, writer, levels)
  PROVE  /\ a \in Record /\ Hysteresis(a)
         /\ m.table[o] = NoRecord => a = NewRecord
         /\ m.table[o] # NoRecord => Resampled(a, m.recs[m.table[o]])
<1>1. CASE m.table[o] = NoRecord
  BY <1>1, RecordKind DEF Samples
<1>2. CASE m.table[o] # NoRecord
  <2> DEFINE rec == m.recs[m.table[o]]
  <2>1. rec \in Record /\ Hysteresis(rec)
    BY <1>2 DEF Sound, Monitor
  <2>2. a = rec \/ \E s \in Signals(rec, levels) : a = Sampled(rec, s, writer)
    BY <1>2 DEF Samples
  <2>3. Resampled(rec, rec)
    BY <2>1 DEF Resampled
  <2> HIDE DEF rec
  <2>4. Resampled(a, rec)
    BY <2>1, <2>2, <2>3, SampledKind
  <2> QED
    BY <1>2, <2>4 DEF rec, Resampled
<1> QED
  BY <1>1, <1>2

(* A tick keeps the documents paired, and forgets no record that a handler *)
(* holds (pressure.js 187-308).                                            *)
THEOREM TicksSound ==
  ASSUME Countable, NEW m, Sound(m), NEW writer \in BOOLEAN, NEW levels \in SUBSET Levels,
         NEW n \in Ticks(m, writer, levels)
  PROVE  Sound(n) /\ StateOf(n) = StateOf(m)
<1>1. PICK f \in [Origins -> UNION {Samples(m, o, writer, levels) : o \in Origins}] :
        /\ \A o \in Origins : f[o] \in Samples(m, o, writer, levels)
        /\ n = StopTimer(Ticked(m, f))
  BY DEF Ticks
<1> DEFINE R == [i \in Records |-> IF i \in InTable(m) THEN f[CHOOSE o \in Origins : m.table[o] = i]
                                   ELSE m.recs[i]]
           O == [o \in Origins |-> [l \in Levels |->
                   m.open[o][l] + One(f[o].episode[l]) - One(Episode(m, o)[l])]]
           T == [o \in Origins |-> IF IsIdle(f[o]) THEN NoRecord ELSE m.table[o]]
           k == Ticked(m, f)
           b == m.timer /\ InTable(k) # {}
<1>2. m \in Monitor /\ Held(m) /\ Owned(m)
  BY DEF Sound
<1>3. \A o \in Origins : /\ f[o] \in Record /\ Hysteresis(f[o])
                         /\ m.table[o] = NoRecord => f[o] = NewRecord
                         /\ m.table[o] # NoRecord => Resampled(f[o], m.recs[m.table[o]])
  BY <1>1, SamplesKind
<1>4. \A i \in InTable(m) :
        \E o \in Origins : m.table[o] = i /\ i \in Records /\ R[i] = f[o]
  <2> SUFFICES ASSUME NEW i \in InTable(m)
               PROVE  \E o \in Origins : m.table[o] = i /\ i \in Records /\ R[i] = f[o]
    OBVIOUS
  <2>1. i \in Records
    BY <1>2, UseKind
  <2>2. \E o \in Origins : m.table[o] = i
    BY DEF InTable
  <2>3. R[i] = f[CHOOSE o \in Origins : m.table[o] = i]
    BY <2>1
  <2> HIDE DEF R
  <2> QED
    BY <2>1, <2>2, <2>3
<1>5. \A i \in Records \ InTable(m) : R[i] = m.recs[i]
  OBVIOUS
<1>6. \A o \in Origins : T[o] = IF IsIdle(f[o]) THEN NoRecord ELSE m.table[o]
  OBVIOUS
<1>7. \A o \in Origins : \A l \in Levels : O[o][l] = IF f[o].episode[l] THEN 1 ELSE 0
  <2> SUFFICES ASSUME NEW o \in Origins, NEW l \in Levels
               PROVE  O[o][l] = IF f[o].episode[l] THEN 1 ELSE 0
    OBVIOUS
  <2>1. O[o][l] = m.open[o][l] + One(f[o].episode[l]) - One(Episode(m, o)[l])
    OBVIOUS
  <2>2. m.open[o][l] = One(Episode(m, o)[l])
    BY Opened DEF One
  <2>3. One(Episode(m, o)[l]) \in Int /\ One(f[o].episode[l]) \in Int
    BY DEF One
  <2> HIDE DEF O
  <2>4. O[o][l] = One(f[o].episode[l])
    BY <2>1, <2>2, <2>3
  <2> QED
    BY <2>4 DEF One
<1>8. /\ T \in [Origins -> Records \cup {NoRecord}] /\ O \in [Origins -> [Levels -> Int]]
      /\ m.handler \in [PressureHandlers -> Handler] /\ m.timer \in BOOLEAN
  <2>1. /\ m.table \in [Origins -> Records \cup {NoRecord}] /\ m.timer \in BOOLEAN
        /\ m.handler \in [PressureHandlers -> Handler]
    BY <1>2 DEF Monitor
  <2>2. T \in [Origins -> Records \cup {NoRecord}]
    BY <2>1
  <2>3. O \in [Origins -> [Levels -> Int]]
    <3> DEFINE v(o, l) == m.open[o][l] + One(f[o].episode[l]) - One(Episode(m, o)[l])
    <3>1. \A o \in Origins : \A l \in Levels : O[o][l] = v(o, l)
      OBVIOUS
    <3>2. \A o \in Origins : \A l \in Levels : v(o, l) \in Int
      BY <1>7, <3>1
    <3>3. O = [o \in Origins |-> [l \in Levels |-> v(o, l)]]
      OBVIOUS
    <3> HIDE DEF O, v
    <3> QED
      BY <3>2, <3>3
  <2> QED
    BY <2>1, <2>2, <2>3
<1>9. k = [m EXCEPT !.recs = R, !.open = O, !.table = T]
  BY Zenon DEF Ticked
<1> HIDE DEF R, O, T, k
<1>10. R \in [Records -> Record]
  <2>1. \A i \in Records : R[i] \in Record
    BY <1>2, <1>3, <1>4, <1>5 DEF Monitor
  <2>2. R = [i \in Records |-> R[i]]
    BY DEF R
  <2> QED
    BY <2>1, <2>2
<1>11. /\ k \in Monitor /\ k.table = T /\ k.recs = R /\ k.timer = m.timer
       /\ k.handler = m.handler /\ k.open = O
  <2>1. Has(k, T, R, m.timer, m.handler, O)
    BY <1>2, <1>8, <1>9, <1>10, Remade
  <2> QED
    BY <2>1 DEF Has
<1>12. n = [k EXCEPT !.timer = b]
  BY <1>1, <1>11, Zenon DEF StopTimer, k
<1>13. b \in BOOLEAN
  BY <1>8
<1> HIDE DEF b
<1>14. /\ n \in Monitor /\ n.table = T /\ n.recs = R /\ n.timer = b
       /\ n.handler = m.handler /\ n.open = O
  <2>2. Has(n, k.table, k.recs, b, k.handler, k.open)
    BY <1>11, <1>12, <1>13, Retimed
  <2> QED
    BY <1>11, <2>2 DEF Has
<1>15. Live(n) = Live(m) /\ \A i, state : Holding(n, i, state) = Holding(m, i, state)
  BY <1>14 DEF Live, Holding
<1>16. InTable(n) \subseteq InTable(m) /\ InTable(n) = InTable(k)
  BY <1>6, <1>11, <1>14 DEF InTable
<1>17. InUse(n) \subseteq InUse(m)
  BY <1>14, <1>15, <1>16 DEF InUse
<1>18. Held(n) /\ Owned(n)
  BY <1>2, <1>6, <1>14, <1>15 DEF Held, Owned
<1>19. \A i \in Records : Hysteresis(n.recs[i])
  BY <1>3, <1>4, <1>5, <1>14 DEF Sound
<1>20. \A i \in Records : /\ n.recs[i].pending = m.recs[i].pending
                          /\ n.recs[i].running = m.recs[i].running
                          /\ n.recs[i].dropped = m.recs[i].dropped
  <2> SUFFICES ASSUME NEW i \in Records
               PROVE  /\ n.recs[i].pending = m.recs[i].pending
                      /\ n.recs[i].running = m.recs[i].running
                      /\ n.recs[i].dropped = m.recs[i].dropped
    OBVIOUS
  <2>1. CASE i \notin InTable(m)
    BY <2>1, <1>5, <1>14
  <2>2. CASE i \in InTable(m)
    <3>1. PICK o \in Origins : m.table[o] = i /\ R[i] = f[o]
      BY <2>2, <1>4
    <3>2. i # NoRecord
      BY DEF Countable
    <3> QED
      BY <3>1, <3>2, <1>3, <1>14 DEF Resampled
  <2> QED
    BY <2>1, <2>2
<1>21. CountsItsHandlers(n)
  <2> SUFFICES ASSUME NEW i \in InUse(n)
               PROVE  /\ n.recs[i].pending = Cardinality(Holding(n, i, "pending"))
                      /\ n.recs[i].running = Cardinality(Holding(n, i, "running"))
                      /\ i \in InTable(n) <=> ~n.recs[i].dropped
    BY DEF CountsItsHandlers
  <2>1. i \in Records /\ i \in InUse(m)
    BY <1>2, <1>17, UseKind
  <2>2. /\ m.recs[i].pending = Cardinality(Holding(m, i, "pending"))
        /\ m.recs[i].running = Cardinality(Holding(m, i, "running"))
        /\ i \in InTable(m) <=> ~m.recs[i].dropped
    BY <2>1 DEF Sound, CountsItsHandlers
  <2>3. ASSUME i \in InTable(m), i \notin InTable(n) PROVE FALSE
    <3>1. PICK o \in Origins : m.table[o] = i /\ R[i] = f[o]
      BY <2>3, <1>4
    <3>2. i # NoRecord
      BY <2>1 DEF Countable
    <3>3. IsIdle(f[o])
      BY <3>1, <3>2, <2>3, <1>6, <1>14 DEF InTable
    <3>4. n.recs[i].pending = 0 /\ n.recs[i].running = 0
      BY <3>1, <3>3, <1>14 DEF IsIdle
    <3>5. Holding(n, i, "pending") = {} /\ Holding(n, i, "running") = {}
      BY <3>4, <2>1, <2>2, <1>15, <1>20, HoldingKind, FS_EmptySet
    <3>6. \E h \in PressureHandlers : /\ n.handler[h].rec = i
                                      /\ n.handler[h].state \in {"pending", "running"}
      BY <2>3, <1>14, <1>18, UseKind
    <3> QED
      BY <3>5, <3>6 DEF Holding
  <2> QED
    BY <2>1, <2>2, <2>3, <1>15, <1>16, <1>20
<1>22. SamplesWhatItHas(n)
  <2>1. n.timer <=> InTable(n) # {}
    BY <1>14, <1>16 DEF Sound, SamplesWhatItHas, b
  <2>2. ASSUME NEW o \in Origins, NEW l \in Levels
        PROVE  LET i == n.table[o]
                   engaged == i # NoRecord /\ n.recs[i].episode[l]
               IN n.open[o][l] = One(engaged) /\ (engaged => n.recs[i].latched[l])
    <3>1. n.open[o][l] = IF f[o].episode[l] THEN 1 ELSE 0
      BY <1>7, <1>14
    <3>2. CASE IsIdle(f[o])
      <4>1. n.table[o] = NoRecord
        BY <3>2, <1>6, <1>14
      <4>2. ~f[o].episode[l]
        BY <3>2, <1>3 DEF IsIdle, Hysteresis, Idle, Middle
      <4> QED
        BY <3>1, <4>1, <4>2 DEF One
    <3>3. CASE ~IsIdle(f[o])
      <4>1. n.table[o] = m.table[o] /\ m.table[o] # NoRecord
        BY <3>3, <1>3, <1>6, <1>14, RecordKind
      <4>2. n.table[o] \in InTable(m)
        BY <4>1 DEF InTable
      <4>3. PICK p \in Origins : m.table[p] = n.table[o] /\ R[n.table[o]] = f[p]
        BY <4>2, <1>4
      <4>4. p = o
        BY <4>1, <4>3, <1>2 DEF Owned
      <4>5. n.recs[n.table[o]] = f[o]
        BY <4>3, <4>4, <1>14
      <4>6. f[o].episode[l] => f[o].latched[l]
        BY <1>3 DEF Hysteresis
      <4> QED
        BY <3>1, <4>1, <4>5, <4>6 DEF One
    <3> QED
      BY <3>2, <3>3
  <2> QED
    BY <2>1, <2>2 DEF SamplesWhatItHas
<1>23. StateOf(n) = StateOf(m)
  BY <1>14 DEF StateOf
<1> QED
  BY <1>14, <1>18, <1>19, <1>21, <1>22, <1>23 DEF Sound

(* track() gives an origin a record if it has none, in a place that is     *)
(* free, and sees to it that the timer runs (pressure.js 311-343).         *)
LEMMA TrackSound ==
  ASSUME Countable, NEW m, Sound(m), NEW o \in Origins,
         m.table[o] # NoRecord \/ Records \ InUse(m) # {}
  PROVE  /\ Sound(Track(m, o)) /\ Track(m, o).table[o] \in Records
         /\ Track(m, o).handler = m.handler
<1> DEFINE n == Track(m, o)
           place == FreePlace(m)
           on == TRUE
<1>1. m \in Monitor /\ Held(m) /\ Owned(m)
  BY DEF Sound
<1>2. on \in BOOLEAN /\ on
  OBVIOUS
<1>3. CASE m.table[o] # NoRecord
  <2>1. n = [m EXCEPT !.timer = on]
    BY <1>3, Zenon DEF Track
  <2> HIDE DEF on
  <2>2. /\ n \in Monitor /\ n.table = m.table /\ n.recs = m.recs /\ n.handler = m.handler
        /\ n.open = m.open /\ n.timer = on
    <3>2. Has(n, m.table, m.recs, on, m.handler, m.open)
      BY <1>1, <1>2, <2>1, Retimed
    <3> QED
      BY <3>2 DEF Has
  <2>3. InTable(m) # {}
    BY <1>3 DEF InTable
  <2>4. n.timer = m.timer
    BY <1>1, <1>2, <2>2, <2>3 DEF Sound, SamplesWhatItHas, Monitor
  <2>5. m.table[o] \in Records
    BY <1>1, <1>3 DEF Monitor
  <2> HIDE DEF n
  <2>6. Sound(n)
    BY <2>2, <2>4, Reshaped
  <2> QED
    BY <2>2, <2>5, <2>6 DEF n
<1>4. CASE m.table[o] = NoRecord
  <2>1. place \in Records /\ place \notin InUse(m)
    BY <1>4 DEF FreePlace
  <2>2. place # NoRecord
    BY <2>1 DEF Countable
  <2> DEFINE T == [m.table EXCEPT ![o] = place]
             R == [m.recs EXCEPT ![place] = NewRecord]
             k == [m EXCEPT !.table = T, !.recs = R]
  <2>3. n = [k EXCEPT !.timer = on]
    BY <1>4, <1>1 DEF Track
  <2>4. /\ T \in [Origins -> Records \cup {NoRecord}] /\ T[o] = place
        /\ \A p \in Origins : p # o => T[p] = m.table[p]
    <3> HIDE DEF place
    <3> QED
      BY <1>1, <2>1 DEF Monitor
  <2>5. /\ R \in [Records -> Record] /\ R[place] = NewRecord
        /\ \A i \in Records : i # place => R[i] = m.recs[i]
    <3> HIDE DEF place
    <3> QED
      BY <1>1, <2>1, RecordKind DEF Monitor
  <2>6. /\ m.handler \in [PressureHandlers -> Handler] /\ m.timer \in BOOLEAN
        /\ m.open \in [Origins -> [Levels -> Int]]
    BY <1>1 DEF Monitor
  <2>7. Has(k, T, R, m.timer, m.handler, m.open)
    <3> HIDE DEF T, R
    <3> QED
      BY <1>1, <2>4, <2>5, <2>6, Remade
  <2> HIDE DEF T, R, k, n, on, place
  <2>8. Has(n, T, R, on, m.handler, m.open)
    <3>1. /\ k \in Monitor /\ k.table = T /\ k.recs = R /\ k.handler = m.handler
          /\ k.open = m.open
      BY <2>7 DEF Has
    <3>2. Has(n, k.table, k.recs, on, k.handler, k.open)
      BY <1>2, <2>3, <3>1, Retimed
    <3> QED
      BY <3>1, <3>2
  <2>9. /\ n \in Monitor /\ n.table = T /\ n.recs = R /\ n.timer = on
        /\ n.handler = m.handler /\ n.open = m.open
    BY <2>8 DEF Has
  <2>10. Live(n) = Live(m) /\ \A i, state : Holding(n, i, state) = Holding(m, i, state)
    BY <2>9 DEF Live, Holding
  <2>11. InTable(n) = InTable(m) \cup {place}
    BY <1>4, <2>2, <2>4, <2>9 DEF InTable
  <2>12. InUse(n) = InUse(m) \cup {place}
    BY <2>9, <2>10, <2>11 DEF InUse
  <2>13. \A p \in Origins : m.table[p] # place
    BY <2>1, <2>2 DEF InUse, InTable
  <2>14. Held(n) /\ Owned(n)
    BY <1>1, <2>4, <2>9, <2>10, <2>13 DEF Held, Owned
  <2>15. \A i \in Records : Hysteresis(n.recs[i])
    BY <2>5, <2>9, RecordKind DEF Sound
  <2>16. CountsItsHandlers(n)
    <3> SUFFICES ASSUME NEW i \in InUse(n)
                 PROVE  /\ n.recs[i].pending = Cardinality(Holding(n, i, "pending"))
                        /\ n.recs[i].running = Cardinality(Holding(n, i, "running"))
                        /\ i \in InTable(n) <=> ~n.recs[i].dropped
      BY DEF CountsItsHandlers
    <3>1. CASE i = place
      <4>1. Holding(m, i, "pending") = {} /\ Holding(m, i, "running") = {}
        BY <2>1, <3>1 DEF Holding, InUse, Live
      <4>2. n.recs[i] = NewRecord /\ i \in InTable(n)
        BY <2>5, <2>9, <2>11, <3>1
      <4>3. Cardinality({}) = 0
        BY FS_EmptySet
      <4> QED
        BY <2>10, <4>1, <4>2, <4>3 DEF NewRecord
    <3>2. CASE i # place
      <4>1. i \in InUse(m) /\ i \in Records
        BY <2>12, <3>2, <1>1, UseKind
      <4>2. /\ m.recs[i].pending = Cardinality(Holding(m, i, "pending"))
            /\ m.recs[i].running = Cardinality(Holding(m, i, "running"))
            /\ i \in InTable(m) <=> ~m.recs[i].dropped
        BY <4>1 DEF Sound, CountsItsHandlers
      <4>3. n.recs[i] = m.recs[i]
        BY <2>5, <2>9, <3>2, <4>1
      <4> QED
        BY <2>10, <2>11, <3>2, <4>2, <4>3
    <3> QED
      BY <3>1, <3>2
  <2>17. SamplesWhatItHas(n)
    <3>1. n.timer <=> InTable(n) # {}
      BY <1>2, <2>9, <2>11
    <3>2. ASSUME NEW p \in Origins, NEW l \in Levels
          PROVE  LET i == n.table[p]
                     engaged == i # NoRecord /\ n.recs[i].episode[l]
                 IN n.open[p][l] = One(engaged) /\ (engaged => n.recs[i].latched[l])
      <4>1. LET i == m.table[p]
                engaged == i # NoRecord /\ m.recs[i].episode[l]
            IN m.open[p][l] = One(engaged) /\ (engaged => m.recs[i].latched[l])
        BY DEF Sound, SamplesWhatItHas
      <4>2. CASE p = o
        <5>1. n.recs[n.table[p]] = NewRecord
          BY <4>2, <2>4, <2>5, <2>9
        <5>2. n.open[p][l] = 0
          BY <4>1, <4>2, <1>4, <2>9 DEF One
        <5> QED
          BY <5>1, <5>2 DEF One, NewRecord
      <4>3. CASE p # o
        <5>1. n.table[p] = m.table[p] /\ n.open = m.open
          BY <4>3, <2>4, <2>9
        <5>2. m.table[p] # NoRecord => n.recs[m.table[p]] = m.recs[m.table[p]]
          BY <2>5, <2>9, <2>13, <1>1 DEF Monitor
        <5> QED
          BY <4>1, <5>1, <5>2 DEF One
      <4> QED
        BY <4>2, <4>3
    <3> QED
      BY <3>1, <3>2 DEF SamplesWhatItHas
  <2>18. Sound(n)
    BY <2>9, <2>14, <2>15, <2>16, <2>17 DEF Sound
  <2> QED
    BY <2>1, <2>4, <2>9, <2>18 DEF n
<1> QED
  BY <1>3, <1>4

(* The attempt of a handler that is not under way enters its origin's      *)
(* record (pressure.js 311-343, 406-432).                                  *)
THEOREM EnterSound ==
  ASSUME Countable, NEW m, Sound(m), NEW h \in PressureHandlers \ Live(m), NEW o \in Origins,
         m.table[o] # NoRecord \/ Records \ InUse(m) # {}
  PROVE  /\ Sound(Enter(m, h, o))
         /\ StateOf(Enter(m, h, o)) = [StateOf(m) EXCEPT ![h] = "pending"]
<1> DEFINE k == Track(m, o)
           i == k.table[o]
           a == k.recs[i]
           p == a.pending + 1
           rec == [a EXCEPT !.pending = p]
           y == [NewHandler EXCEPT !.state = "pending", !.rec = i]
           n == Enter(m, h, o)
           R == [k.recs EXCEPT ![i] = rec]
           X == [k.handler EXCEPT ![h] = y]
<1>1. Sound(k) /\ k \in Monitor /\ Held(k) /\ Owned(k) /\ i \in Records /\ k.handler = m.handler
  BY TrackSound DEF Sound
<1> HIDE DEF k
<1>2. a \in Record /\ i # NoRecord /\ i \in InTable(k) /\ i \in InUse(k)
  BY <1>1 DEF Monitor, Countable, InTable, InUse
<1>3. a.pending \in Nat /\ p \in Nat
  BY <1>2 DEF Record
<1>4. n = [k EXCEPT !.recs = R, !.handler = X]
  BY <1>1 DEF Enter, Monitor, k
<1>5. y \in Handler /\ y.state = "pending" /\ y.rec = i
  BY <1>1 DEF Handler, NewHandler
<1> HIDE DEF i, y, p, n, a
<1>6. /\ rec \in Record /\ rec.pending = p /\ rec.running = a.running
      /\ rec.signal = a.signal /\ rec.latched = a.latched
      /\ rec.episode = a.episode /\ rec.dropped = a.dropped
  BY <1>2, <1>3 DEF Record
<1> HIDE DEF rec
<1>7. /\ R \in [Records -> Record] /\ R[i] = rec
      /\ \A j \in Records : j # i => R[j] = k.recs[j]
  BY <1>1, <1>6 DEF Monitor
<1>8. /\ X \in [PressureHandlers -> Handler] /\ X[h] = y
      /\ \A g \in PressureHandlers : g # h => X[g] = m.handler[g]
  BY <1>1, <1>5 DEF Monitor
<1> HIDE DEF R, X
<1>9. /\ n \in Monitor /\ n.table = k.table /\ n.recs = R /\ n.timer = k.timer
      /\ n.handler = X /\ n.open = k.open
  <2>1. /\ k.table \in [Origins -> Records \cup {NoRecord}] /\ k.timer \in BOOLEAN
        /\ k.open \in [Origins -> [Levels -> Int]]
    BY <1>1 DEF Monitor
  <2>2. Has(n, k.table, R, k.timer, X, k.open)
    BY <1>1, <1>4, <1>7, <1>8, <2>1, Remade
  <2> QED
    BY <2>2 DEF Has
<1>10. \A g \in PressureHandlers : g # h => n.handler[g] = k.handler[g]
  BY <1>1, <1>8, <1>9
<1>11. n.handler[h] = y /\ k.handler[h].state \notin {"pending", "running"}
  BY <1>1, <1>8, <1>9 DEF Live
<1>12. InTable(n) = InTable(k)
  BY <1>9 DEF InTable
<1>21. \A g \in Live(n) : \/ g = h /\ n.handler[g].rec = i
                          \/ g \in Live(k) /\ n.handler[g].rec = k.handler[g].rec
  BY <1>5, <1>10, <1>11 DEF Live
<1>13. InUse(n) \subseteq InUse(k)
  <2>1. \A g \in Live(n) : n.handler[g].rec \in InUse(k)
    BY <1>2, <1>21 DEF InUse
  <2> QED
    BY <2>1, <1>12 DEF InUse
<1>14. Held(n) /\ Owned(n)
  BY <1>1, <1>9, <1>21 DEF Held, Owned
<1>15. \A j \in Records :
         /\ n.recs[j].signal = k.recs[j].signal /\ n.recs[j].latched = k.recs[j].latched
         /\ n.recs[j].episode = k.recs[j].episode /\ n.recs[j].dropped = k.recs[j].dropped
         /\ n.recs[j].running = k.recs[j].running
         /\ n.recs[j].pending = k.recs[j].pending + (IF j = i THEN 1 ELSE 0)
  <2> SUFFICES ASSUME NEW j \in Records
               PROVE  /\ n.recs[j].signal = k.recs[j].signal
                      /\ n.recs[j].latched = k.recs[j].latched
                      /\ n.recs[j].episode = k.recs[j].episode
                      /\ n.recs[j].dropped = k.recs[j].dropped
                      /\ n.recs[j].running = k.recs[j].running
                      /\ n.recs[j].pending = k.recs[j].pending + (IF j = i THEN 1 ELSE 0)
    OBVIOUS
  <2>1. k.recs[j].pending \in Nat
    BY <1>1 DEF Monitor, Record
  <2>2. CASE j = i
    BY <2>2, <1>6, <1>7, <1>9 DEF a, p
  <2>3. CASE j # i
    BY <2>1, <2>3, <1>7, <1>9
  <2> QED
    BY <2>2, <2>3
<1>16. \A j \in Records : Hysteresis(n.recs[j])
  BY <1>1, <1>15 DEF Sound, Hysteresis
<1>22. Alone(k, n, h)
  BY <1>10 DEF Alone
<1>17. \A j \in Records :
         /\ Cardinality(Holding(n, j, "pending")) =
              Cardinality(Holding(k, j, "pending")) + (IF j = i THEN 1 ELSE 0)
         /\ Cardinality(Holding(n, j, "running")) = Cardinality(Holding(k, j, "running"))
  <2> SUFFICES ASSUME NEW j \in Records
               PROVE  /\ Cardinality(Holding(n, j, "pending")) =
                           Cardinality(Holding(k, j, "pending")) + (IF j = i THEN 1 ELSE 0)
                      /\ Cardinality(Holding(n, j, "running")) =
                           Cardinality(Holding(k, j, "running"))
    OBVIOUS
  <2>1. Cardinality(Holding(n, j, "pending")) =
          Cardinality(Holding(k, j, "pending"))
            + HeldBy(n, h, j, "pending") - HeldBy(k, h, j, "pending")
    BY <1>22, HoldingMoves
  <2>2. Cardinality(Holding(n, j, "running")) =
          Cardinality(Holding(k, j, "running"))
            + HeldBy(n, h, j, "running") - HeldBy(k, h, j, "running")
    BY <1>22, HoldingMoves
  <2>3. /\ Cardinality(Holding(k, j, "pending")) \in Nat
        /\ Cardinality(Holding(k, j, "running")) \in Nat
    BY HoldingKind
  <2>4. /\ (n.handler[h].rec = j /\ n.handler[h].state = "pending") <=> j = i
        /\ n.handler[h].state # "running"
    BY <1>5, <1>11
  <2> QED
    BY <2>1, <2>2, <2>3, <2>4, <1>11 DEF HeldBy
<1>18. CountsItsHandlers(n)
  <2> SUFFICES ASSUME NEW j \in InUse(n)
               PROVE  /\ n.recs[j].pending = Cardinality(Holding(n, j, "pending"))
                      /\ n.recs[j].running = Cardinality(Holding(n, j, "running"))
                      /\ j \in InTable(n) <=> ~n.recs[j].dropped
    BY DEF CountsItsHandlers
  <2>1. j \in Records /\ j \in InUse(k)
    BY <1>1, <1>13, UseKind
  <2>2. /\ k.recs[j].pending = Cardinality(Holding(k, j, "pending"))
        /\ k.recs[j].running = Cardinality(Holding(k, j, "running"))
        /\ j \in InTable(k) <=> ~k.recs[j].dropped
    BY <1>1, <2>1 DEF Sound, CountsItsHandlers
  <2> QED
    BY <2>1, <2>2, <1>12, <1>15, <1>17
<1>19. SamplesWhatItHas(n)
  <2>1. n.timer <=> InTable(n) # {}
    BY <1>1, <1>9, <1>12 DEF Sound, SamplesWhatItHas
  <2>2. ASSUME NEW q \in Origins, NEW l \in Levels
        PROVE  LET j == n.table[q]
                   engaged == j # NoRecord /\ n.recs[j].episode[l]
               IN n.open[q][l] = One(engaged) /\ (engaged => n.recs[j].latched[l])
    <3>1. LET j == k.table[q]
              engaged == j # NoRecord /\ k.recs[j].episode[l]
          IN k.open[q][l] = One(engaged) /\ (engaged => k.recs[j].latched[l])
      BY <1>1 DEF Sound, SamplesWhatItHas
    <3>2. k.table[q] # NoRecord => k.table[q] \in Records
      BY <1>1 DEF Monitor
    <3> QED
      BY <3>1, <3>2, <1>9, <1>15 DEF One
  <2> QED
    BY <2>1, <2>2 DEF SamplesWhatItHas
<1>20. StateOf(n) = [StateOf(m) EXCEPT ![h] = "pending"]
  BY <1>1, <1>5, <1>10, <1>11 DEF StateOf
<1> QED
  BY <1>9, <1>14, <1>16, <1>18, <1>19, <1>20 DEF Sound, n

(* While each handler under way belongs to somebody of its own, and there  *)
(* is a place for each of those and for each origin, an origin that has no *)
(* record finds a free one.                                                *)
LEMMA PlaceIsFree ==
  ASSUME Countable, NEW m, Sound(m), NEW o \in Origins, m.table[o] = NoRecord,
         IsFiniteSet(Origins), IsFiniteSet(Records), NEW D, IsFiniteSet(D),
         NEW d \in Injection(Live(m), D),
         Cardinality(Origins) + Cardinality(D) <= Cardinality(Records)
  PROVE  Records \ InUse(m) # {}
<1> DEFINE S == {p \in Origins : m.table[p] # NoRecord}
           f == [p \in S |-> m.table[p]]
           L == {m.handler[h].rec : h \in Live(m)}
           g == [h \in Live(m) |-> m.handler[h].rec]
<1>1. /\ IsFiniteSet(Origins \ {o}) /\ Cardinality(Origins \ {o}) = Cardinality(Origins) - 1
      /\ Cardinality(Origins) \in Nat
  BY FS_RemoveElement, FS_CardinalityType
<1>2. IsFiniteSet(S) /\ Cardinality(S) <= Cardinality(Origins) - 1
  <2>1. S \in SUBSET (Origins \ {o})
    OBVIOUS
  <2> QED
    BY <1>1, <2>1, FS_Subset
<1>3. f \in Surjection(S, InTable(m))
  BY DEF InTable, Surjection
<1>4. /\ IsFiniteSet(InTable(m)) /\ Cardinality(InTable(m)) <= Cardinality(S)
      /\ Cardinality(InTable(m)) \in Nat /\ Cardinality(S) \in Nat
  <2> HIDE DEF f, S
  <2> QED
    BY <1>2, <1>3, FS_Surjection, FS_CardinalityType
<1>5. IsFiniteSet(Live(m)) /\ Cardinality(Live(m)) <= Cardinality(D)
  BY FS_Injection
<1>6. g \in Surjection(Live(m), L)
  BY DEF Surjection
<1>7. /\ IsFiniteSet(L) /\ Cardinality(L) <= Cardinality(Live(m))
      /\ Cardinality(L) \in Nat /\ Cardinality(Live(m)) \in Nat /\ Cardinality(D) \in Nat
  <2> HIDE DEF g, L
  <2> QED
    BY <1>5, <1>6, FS_Surjection, FS_CardinalityType
<1>8. InUse(m) = InTable(m) \cup L
  BY DEF InUse
<1>9. /\ IsFiniteSet(InUse(m))
      /\ Cardinality(InUse(m)) = Cardinality(InTable(m)) + Cardinality(L)
                                   - Cardinality(InTable(m) \cap L)
      /\ Cardinality(InTable(m) \cap L) \in Nat
  <2> HIDE DEF L
  <2>1. IsFiniteSet(InTable(m) \cap L)
    BY <1>4, FS_Intersection
  <2> QED
    BY <1>4, <1>7, <1>8, <2>1, FS_Union, FS_CardinalityType
<1> HIDE DEF S, L
<1>10. Cardinality(InUse(m)) < Cardinality(Records) /\ Cardinality(InUse(m)) \in Nat
  <2>1. Cardinality(Records) \in Nat
    BY FS_CardinalityType
  <2>2. Cardinality(InUse(m)) \in Nat
    BY <1>9, FS_CardinalityType
  <2>3. Cardinality(InTable(m)) <= Cardinality(Origins) - 1
    BY <1>1, <1>2, <1>4
  <2>4. Cardinality(L) <= Cardinality(D)
    BY <1>5, <1>7
  <2>5. \A t, l, x, u, c, e, n \in Nat :
          t <= c - 1 /\ l <= e /\ u = t + l - x /\ c + e <= n => u < n
    OBVIOUS
  <2> QED
    BY <1>1, <1>4, <1>7, <1>9, <2>1, <2>2, <2>3, <2>4, <2>5
<1>11. ASSUME Records \subseteq InUse(m) PROVE FALSE
  <2>1. Cardinality(Records) <= Cardinality(InUse(m))
    BY <1>9, <1>11, FS_Subset
  <2>2. Cardinality(Records) \in Nat
    BY FS_CardinalityType
  <2> QED
    BY <1>10, <2>1, <2>2
<1> QED
  BY <1>11
=============================================================================
