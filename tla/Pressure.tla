------------------------------ MODULE Pressure ------------------------------
(***************************************************************************)
(* The pressure interceptor of lib/interceptor/pressure.js: one record for *)
(* each origin, whose gauges the handlers of its requests move, and a      *)
(* timer that samples the records, latches what it finds and forgets the   *)
(* origins that are idle.                                                  *)
(*                                                                         *)
(* A handler holds its record, not its origin, so a record lives on in its *)
(* handlers when the table has lost it.  A smoothed signal is known by     *)
(* where it lies: below EPS (Idle), below the release threshold (Low),     *)
(* between the thresholds (Middle), or above the one that engages (High);  *)
(* a sample moves it some way towards what it has seen.  This takes EPS to *)
(* be below every release threshold, as it is for the defaults.            *)
(***************************************************************************)
EXTENDS Integers, FiniteSets

CONSTANTS
  Origins,
  PressureHandlers,   \* one for each attempt to reach an origin
  Records,            \* places for records: one for each origin and
                      \* handler that may be live
  NoRecord

Levels == {"some", "full", "error"}
Idle == 0
Low == 1
Middle == 2
High == 3

NewRecord ==
  [pending |-> 0, running |-> 0,
   completed |-> 0,                           \* since the last sample
   errored |-> 0,                             \* since the last sample
   signal  |-> [l \in Levels |-> Idle],
   latched |-> [l \in Levels |-> FALSE],      \* shed, paused, degraded
   episode |-> [l \in Levels |-> FALSE],      \* a writer was captured
   dropped |-> FALSE]                         \* history: close() has let go of it

NewHandler == [state |-> "none", rec |-> NoRecord, status |-> "none", client |-> FALSE]

NewMonitor ==
  [table   |-> [o \in Origins |-> NoRecord],
   recs    |-> [i \in Records |-> NewRecord],
   timer   |-> FALSE,
   handler |-> [h \in PressureHandlers |-> NewHandler],
   open    |-> [o \in Origins |-> [l \in Levels |-> 0]]]   \* start less end documents

InTable(m) == {m.table[o] : o \in Origins} \ {NoRecord}
Live(m) == {h \in PressureHandlers : m.handler[h].state \in {"pending", "running"}}
InUse(m) == InTable(m) \cup {m.handler[h].rec : h \in Live(m)}

(* A record that nothing can reach is a free place, and what a handler     *)
(* that is done knows of its attempt is not read again.                    *)
Collect(m) ==
  LET used == InUse(m)
  IN [m EXCEPT
        !.recs = [i \in Records |-> IF i \in used THEN m.recs[i] ELSE NewRecord],
        !.handler = [h \in PressureHandlers |->
           IF m.handler[h].state = "done"
           THEN [m.handler[h] EXCEPT !.status = "none", !.client = FALSE] ELSE m.handler[h]]]

FreePlace(m) == CHOOSE i \in Records : i \notin InUse(m)

(* track().                                                                *)
Track(m, o) ==
  LET place == FreePlace(m)
      n == IF m.table[o] # NoRecord THEN m
           ELSE [m EXCEPT !.table[o] = place, !.recs[place] = NewRecord]
  IN [n EXCEPT !.timer = TRUE]

(* The interceptor: the record of the origin and the handler that holds it.*)
Enter(m, h, o) ==
  LET n == Track(m, o)
      i == n.table[o]
      rec == n.recs[i]
  IN [n EXCEPT !.recs[i] = [rec EXCEPT !.pending = @ + 1],
               !.handler[h] = [NewHandler EXCEPT !.state = "pending", !.rec = i]]

(* Handler.onConnect.                                                      *)
Connected_EachTime(m, h) ==
  [m EXCEPT !.handler[h] = [@ EXCEPT !.state = "running", !.status = "none", !.client = FALSE],
            !.recs[m.handler[h].rec].pending = @ - 1,
            !.recs[m.handler[h].rec].running = @ + 1]

Connected(m, h) ==
  LET fresh == [m.handler[h] EXCEPT !.status = "none", !.client = FALSE]
      i == m.handler[h].rec
      rec == m.recs[i]
  IN IF m.handler[h].state # "pending" THEN [m EXCEPT !.handler[h] = fresh]
     ELSE [m EXCEPT !.handler[h] = [fresh EXCEPT !.state = "running"],
                    !.recs[i] = [rec EXCEPT !.pending = @ - 1, !.running = @ + 1]]

(* Handler.onHeaders, and the abort that it hands to the handler above.    *)
Headers(m, h, status) == [m EXCEPT !.handler[h].status = status]
ClientAborts(m, h) == [m EXCEPT !.handler[h].client = TRUE]

(* #settle.                                                                *)
Ungauged(rec, state) ==
  IF state = "pending" THEN [rec EXCEPT !.pending = @ - 1] ELSE [rec EXCEPT !.running = @ - 1]

Settled(m, h, isError) ==
  LET i == m.handler[h].rec
      rec == Ungauged(m.recs[i], m.handler[h].state)
  IN [m EXCEPT !.handler[h].state = "done",
               !.recs[i] = [rec EXCEPT !.completed = @ + 1,
                                       !.errored = @ + (IF isError THEN 1 ELSE 0)]]

Settle_Always(m, h, isError) == Settled(m, h, isError)

Settle(m, h, isError) ==
  IF m.handler[h].state \notin {"pending", "running"} THEN m ELSE Settled(m, h, isError)

(* onComplete and onError: what counts against the origin.                 *)
Completed(m, h) == Settle(m, h, m.handler[h].status = "overload")
Failed(m, h, ofAbort) == Settle(m, h, ~(m.handler[h].client \/ ofAbort))

-----------------------------------------------------------------------------
(* Sampling.                                                               *)

Toward(up, x) == IF up THEN x..High ELSE Idle..x

(* Where the signals may lie after one sample, of the levels looked at:    *)
(* the others are taken to be Idle for ever.                               *)
Signals(rec, levels) ==
  LET stalled == rec.pending > 0
      errors == CASE rec.errored = 0             -> Toward(FALSE, rec.signal["error"])
                  [] rec.errored = rec.completed -> Toward(TRUE, rec.signal["error"])
                  [] OTHER                       -> Idle..High
      span == [some  |-> Toward(stalled, rec.signal["some"]),
               full  |-> Toward(stalled /\ rec.completed = 0, rec.signal["full"]),
               error |-> errors]
  IN {[l \in Levels |-> IF l \in levels THEN s[l] ELSE Idle] :
        s \in {s \in [levels -> Idle..High] : \A l \in levels : s[l] \in span[l]}}

Latch(was, x) == (was /\ x >= Middle) \/ x = High

(* One #sample with the signals at s, a trace writer installed or not: a   *)
(* latch that engages opens an episode if there is a writer, and one that  *)
(* releases closes the episode it has open, whatever the writer is now.    *)
Sampled(rec, s, writer) ==
  LET latched == [l \in Levels |-> Latch(rec.latched[l], s[l])]
  IN [rec EXCEPT !.completed = 0, !.errored = 0, !.signal = s, !.latched = latched,
                 !.episode = [l \in Levels |->
                                latched[l] /\ (rec.episode[l] \/ (~rec.latched[l] /\ writer))]]

IsIdle(rec) ==
  rec.pending = 0 /\ rec.running = 0 /\ \A l \in Levels : rec.signal[l] = Idle

One(b) == IF b THEN 1 ELSE 0

NoEpisode == [l \in Levels |-> FALSE]
Episode(m, o) == IF m.table[o] = NoRecord THEN NoEpisode ELSE m.recs[m.table[o]].episode

(* What one tick may make of the record of o: one that was sampled in this *)
(* very instant is not sampled again.                                      *)
Samples(m, o, writer, levels) ==
  IF m.table[o] = NoRecord THEN {NewRecord}
  ELSE LET rec == m.recs[m.table[o]]
       IN {rec} \cup {Sampled(rec, s, writer) : s \in Signals(rec, levels)}

(* Each origin's record becomes that of f, with a document for each        *)
(* episode it opens or closes, and the table forgets those that are idle.  *)
Ticked(m, f) ==
  [m EXCEPT
     !.recs = [i \in Records |->
        IF i \in InTable(m) THEN f[CHOOSE o \in Origins : m.table[o] = i]
        ELSE m.recs[i]],
     !.open = [o \in Origins |-> [l \in Levels |->
        m.open[o][l] + One(f[o].episode[l]) - One(Episode(m, o)[l])]],
     !.table = [o \in Origins |-> IF IsIdle(f[o]) THEN NoRecord ELSE m.table[o]]]

StopTimer(m) == [m EXCEPT !.timer = @ /\ InTable(m) # {}]

(* #tick.                                                                  *)
Ticks(m, writer, levels) ==
  LET all == UNION {Samples(m, o, writer, levels) : o \in Origins}
  IN {StopTimer(Ticked(m, f)) :
        f \in {f \in [Origins -> all] :
                 \A o \in Origins : f[o] \in Samples(m, o, writer, levels)}}

(* close(): the episodes end, the records are let go of and the timer      *)
(* stops.                                                                  *)
Close_Silently(m) ==
  [m EXCEPT !.timer = FALSE, !.table = [o \in Origins |-> NoRecord],
            !.recs = [i \in Records |->
               IF i \in InTable(m) THEN [@[i] EXCEPT !.dropped = TRUE] ELSE @[i]]]

Close(m) ==
  [m EXCEPT !.timer = FALSE, !.table = [o \in Origins |-> NoRecord],
            !.open = [o \in Origins |-> [l \in Levels |-> m.open[o][l] - One(Episode(m, o)[l])]],
            !.recs = [i \in Records |->
               IF i \in InTable(m)
               THEN [m.recs[i] EXCEPT !.episode = NoEpisode, !.dropped = TRUE] ELSE m.recs[i]]]

-----------------------------------------------------------------------------
Record ==
  [pending : Nat, running : Nat, completed : Nat, errored : Nat,
   signal : [Levels -> Idle..High], latched : [Levels -> BOOLEAN],
   episode : [Levels -> BOOLEAN], dropped : BOOLEAN]

Handler ==
  [state : {"none", "pending", "running", "done"}, rec : Records \cup {NoRecord},
   status : {"none", "final", "redirect", "overload"}, client : BOOLEAN]

Monitor ==
  [table : [Origins -> Records \cup {NoRecord}], recs : [Records -> Record],
   timer : BOOLEAN, handler : [PressureHandlers -> Handler],
   open : [Origins -> [Levels -> Int]]]

Holding(m, i, state) ==
  {h \in PressureHandlers : m.handler[h].rec = i /\ m.handler[h].state = state}

(* A record counts the handlers that hold it, and the table has every      *)
(* record in use that close() has not let go of.                           *)
CountsItsHandlers(m) ==
  \A i \in InUse(m) :
    /\ m.recs[i].pending = Cardinality(Holding(m, i, "pending"))
    /\ m.recs[i].running = Cardinality(Holding(m, i, "running"))
    /\ i \in InTable(m) <=> ~m.recs[i].dropped

(* The timer runs as long as there is something to sample, and the start   *)
(* documents without an end are those of the latches engaged in the table. *)
SamplesWhatItHas(m) ==
  /\ m.timer <=> InTable(m) # {}
  /\ \A o \in Origins : \A l \in Levels :
       LET i == m.table[o]
           engaged == i # NoRecord /\ m.recs[i].episode[l]
       IN m.open[o][l] = One(engaged) /\ (engaged => m.recs[i].latched[l])

=============================================================================
