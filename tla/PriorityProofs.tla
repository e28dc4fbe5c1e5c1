--------------------------- MODULE PriorityProofs ---------------------------
(***************************************************************************)
(* The safety of Priority, for any number of requests and origins.         *)
(*                                                                         *)
(* The argument: a slot is held exactly while the dispatcher has a request *)
(* and has not answered (Slots), by one request of the scheduler; whoever  *)
(* holds a slot or queues sits in the scheduler its origin has in the      *)
(* table (Listed), which belongs to that origin (Names); a queue and a     *)
(* drained scheduler both have somebody to see to them (Watchers).         *)
(***************************************************************************)
EXTENDS Priority, TLAPS

(* A slot is taken by the one request the dispatcher has yet to answer.    *)
Slots ==
  /\ \A r \in Requests : slot[r] <=> inner[r] = "dispatched"
  /\ \A r \in Requests : slot[r] => sched[r] # None /\ running[sched[r]] = 1
  /\ \A a, b \in Requests : slot[a] /\ slot[b] /\ sched[a] = sched[b] => a = b
  /\ \A s \in Schedulers : running[s] = 1 => \E r \in Requests : slot[r] /\ sched[r] = s

(* A queued request has its scheduler and was not admitted; who was not    *)
(* admitted has not been dispatched, and who was not submitted not admitted*)
Queues ==
  /\ \A s \in Schedulers : \A q \in pending[s] : sched[q] = s /\ ~admitted[q]
  /\ \A s \in Schedulers : pending[s] # {} => running[s] = 1
  /\ \A r \in Requests : inner[r] # "idle" => admitted[r]
  /\ \A r \in Requests : admitted[r] \/ cancelled[r] => sched[r] # None
  /\ \A r \in checks : sched[r] # None
  /\ \A r \in Requests : cancelled[r] => inner[r] = "idle"

(* A scheduler bears the name of a request of its origin.                  *)
Names ==
  /\ \A r \in Requests : sched[r] # None =>
       sched[sched[r]] = sched[r] /\ OriginOf[sched[r]] = OriginOf[r]
  /\ \A o \in Origins : table[o] # None =>
       sched[table[o]] = table[o] /\ OriginOf[table[o]] = o

(* The scheduler of a request that queues or holds a slot is in the table. *)
Listed ==
  /\ \A r \in Requests : slot[r] => table[OriginOf[r]] = sched[r]
  /\ \A s \in Schedulers : \A q \in pending[s] : table[OriginOf[q]] = s

(* A drained scheduler in the table has a check outstanding.               *)
Watchers ==
  \A o \in Origins : table[o] # None /\ running[table[o]] = 0 =>
    \E r \in checks : sched[r] = table[o]

(* The flag of DecoratorHandler is up exactly after the terminal event,    *)
(* and only for a request that was cancelled or is over.                   *)
Terminals ==
  \A r \in Requests :
    /\ ended[r] = IF closed[r] THEN 1 ELSE 0
    /\ closed[r] => inner[r] = "over" \/ cancelled[r]

Inv == TypeOK /\ Slots /\ Queues /\ Names /\ Listed /\ Watchers /\ Terminals

-----------------------------------------------------------------------------

(* Nothing is submitted, queued or listed at first.                        *)
LEMMA InitInv == Init => Inv
  <1> SUFFICES ASSUME Init PROVE Inv
    OBVIOUS
  <1> USE PriorityAssumption DEF Init, Schedulers, Concurrency
  <1>1. TypeOK
    BY DEF TypeOK
  <1>2. Slots /\ Queues /\ Names /\ Listed /\ Watchers
    BY DEF Slots, Queues, Names, Listed, Watchers
  <1>3. Terminals
    BY DEF Terminals
  <1> QED
    BY <1>1, <1>2, <1>3 DEF Inv

(* What a release by a holder comes to: either the slot passes to one live *)
(* queued request, or the queue is empty and the slot is free.             *)
LEMMA ReleaseCases ==
  ASSUME NEW r \in Requests, NEW then, ReleaseSlot(r, then)
  PROVE  \E T \in SUBSET {q \in pending[sched[r]] : cancelled[q]} :
           /\ checks' = checks \cup T \cup {r}
           /\ \/ \E n \in pending[sched[r]] :
                   /\ ~cancelled[n]
                   /\ pending' = [pending EXCEPT ![sched[r]] = @ \ (T \cup {n})]
                   /\ admitted' = [q \in Requests |-> admitted[q] \/ q \in T \cup {n}]
                   /\ slot' = [slot EXCEPT ![r] = FALSE, ![n] = TRUE]
                   /\ inner' = [inner EXCEPT ![r] = then, ![n] = "dispatched"]
                   /\ running' = running
              \/ /\ pending' = [pending EXCEPT ![sched[r]] = {}]
                 /\ admitted' = [q \in Requests |-> admitted[q] \/ q \in T]
                 /\ slot' = [slot EXCEPT ![r] = FALSE]
                 /\ inner' = [inner EXCEPT ![r] = then]
                 /\ running' = [running EXCEPT ![sched[r]] = @ - 1]
  BY DEF ReleaseSlot, Tombstones

(* A callback that leaves the dispatcher, with or without a slot to free,  *)
(* keeps everything but what concerns the terminal events.                 *)
LEMMA ReleaseInv ==
  ASSUME Inv, NEW r \in Requests, NEW then \in {"connected", "over"},
         inner[r] # "idle", Release(r, then),
         UNCHANGED <<table, sched, cancelled>>
  PROVE  /\ (Slots /\ Queues /\ Names /\ Listed /\ Watchers)'
         /\ running' \in [Schedulers -> 0..Concurrency]
         /\ pending' \in [Schedulers -> SUBSET Requests]
         /\ admitted' \in [Requests -> BOOLEAN]
         /\ slot' \in [Requests -> BOOLEAN]
         /\ checks' \in SUBSET Requests
         /\ inner' \in [Requests -> {"idle", "dispatched", "connected", "over"}]
         /\ inner'[r] = then
         /\ \A q \in Requests \ {r} :
              inner'[q] = inner[q] \/ (inner'[q] = "dispatched" /\ inner[q] = "idle" /\ ~cancelled[q])
  <1> USE PriorityAssumption DEF Schedulers, Concurrency
  <1>1. CASE ~slot[r]
    <2>1. /\ inner' = [inner EXCEPT ![r] = then]
          /\ UNCHANGED <<checks, pending, admitted, slot, running, table, sched, cancelled>>
      BY <1>1 DEF Release, HoldsSlot
    <2>2. inner[r] # "dispatched"
      BY <1>1 DEF Inv, Slots
    <2>3. ~cancelled[r] /\ admitted[r]
      BY DEF Inv, Queues
    <2> QED
      BY <2>1, <2>2, <2>3 DEF Inv, TypeOK, Slots, Queues, Names, Listed, Watchers
  <1>2. CASE slot[r]
    <2> DEFINE s == sched[r]
    <2>1. s \in Requests /\ running[s] = 1 /\ sched[s] = s /\ table[OriginOf[r]] = s
      BY <1>2 DEF Inv, TypeOK, Slots, Names, Listed
    <2>2. \A q \in Requests : slot[q] /\ sched[q] = s => q = r
      BY <1>2 DEF Inv, Slots
    <2>3. \A q \in pending[s] :
            q \in Requests /\ q # r /\ sched[q] = s /\ ~admitted[q] /\ inner[q] = "idle" /\ ~slot[q]
      BY <1>2, <2>1 DEF Inv, TypeOK, Slots, Queues
    <2>4. ReleaseSlot(r, then)
      BY <1>2 DEF Release, HoldsSlot
    <2>5. PICK T \in SUBSET {q \in pending[s] : cancelled[q]} :
           /\ checks' = checks \cup T \cup {r}
           /\ \/ \E n \in pending[s] :
                   /\ ~cancelled[n]
                   /\ pending' = [pending EXCEPT ![s] = @ \ (T \cup {n})]
                   /\ admitted' = [q \in Requests |-> admitted[q] \/ q \in T \cup {n}]
                   /\ slot' = [slot EXCEPT ![r] = FALSE, ![n] = TRUE]
                   /\ inner' = [inner EXCEPT ![r] = then, ![n] = "dispatched"]
                   /\ running' = running
              \/ /\ pending' = [pending EXCEPT ![s] = {}]
                 /\ admitted' = [q \in Requests |-> admitted[q] \/ q \in T]
                 /\ slot' = [slot EXCEPT ![r] = FALSE]
                 /\ inner' = [inner EXCEPT ![r] = then]
                 /\ running' = [running EXCEPT ![s] = @ - 1]
      BY <2>4, ReleaseCases
    <2>6. /\ T \subseteq Requests
          /\ \A q \in T : sched[q] = s /\ inner[q] = "idle" /\ ~slot[q] /\ q # r
      BY <2>3
    <2> HIDE DEF s
    <2>7. CASE \E n \in pending[s] :
                   /\ ~cancelled[n]
                   /\ pending' = [pending EXCEPT ![s] = @ \ (T \cup {n})]
                   /\ admitted' = [q \in Requests |-> admitted[q] \/ q \in T \cup {n}]
                   /\ slot' = [slot EXCEPT ![r] = FALSE, ![n] = TRUE]
                   /\ inner' = [inner EXCEPT ![r] = then, ![n] = "dispatched"]
                   /\ running' = running
      <3>1. PICK n \in pending[s] :
                   /\ ~cancelled[n]
                   /\ pending' = [pending EXCEPT ![s] = @ \ (T \cup {n})]
                   /\ admitted' = [q \in Requests |-> admitted[q] \/ q \in T \cup {n}]
                   /\ slot' = [slot EXCEPT ![r] = FALSE, ![n] = TRUE]
                   /\ inner' = [inner EXCEPT ![r] = then, ![n] = "dispatched"]
                   /\ running' = running
        BY <2>7
      <3>2. n \in Requests /\ n # r /\ sched[n] = s /\ ~admitted[n] /\ inner[n] = "idle" /\ ~slot[n]
        BY <2>3
      <3>3. Slots'
        BY <2>1, <2>2, <3>1, <3>2 DEF Inv, TypeOK, Slots, s
      <3>4. Queues'
        BY <2>1, <2>3, <2>5, <2>6, <3>1, <3>2 DEF Inv, TypeOK, Queues, s
      <3>5. (Names /\ Listed)'
        BY <2>1, <3>1, <3>2 DEF Inv, TypeOK, Names, Listed
      <3>6. Watchers'
        BY <2>5, <3>1 DEF Inv, Watchers
      <3>7. /\ running' \in [Schedulers -> 0..Concurrency]
            /\ pending' \in [Schedulers -> SUBSET Requests]
            /\ checks' \in SUBSET Requests
        BY <2>5, <2>6, <3>1 DEF Inv, TypeOK
      <3>8. /\ admitted' \in [Requests -> BOOLEAN]
            /\ slot' \in [Requests -> BOOLEAN]
        BY <2>6, <3>1, <3>2 DEF Inv, TypeOK
      <3>9. /\ inner' \in [Requests -> {"idle", "dispatched", "connected", "over"}]
            /\ inner'[r] = then
            /\ \A q \in Requests \ {r} : inner'[q] = IF q = n THEN "dispatched" ELSE inner[q]
        BY <3>1, <3>2 DEF Inv, TypeOK
      <3> QED
        BY <3>1, <3>2, <3>3, <3>4, <3>5, <3>6, <3>7, <3>8, <3>9
    <2>8. CASE   /\ pending' = [pending EXCEPT ![s] = {}]
                 /\ admitted' = [q \in Requests |-> admitted[q] \/ q \in T]
                 /\ slot' = [slot EXCEPT ![r] = FALSE]
                 /\ inner' = [inner EXCEPT ![r] = then]
                 /\ running' = [running EXCEPT ![s] = @ - 1]
      <3>1. running'[s] = 0 /\ \A x \in Requests \ {s} : running'[x] = running[x]
        BY <2>1, <2>8 DEF Inv, TypeOK
      <3>3. Slots'
        BY <2>1, <2>2, <2>8, <3>1 DEF Inv, TypeOK, Slots, s
      <3>4. Queues'
        BY <2>1, <2>3, <2>5, <2>6, <2>8, <3>1 DEF Inv, TypeOK, Queues, s
      <3>5. (Names /\ Listed)'
        BY <2>1, <2>8 DEF Inv, TypeOK, Names, Listed
      <3>6. Watchers'
        BY <2>1, <2>5, <2>8, <3>1 DEF Inv, TypeOK, Watchers, s
      <3> QED
        BY <2>1, <2>5, <2>6, <2>8, <3>1, <3>3, <3>4, <3>5, <3>6 DEF Inv, TypeOK
    <2> QED
      BY <2>5, <2>7, <2>8
  <1> QED
    BY <1>1, <1>2

-----------------------------------------------------------------------------

(* The invariant is kept by every step.                                    *)
LEMMA NextInv == Inv /\ [Next]_vars => Inv'
  <1> SUFFICES ASSUME Inv, [Next]_vars PROVE Inv'
    OBVIOUS
  <1> USE PriorityAssumption
  <1>1. ASSUME NEW r \in Requests, Submit(r) PROVE Inv'
    <2> DEFINE o == OriginOf[r]
               s == IF table[o] = None THEN r ELSE table[o]
    <2>1. /\ sched[r] = None
          /\ sched' = [sched EXCEPT ![r] = s]
          /\ table' = [table EXCEPT ![o] = s]
          /\ UNCHANGED <<checks, rejected, aborted>>
      BY <1>1 DEF Submit
    <2>2. /\ s \in Requests /\ o \in Origins /\ s # None
          /\ sched'[s] = s /\ OriginOf[s] = o /\ sched'[r] = s
          /\ table[o] # None => s = table[o] /\ s # r
          /\ table[o] = None => s = r
      BY <2>1 DEF Inv, TypeOK, Names
    <2>3. /\ ~admitted[r] /\ ~cancelled[r] /\ inner[r] = "idle" /\ ~slot[r]
          /\ r \notin checks /\ \A x \in Schedulers : r \notin pending[x]
      BY <2>1 DEF Inv, TypeOK, Slots, Queues, Schedulers
    <2>4. table[o] = None => running[s] = 0 /\ pending[s] = {}
      BY <2>1, <2>2, <2>3 DEF Inv, TypeOK, Slots, Queues, Names, Schedulers, Concurrency
    <2>5. ~closed[r] /\ ended[r] = 0
      BY <2>3 DEF Inv, TypeOK, Terminals
    <2> HIDE DEF o, s
    <2>6. CASE running[s] < Concurrency
      <3>1. /\ running' = [running EXCEPT ![s] = @ + 1]
            /\ admitted' = [admitted EXCEPT ![r] = TRUE]
            /\ slot' = [slot EXCEPT ![r] = TRUE]
            /\ inner' = [inner EXCEPT ![r] = "dispatched"]
            /\ UNCHANGED <<pending, cancelled, closed, ended>>
        BY <1>1, <2>6 DEF Submit, s, o
      <3>2. running[s] = 0 /\ running'[s] = 1 /\ \A x \in Requests \ {s} : running'[x] = running[x]
        BY <2>2, <2>6, <3>1 DEF Inv, TypeOK, Schedulers, Concurrency
      <3>3. TypeOK'
        BY <2>1, <2>2, <3>1, <3>2 DEF Inv, TypeOK, Schedulers, Concurrency
      <3>4. Slots'
        BY <2>1, <2>2, <2>3, <3>1, <3>2 DEF Inv, TypeOK, Slots, Schedulers
      <3>5. Queues'
        BY <2>1, <2>2, <2>3, <3>1, <3>2 DEF Inv, TypeOK, Queues, Schedulers
      <3>6. Names'
        BY <2>1, <2>2 DEF Inv, TypeOK, Names, o
      <3>7. Listed'
        BY <2>1, <2>2, <2>3, <3>1 DEF Inv, TypeOK, Listed, Slots, Queues, Names, Schedulers, o
      <3>8. Watchers'
        BY <2>1, <2>2, <2>3, <3>1, <3>2 DEF Inv, TypeOK, Watchers, Names, Schedulers
      <3>9. Terminals'
        BY <2>3, <2>5, <3>1 DEF Inv, TypeOK, Terminals
      <3> QED
        BY <3>3, <3>4, <3>5, <3>6, <3>7, <3>8, <3>9 DEF Inv
    <2>7. CASE ~(running[s] < Concurrency)
      <3>1. /\ pending' = [pending EXCEPT ![s] = @ \cup {r}]
            /\ cancelled' = [cancelled EXCEPT ![r] = r \in aborted]
            /\ IF r \in aborted THEN Ends(r) ELSE UNCHANGED <<closed, ended>>
            /\ UNCHANGED <<running, admitted, slot, inner>>
        BY <1>1, <2>7 DEF Submit, s, o
      <3>2. running[s] = 1 /\ table[o] = s
        BY <2>2, <2>4, <2>7 DEF Inv, TypeOK, Schedulers, Concurrency
      <3>3. /\ closed' \in [Requests -> BOOLEAN] /\ ended' \in [Requests -> Nat]
            /\ (closed'[r] <=> r \in aborted)
            /\ ended'[r] = IF r \in aborted THEN 1 ELSE 0
            /\ \A x \in Requests \ {r} : closed'[x] = closed[x] /\ ended'[x] = ended[x]
        <4>1. CASE r \in aborted
          <5>1. closed' = [closed EXCEPT ![r] = TRUE] /\ ended' = [ended EXCEPT ![r] = @ + 1]
            BY <2>5, <3>1, <4>1 DEF Ends
          <5> QED
            BY <2>5, <4>1, <5>1 DEF Inv, TypeOK
        <4>2. CASE r \notin aborted
          BY <2>5, <3>1, <4>2 DEF Inv, TypeOK
        <4> QED
          BY <4>1, <4>2
      <3>4. TypeOK'
        <4>1. cancelled' \in [Requests -> BOOLEAN]
          <5>1. cancelled \in [Requests -> BOOLEAN]
            BY DEF Inv, TypeOK
          <5>2. (r \in aborted) \in BOOLEAN
            OBVIOUS
          <5>3. PICK b \in BOOLEAN : cancelled' = [cancelled EXCEPT ![r] = b]
            BY <3>1, <5>2, Zenon
          <5> QED
            BY <5>1, <5>3
        <4>2. /\ pending' \in [Schedulers -> SUBSET Requests]
              /\ sched' \in [Requests -> Requests \cup {None}]
              /\ table' \in [Origins -> Requests \cup {None}]
          BY <2>1, <2>2, <3>1 DEF Inv, TypeOK, Schedulers
        <4> QED
          BY <2>1, <3>1, <3>3, <4>1, <4>2 DEF Inv, TypeOK
      <3>5. Slots'
        BY <2>1, <2>2, <2>3, <3>1, <3>2 DEF Inv, TypeOK, Slots, Schedulers
      <3>6. Queues'
        BY <2>1, <2>2, <2>3, <3>1, <3>2 DEF Inv, TypeOK, Queues, Schedulers
      <3>7. Names'
        BY <2>1, <2>2 DEF Inv, TypeOK, Names, o
      <3>8. Listed'
        BY <2>1, <2>2, <2>3, <3>1, <3>2 DEF Inv, TypeOK, Listed, Slots, Queues, Schedulers, o
      <3>9. Watchers'
        BY <2>1, <2>2, <2>3, <3>1, <3>2 DEF Inv, TypeOK, Watchers, Names, Schedulers
      <3>10. Terminals'
        BY <2>3, <3>1, <3>3 DEF Inv, TypeOK, Terminals
      <3> QED
        BY <3>4, <3>5, <3>6, <3>7, <3>8, <3>9, <3>10 DEF Inv
    <2> QED
      BY <2>6, <2>7
  <1>2. ASSUME NEW r \in Requests, OnConnect(r) PROVE Inv'
    <2>1. /\ inner[r] = "dispatched" /\ Release(r, "connected")
          /\ closed' = [closed EXCEPT ![r] = FALSE]
          /\ UNCHANGED <<table, sched, cancelled, rejected, ended, aborted>>
      BY <1>2 DEF OnConnect
    <2>2. ~cancelled[r] /\ ~closed[r]
      BY <2>1 DEF Inv, TypeOK, Queues, Terminals
    <2> HIDE DEF Inv
    <2>3. /\ (Slots /\ Queues /\ Names /\ Listed /\ Watchers)'
          /\ running' \in [Schedulers -> 0..Concurrency]
          /\ pending' \in [Schedulers -> SUBSET Requests]
          /\ admitted' \in [Requests -> BOOLEAN]
          /\ slot' \in [Requests -> BOOLEAN]
          /\ checks' \in SUBSET Requests
          /\ inner' \in [Requests -> {"idle", "dispatched", "connected", "over"}]
          /\ inner'[r] = "connected"
          /\ \A q \in Requests \ {r} :
               inner'[q] = inner[q] \/ (inner'[q] = "dispatched" /\ inner[q] = "idle" /\ ~cancelled[q])
      BY <2>1, ReleaseInv
    <2>4. TypeOK'
      BY <2>1, <2>3 DEF Inv, TypeOK
    <2>5. Terminals'
      BY <2>1, <2>2, <2>3 DEF Inv, TypeOK, Terminals
    <2> QED
      BY <2>3, <2>4, <2>5 DEF Inv
  <1>3. ASSUME NEW r \in Requests, inner[r] # "idle", Release(r, "over"), Ends(r),
               UNCHANGED <<table, sched, cancelled, aborted>>,
               rejected' \in SUBSET Requests
        PROVE  Inv'
    <2>1. ~cancelled[r]
      BY <1>3 DEF Inv, Queues
    <2>2. /\ (Slots /\ Queues /\ Names /\ Listed /\ Watchers)'
          /\ running' \in [Schedulers -> 0..Concurrency]
          /\ pending' \in [Schedulers -> SUBSET Requests]
          /\ admitted' \in [Requests -> BOOLEAN]
          /\ slot' \in [Requests -> BOOLEAN]
          /\ checks' \in SUBSET Requests
          /\ inner' \in [Requests -> {"idle", "dispatched", "connected", "over"}]
          /\ inner'[r] = "over"
          /\ \A q \in Requests \ {r} :
               inner'[q] = inner[q] \/ (inner'[q] = "dispatched" /\ inner[q] = "idle" /\ ~cancelled[q])
      BY <1>3, ReleaseInv
    <2>3. /\ closed' = [closed EXCEPT ![r] = TRUE]
          /\ ended' = [ended EXCEPT ![r] = IF closed[r] THEN @ ELSE @ + 1]
      BY <1>3 DEF Ends
    <2>4. TypeOK'
      BY <1>3, <2>2, <2>3 DEF Inv, TypeOK
    <2>5. Terminals'
      BY <1>3, <2>1, <2>2, <2>3 DEF Inv, TypeOK, Terminals
    <2> QED
      BY <2>2, <2>4, <2>5 DEF Inv
  <1>4. ASSUME NEW r \in Requests, OnComplete(r) PROVE Inv'
    BY <1>3, <1>4 DEF OnComplete, Inv, TypeOK
  <1>5. ASSUME NEW r \in Requests, OnError(r) PROVE Inv'
    BY <1>3, <1>5 DEF OnError, Inv, TypeOK
  <1>6. ASSUME NEW r \in Requests, OnRejection(r) PROVE Inv'
    BY <1>3, <1>6 DEF OnRejection, Inv, TypeOK
  <1>7. ASSUME NEW r \in Requests, OnIdle(r) PROVE Inv'
    <2>1. /\ r \in checks /\ checks' = checks \ {r}
          /\ table' = IF Evicts(r) THEN [table EXCEPT ![OriginOf[r]] = None] ELSE table
          /\ UNCHANGED <<running, pending, sched, admitted, slot, cancelled, closed,
                         inner, rejected, ended, aborted>>
      BY <1>7 DEF OnIdle
    <2>2. /\ sched[r] \in Requests /\ OriginOf[sched[r]] = OriginOf[r]
          /\ OriginOf[r] \in Origins
      BY <2>1 DEF Inv, TypeOK, Queues, Names
    <2>3. (TypeOK /\ Slots /\ Queues /\ Names /\ Terminals)'
      BY <2>1 DEF Inv, TypeOK, Slots, Queues, Names, Terminals
    <2>4. Listed'
      BY <2>1, <2>2 DEF Inv, TypeOK, Listed, Slots, Queues, Schedulers, Evicts
    <2>5. Watchers'
      <3> SUFFICES ASSUME NEW o \in Origins, table'[o] # None, running'[table'[o]] = 0
                   PROVE  \E q \in checks' : sched'[q] = table'[o]
        BY DEF Watchers
      <3>1. table[o] = table'[o] /\ running[table[o]] = 0
        BY <2>1, <2>2 DEF Inv, TypeOK
      <3>2. PICK q \in checks : sched[q] = table[o]
        BY <3>1 DEF Inv, Watchers
      <3>3. CASE q # r
        BY <2>1, <3>1, <3>2, <3>3
      <3>4. CASE q = r
        <4>1. OriginOf[r] = o
          BY <2>2, <3>1, <3>2, <3>4 DEF Inv, Names
        <4>2. pending[sched[r]] = {}
          BY <2>2, <3>1, <3>2, <3>4 DEF Inv, Queues, Schedulers
        <4>3. Evicts(r)
          BY <3>1, <3>2, <3>4, <4>1, <4>2 DEF Evicts
        <4> QED
          BY <2>1, <2>2, <3>1, <4>1, <4>3 DEF Inv, TypeOK
      <3> QED
        BY <3>3, <3>4
    <2> QED
      BY <2>3, <2>4, <2>5 DEF Inv
  <1>8. ASSUME NEW r \in Requests, Abort(r) PROVE Inv'
    <2>1. /\ aborted' = aborted \cup {r} /\ r \in Requests
          /\ UNCHANGED <<table, running, pending, sched, admitted, slot, checks, inner, rejected>>
      BY <1>8 DEF Abort
    <2>2. CASE Queued(r)
      <3>1. /\ cancelled' = [cancelled EXCEPT ![r] = TRUE]
            /\ closed' = [closed EXCEPT ![r] = TRUE]
            /\ ended' = [ended EXCEPT ![r] = IF closed[r] THEN @ ELSE @ + 1]
        BY <1>8, <2>2 DEF Abort, Ends
      <3>2. sched[r] # None /\ inner[r] = "idle" /\ ~slot[r]
        BY <2>2 DEF Queued, Inv, TypeOK, Queues, Slots
      <3>3. TypeOK'
        BY <2>1, <3>1 DEF Inv, TypeOK
      <3>4. (Slots /\ Names /\ Listed /\ Watchers)'
        BY <2>1 DEF Inv, Slots, Names, Listed, Watchers, Schedulers
      <3>5. Queues'
        BY <2>1, <3>1, <3>2 DEF Inv, TypeOK, Queues
      <3>6. Terminals'
        BY <2>1, <3>1 DEF Inv, TypeOK, Terminals
      <3> QED
        BY <3>3, <3>4, <3>5, <3>6 DEF Inv
    <2>3. CASE ~Queued(r)
      <3>1. UNCHANGED <<cancelled, closed, ended>>
        BY <1>8, <2>3 DEF Abort
      <3> QED
        BY <2>1, <3>1 DEF Inv, TypeOK, Slots, Queues, Names, Listed, Watchers, Terminals, Schedulers
    <2> QED
      BY <2>2, <2>3
  <1>9. CASE UNCHANGED vars
    BY <1>9 DEF vars, Inv, TypeOK, Slots, Queues, Names, Listed, Watchers, Terminals, Schedulers
  <1> QED
    BY <1>1, <1>2, <1>4, <1>5, <1>6, <1>7, <1>8, <1>9 DEF Next

(* The parts of the invariant hold in every reachable state.               *)
THEOREM Invariance == Spec => []Inv
  <1> QED
    BY InitInv, NextInv, PTL DEF Spec

(* The fields keep their types, and a scheduler its limit of one slot.     *)
THEOREM TypeCorrect == Spec => []TypeOK
  <1>1. Inv => TypeOK
    BY DEF Inv
  <1> QED
    BY <1>1, Invariance, PTL

(* One dispatch at a time per origin (priority.js 82-163, 238-304): both   *)
(* hold the slot of the scheduler the table has for their origin.          *)
THEOREM OneDispatchPerOrigin == Spec => []Serialised
  <1>1. Inv => Serialised
    BY DEF Inv, Slots, Listed, Serialised
  <1> QED
    BY <1>1, Invariance, PTL

(* No scheduler in use is ever evicted, so an origin has one queue         *)
(* (priority.js 238-256).                                                  *)
THEOREM UsedSchedulersAreListed == Spec => []InUseIsListed
  <1>1. Inv => InUseIsListed
    <2> SUFFICES ASSUME Inv, NEW s \in Requests, running[s] > 0 \/ pending[s] # {}
                 PROVE  table[OriginOf[s]] = s
      BY DEF InUseIsListed, Schedulers
    <2>1. s # None /\ running[s] = 1
      BY PriorityAssumption DEF Inv, TypeOK, Queues, Schedulers, Concurrency
    <2>2. PICK r \in Requests : slot[r] /\ sched[r] = s
      BY <2>1 DEF Inv, Slots, Schedulers
    <2>3. OriginOf[s] = OriginOf[r] /\ table[OriginOf[r]] = s
      BY <2>1, <2>2 DEF Inv, Names, Listed
    <2> QED
      BY <2>3
  <1> QED
    BY <1>1, Invariance, PTL

(* A queue always waits behind a request that the dispatcher has still to  *)
(* answer (priority.js 82-99, 129-163).                                    *)
THEOREM QueuesMove == Spec => []NoLostSlot
  <1>1. Inv => NoLostSlot
    BY DEF Inv, Slots, Queues, NoLostSlot, Schedulers
  <1> QED
    BY <1>1, Invariance, PTL

(* The table does not accumulate drained schedulers (priority.js 244-256). *)
THEOREM DrainedSchedulersLeave == Spec => []NoIdleScheduler
  <1>1. Inv => NoIdleScheduler
    BY PriorityAssumption DEF Inv, TypeOK, Watchers, NoIdleScheduler, Schedulers, Concurrency
  <1> QED
    BY <1>1, Invariance, PTL

(* A request cancelled in the queue stays out of the dispatcher            *)
(* (priority.js 87-93).                                                    *)
THEOREM TombstonesAreNotDispatched == Spec => []CancelledIsNotDispatched
  <1>1. Inv => CancelledIsNotDispatched
    BY DEF Inv, Queues, CancelledIsNotDispatched
  <1> QED
    BY <1>1, Invariance, PTL

(* A handler is told of one end (priority.js 129-142, 165-185).            *)
THEOREM OneEnd == Spec => []EndsOnce
  <1>1. Inv => EndsOnce
    <2> SUFFICES ASSUME Inv, NEW r \in Requests PROVE ended[r] <= 1
      BY DEF EndsOnce
    <2>1. ended[r] = 1 \/ ended[r] = 0
      BY DEF Inv, Terminals
    <2> QED
      BY <2>1
  <1> QED
    BY <1>1, Invariance, PTL

(* The slot of an origin is neither doubled nor lost, for every set of     *)
(* requests and origins (priority.js 82-163, 238-304).                     *)
THEOREM SlotCorrect == Spec => []SlotIsExact
  <1>1. Serialised /\ NoLostSlot => SlotIsExact
    BY DEF SlotIsExact
  <1> QED
    BY <1>1, OneDispatchPerOrigin, QueuesMove, PTL

(* The table is what the schedulers in use make it (priority.js 238-256).  *)
THEOREM TableCorrect == Spec => []TableIsExact
  <1>1. InUseIsListed /\ NoIdleScheduler => TableIsExact
    BY DEF TableIsExact
  <1> QED
    BY <1>1, UsedSchedulersAreListed, DrainedSchedulersLeave, PTL

(* One end, and no dispatch of a tombstone (priority.js 87-93, 129-185).   *)
THEOREM OutcomeCorrect == Spec => []OneOutcome
  <1>1. EndsOnce /\ CancelledIsNotDispatched => OneOutcome
    BY DEF OneOutcome
  <1> QED
    BY <1>1, OneEnd, TombstonesAreNotDispatched, PTL

=============================================================================
