------------------------------ MODULE Priority ------------------------------
(***************************************************************************)
(* The priority interceptor of lib/interceptor/priority.js: one scheduler  *)
(* per canonical origin, each with a single slot that a request holds from *)
(* its admission until its connection is made or it fails.  A request that *)
(* finds the slot taken queues; a queued request whose signal aborts is    *)
(* answered at once and stays in the queue as a tombstone.  A scheduler is *)
(* removed from the table when it has drained.                             *)
(*                                                                         *)
(* Scheduler is an external class (@nxtedition/scheduler): acquire() runs  *)
(* the callback at once when a slot is free and queues it otherwise, and   *)
(* release() synchronously admits queued callbacks.  Which of the queued   *)
(* requests is admitted first is left open.                                *)
(*                                                                         *)
(* A release runs the callbacks of the requests it admits before it comes  *)
(* back to its own eviction check, and those callbacks may submit further  *)
(* requests.  The pending checks are therefore a set, and each is a step.  *)
(***************************************************************************)
EXTENDS Integers

CONSTANTS
  Requests,   \* the requests with a priority
  Origins,    \* the canonical origins
  OriginOf,   \* the origin of each request
  Watched,    \* the requests whose signal can be watched
  None        \* no scheduler

ASSUME PriorityAssumption ==
  /\ OriginOf \in [Requests -> Origins]
  /\ Watched \subseteq Requests
  /\ None \notin Requests

VARIABLES
  table,      \* schedulers: the scheduler of each origin, or None
  running,    \* per scheduler: slots taken
  pending,    \* per scheduler: the queued requests
  sched,      \* per request: the scheduler it was given, None before
  admitted,   \* per request: #admitted
  slot,       \* per request: #slotAcquired
  cancelled,  \* per request: #cancelled
  closed,     \* per request: DecoratorHandler has passed a terminal event on
  checks,     \* the requests that have released and have yet to call onIdle
  inner,      \* the dispatcher below: "idle", "dispatched", "connected", "over"
  rejected,   \* the requests whose dispatch promise has rejected
  ended,      \* per request: the terminal events its handler has received
  aborted     \* the requests whose signal has aborted

vars == <<table, running, pending, sched, admitted, slot, cancelled, closed,
          checks, inner, rejected, ended, aborted>>

(* A scheduler is named after the request it was created for.              *)
Schedulers == Requests
Concurrency == 1

Init ==
  /\ table = [o \in Origins |-> None]
  /\ running = [s \in Schedulers |-> 0]
  /\ pending = [s \in Schedulers |-> {}]
  /\ sched = [r \in Requests |-> None]
  /\ admitted = [r \in Requests |-> FALSE]
  /\ slot = [r \in Requests |-> FALSE]
  /\ cancelled = [r \in Requests |-> FALSE]
  /\ closed = [r \in Requests |-> FALSE]
  /\ checks = {}
  /\ inner = [r \in Requests |-> "idle"]
  /\ rejected = {}
  /\ ended = [r \in Requests |-> 0]
  /\ aborted = {}

-----------------------------------------------------------------------------

(* A terminal event goes to the handler of r, through DecoratorHandler.    *)
Ends(r) ==
  /\ closed' = [closed EXCEPT ![r] = TRUE]
  /\ ended' = [ended EXCEPT ![r] = IF closed[r] THEN @ ELSE @ + 1]

(* Faulty: a tombstone is dispatched like any other request.               *)
Tombstones_None(s) == {}

(* The queued requests that onAcquired does not dispatch.                  *)
Tombstones(s) == {q \in pending[s] : cancelled[q]}

(* Scheduler.release() by r: tombstones come and go until a live request   *)
(* takes the slot or none is left.  The inner dispatcher of r is left in   *)
(* the state `then`.                                                       *)
ReleaseSlot(r, then) ==
  LET s == sched[r]
      dead == Tombstones(s)
  IN \E T \in SUBSET dead :
       /\ checks' = checks \cup T \cup {r}
       /\ \/ \E n \in pending[s] \ dead :
               /\ pending' = [pending EXCEPT ![s] = @ \ (T \cup {n})]
               /\ admitted' = [q \in Requests |-> admitted[q] \/ q \in T \cup {n}]
               /\ slot' = [slot EXCEPT ![r] = FALSE, ![n] = TRUE]
               /\ inner' = [inner EXCEPT ![r] = then, ![n] = "dispatched"]
               /\ UNCHANGED running
          \/ /\ T = pending[s]
             /\ pending' = [pending EXCEPT ![s] = {}]
             /\ admitted' = [q \in Requests |-> admitted[q] \/ q \in T]
             /\ slot' = [slot EXCEPT ![r] = FALSE]
             /\ inner' = [inner EXCEPT ![r] = then]
             /\ running' = [running EXCEPT ![s] = @ - 1]

(* Faulty: every terminal callback releases.                               *)
HoldsSlot_Always(r) == TRUE

(* The guard of #release.                                                  *)
HoldsSlot(r) == slot[r]

(* Faulty: a request that ends before it is connected keeps the slot.      *)
Release_OnConnect(r, then) ==
  IF HoldsSlot(r) /\ then = "connected"
  THEN ReleaseSlot(r, then)
  ELSE /\ inner' = [inner EXCEPT ![r] = then]
       /\ UNCHANGED <<checks, pending, admitted, slot, running>>

(* #release, on every path a request can take out of the dispatcher.       *)
Release(r, then) ==
  IF HoldsSlot(r)
  THEN ReleaseSlot(r, then)
  ELSE /\ inner' = [inner EXCEPT ![r] = then]
       /\ UNCHANGED <<checks, pending, admitted, slot, running>>

-----------------------------------------------------------------------------
(* The wrapped dispatch: find or create the scheduler of the origin, then  *)
(* acquire, and watch the signal of a request that has to queue.           *)
Submit(r) ==
  LET o == OriginOf[r]
      s == IF table[o] = None THEN r ELSE table[o]
  IN /\ sched[r] = None
     /\ sched' = [sched EXCEPT ![r] = s]
     /\ table' = [table EXCEPT ![o] = s]
     /\ IF running[s] < Concurrency
        THEN /\ running' = [running EXCEPT ![s] = @ + 1]
             /\ admitted' = [admitted EXCEPT ![r] = TRUE]
             /\ slot' = [slot EXCEPT ![r] = TRUE]
             /\ inner' = [inner EXCEPT ![r] = "dispatched"]
             /\ UNCHANGED <<pending, cancelled, closed, ended>>
        ELSE /\ pending' = [pending EXCEPT ![s] = @ \cup {r}]
             /\ cancelled' = [cancelled EXCEPT ![r] = r \in aborted]
             /\ IF r \in aborted THEN Ends(r) ELSE UNCHANGED <<closed, ended>>
             /\ UNCHANGED <<running, admitted, slot, inner>>
     /\ UNCHANGED <<checks, rejected, aborted>>

(* The dispatcher has a connection for r: the slot is free again, and the  *)
(* flags of DecoratorHandler are reset.                                    *)
OnConnect(r) ==
  /\ inner[r] = "dispatched"
  /\ Release(r, "connected")
  /\ closed' = [closed EXCEPT ![r] = FALSE]
  /\ UNCHANGED <<table, sched, cancelled, rejected, ended, aborted>>

OnComplete(r) ==
  /\ inner[r] = "connected"
  /\ Release(r, "over")
  /\ Ends(r)
  /\ UNCHANGED <<table, sched, cancelled, rejected, aborted>>

(* Also what a dispatch that throws is turned into.                        *)
OnError(r) ==
  /\ inner[r] \in {"dispatched", "connected"}
  /\ Release(r, "over")
  /\ Ends(r)
  /\ UNCHANGED <<table, sched, cancelled, rejected, aborted>>

(* The promise of the dispatch rejects, perhaps after a terminal event.    *)
OnRejection(r) ==
  /\ inner[r] # "idle" /\ r \notin rejected
  /\ rejected' = rejected \cup {r}
  /\ Release(r, "over")
  /\ Ends(r)
  /\ UNCHANGED <<table, sched, cancelled, aborted>>

(* Faulty: a stale check removes whatever scheduler the origin has.        *)
Evicts_Any(r) ==
  running[sched[r]] = 0 /\ pending[sched[r]] = {}

(* Faulty: only the request a scheduler was created for evicts it.         *)
Evicts_Creator(r) ==
  /\ table[OriginOf[r]] = sched[r] /\ sched[r] = r
  /\ running[sched[r]] = 0 /\ pending[sched[r]] = {}

(* The scheduler of r is in the table and has drained.                     *)
Evicts(r) ==
  /\ table[OriginOf[r]] = sched[r]
  /\ running[sched[r]] = 0 /\ pending[sched[r]] = {}

OnIdle(r) ==
  /\ r \in checks
  /\ checks' = checks \ {r}
  /\ table' = IF Evicts(r) THEN [table EXCEPT ![OriginOf[r]] = None] ELSE table
  /\ UNCHANGED <<running, pending, sched, admitted, slot, cancelled, closed,
                 inner, rejected, ended, aborted>>

(* Faulty: the signal is still watched when the request has been admitted. *)
Queued_Admitted(r) == sched[r] # None /\ ~cancelled[r]

(* The guard of #cancelQueued.                                             *)
Queued(r) == sched[r] # None /\ ~admitted[r] /\ ~cancelled[r]

(* The signal of r aborts: #cancelQueued answers a queued request.         *)
Abort(r) ==
  /\ r \in Watched \ aborted
  /\ aborted' = aborted \cup {r}
  /\ IF Queued(r)
     THEN cancelled' = [cancelled EXCEPT ![r] = TRUE] /\ Ends(r)
     ELSE UNCHANGED <<cancelled, closed, ended>>
  /\ UNCHANGED <<table, running, pending, sched, admitted, slot, checks, inner, rejected>>

Next ==
  \E r \in Requests :
    \/ Submit(r) \/ OnConnect(r) \/ OnComplete(r) \/ OnError(r)
    \/ OnRejection(r) \/ OnIdle(r) \/ Abort(r)

Spec == Init /\ [][Next]_vars

(* The dispatcher below ends what it was given, and a release comes back   *)
(* to its check.  Nobody has to submit, to abort or to reject.             *)
Fairness ==
  \A r \in Requests :
    WF_vars(OnConnect(r) \/ OnComplete(r) \/ OnError(r)) /\ WF_vars(OnIdle(r))

FairSpec == Spec /\ Fairness

-----------------------------------------------------------------------------
(* Properties.                                                             *)

(* The types of the fields, and the slots of a scheduler within its limit. *)
TypeOK ==
  /\ table \in [Origins -> Requests \cup {None}]
  /\ running \in [Schedulers -> 0..Concurrency]
  /\ pending \in [Schedulers -> SUBSET Requests]
  /\ sched \in [Requests -> Requests \cup {None}]
  /\ admitted \in [Requests -> BOOLEAN]
  /\ slot \in [Requests -> BOOLEAN]
  /\ cancelled \in [Requests -> BOOLEAN]
  /\ closed \in [Requests -> BOOLEAN]
  /\ checks \in SUBSET Requests
  /\ inner \in [Requests -> {"idle", "dispatched", "connected", "over"}]
  /\ rejected \in SUBSET Requests
  /\ ended \in [Requests -> Nat]
  /\ aborted \in SUBSET Requests

(* The requests of one origin are dispatched one at a time: none is handed *)
(* to the dispatcher while another one waits for its connection, even when *)
(* schedulers of the origin come and go (82-163, 238-256, 278-304).        *)
Serialised ==
  \A a, b \in Requests :
    (inner[a] = "dispatched" /\ inner[b] = "dispatched" /\ OriginOf[a] = OriginOf[b])
      => a = b

(* A scheduler in use is the one new requests of its origin find, so an    *)
(* origin never has two queues (238-256).                                  *)
InUseIsListed ==
  \A s \in Schedulers :
    (running[s] > 0 \/ pending[s] # {}) => table[OriginOf[s]] = s

(* Requests queue only behind a live one: the slot of a scheduler with a   *)
(* queue is held by a request the dispatcher has still to connect or fail, *)
(* never by a tombstone or by one that has ended (82-99, 129-163).         *)
NoLostSlot ==
  \A s \in Schedulers : pending[s] # {} =>
    \E r \in Requests : sched[r] = s /\ slot[r] /\ inner[r] = "dispatched"

(* A drained scheduler leaves the table: when no check is outstanding the  *)
(* table holds only schedulers in use (244-256).                           *)
NoIdleScheduler ==
  checks = {} => \A o \in Origins :
    table[o] # None => running[table[o]] > 0 \/ pending[table[o]] # {}

(* A request that was cancelled in the queue is never dispatched (87-93).  *)
CancelledIsNotDispatched ==
  \A r \in Requests : cancelled[r] => inner[r] = "idle"

(* A handler receives one terminal event, whether its request is cancelled,*)
(* completes, fails or its promise rejects as well (129-142, 165-185).     *)
EndsOnce ==
  \A r \in Requests : ended[r] <= 1

(* Each origin has one slot, which is never held twice nor lost: of its    *)
(* requests at most one is dispatched and not connected, across all the    *)
(* schedulers the origin comes to have, and a queue stands behind one the  *)
(* dispatcher has still to connect or fail (priority.js 82-163, 238-304).  *)
SlotIsExact == Serialised /\ NoLostSlot

(* The table holds the schedulers in use and, when every check has come    *)
(* back, no other: none is evicted under the requests it holds, and none   *)
(* is left behind (priority.js 238-256).                                   *)
TableIsExact == InUseIsListed /\ NoIdleScheduler

(* A handler has one end, however its cancellation, its callbacks and its  *)
(* rejection race, and a request cancelled in the queue stays a tombstone  *)
(* (priority.js 87-93, 129-142, 165-185).                                  *)
OneOutcome == EndsOnce /\ CancelledIsNotDispatched

(* A submitted request gets its terminal event, however long its queue is, *)
(* and whatever queued requests are cancelled (82-99, 144-185).            *)
EveryRequestEnds ==
  \A r \in Requests : sched[r] # None ~> ended[r] > 0

=============================================================================
