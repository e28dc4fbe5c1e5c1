-------------------------- MODULE SqliteCacheStore --------------------------
(***************************************************************************)
(* The cache store of lib/sqlite-cache-store.js: a table of stored         *)
(* responses, and in front of it the batch of responses set but not yet    *)
(* written.  A set schedules a flush with setImmediate; a flush writes as  *)
(* much of the batch as its time budget allows in one transaction, each    *)
(* entry replacing the rows of the same representation, and schedules the  *)
(* next flush for the rest.  A lookup sees the table as the flushes to come*)
(* will leave it.  delete() drops the entries of a URL from both.          *)
(*                                                                         *)
(* Every method runs to its end without yielding, so each is an action.    *)
(* SQLite is external: a statement may fail (a lock held by another        *)
(* process, a full disk), and a failed transaction is rolled back; a       *)
(* ROLLBACK that fails itself leaves the transaction open, and what this   *)
(* connection then reads and writes is undone by the next flush.           *)
(*                                                                         *)
(* Bodies, headers and directives are left out: an entry is its            *)
(* representation, its Date, its expiry, and the number of the set() that  *)
(* brought it, which is also the order of the row ids and of #insertBatch: *)
(* both are sets here, and the first entries are those of a lower number.  *)
(***************************************************************************)
EXTENDS Integers, FiniteSets

CONSTANTS
  Templates,      \* what a set may bring: url, method, vary, partial, start, end
  Lookups,        \* what a get may ask: url, method, the selecting headers and range
  Dates,          \* response dates
  Expiries,       \* deleteAt times, the past ones are tombstones
  AnyVary,        \* no Vary selector
  NoTx,           \* no transaction is open
  MaxSets,        \* bound on the calls of set()
  MaxTime,        \* bound on the clock
  SliceSize,      \* entries between two looks at the time budget (16)
  EvictCount,     \* rows removed by one eviction (256)
  Fills,          \* whether the file may reach its size limit
  WritesFail,     \* whether statements may fail
  RollbackFails,  \* whether ROLLBACK may fail as well
  Crashes         \* whether the process may stop without close()

ASSUME StoreAssumption ==
  /\ MaxSets \in Nat /\ MaxTime \in Nat
  /\ SliceSize \in Nat \ {0} /\ EvictCount \in Nat \ {0}
  /\ {Fills, WritesFail, RollbackFails, Crashes} \subseteq BOOLEAN
  /\ Dates \subseteq Nat /\ Expiries \subseteq Nat
  /\ \A t \in Templates : /\ t.partial \in BOOLEAN
                          /\ t.start \in Nat /\ t.end \in Nat
                          /\ t.partial \/ t.start = 0

VARIABLES
  db,         \* the rows, as this connection sees them
  saved,      \* the committed rows while a transaction is left open, or NoTx
  batch,      \* #insertBatch
  scheduled,  \* setImmediate(#flush) calls to come
  closed,     \* #closed
  now,        \* the clock
  seq,        \* #insertSeq
  \* History: the last set() of each representation (0 after an invalidation),
  \* the representations one of whose writes has failed since, and the last
  \* set() before the last delete() of each URL that reported no error.
  latest, lost, deleted

vars == <<db, saved, batch, scheduled, closed, now, seq, latest, lost, deleted>>

Urls == {t.url : t \in Templates}

(* storedRepresentationIdentity, with the URL and the method.              *)
Ident(e) == [url |-> e.url, method |-> e.method, vary |-> e.vary,
             window |-> IF e.partial THEN <<e.start, e.end>> ELSE <<>>]

Idents == {Ident(t) : t \in Templates}

Init ==
  /\ db = {} /\ saved = NoTx /\ batch = {} /\ scheduled = 0
  /\ closed = FALSE /\ now = 0 /\ seq = 0
  /\ latest = [i \in Idents |-> 0] /\ lost = {}
  /\ deleted = [u \in Urls |-> 0]

-----------------------------------------------------------------------------
(* The pure parts.                                                         *)

(* Faulty: a partial response replaces every window of its representation. *)
Supersedes_AnyWindow(e, r) ==
  /\ e.url = r.url /\ e.method = r.method /\ e.vary = r.vary
  /\ e.partial = r.partial

(* The predicate of the supersede statements and of the in-batch loop: a   *)
(* full response replaces full ones, a 206 one with the same window.       *)
Supersedes(e, r) ==
  /\ e.url = r.url /\ e.method = r.method /\ e.vary = r.vary
  /\ e.partial = r.partial
  /\ e.partial => e.start = r.start /\ e.end = r.end

(* The rows d after the entries P have been written in their order.        *)
Written(d, P) ==
  {r \in d \cup P : ~\E e \in P : e.seq > r.seq /\ Supersedes(e, r)}

(* Faulty: rows about to be replaced are still candidates.                 *)
Shadowed_None(r, b, from) == FALSE

(* A row that a pending entry the lookup sees is about to replace.         *)
Shadowed(r, b, from) ==
  \E e \in b :
    e.start <= from /\ e.url = r.url /\ e.method = r.method /\ Ident(e) = Ident(r)

(* What a lookup from position `from` of a URL chooses among.              *)
Candidates(d, b, u, m, from) ==
  {v \in {r \in d : ~Shadowed(r, b, from)} \cup b :
     v.url = u /\ v.method = m /\ v.start <= from /\ v.deleteAt > now}

(* matchesValue.                                                           *)
Matches(v, q) ==
  /\ IF q.range = <<>> THEN ~v.partial ELSE q.range = <<v.start, v.end>>
  /\ v.vary \in {AnyVary, q.vary}

(* #findValue: the match with the latest Date, the latest set() among them;*)
(* the set is empty when there is none.                                    *)
Found(d, b, q) ==
  LET from  == IF q.range = <<>> THEN 0 ELSE q.range[1]
      fit   == {v \in Candidates(d, b, q.url, q.method, from) : Matches(v, q)}
  IN {v \in fit : \A w \in fit : v.date > w.date \/ (v.date = w.date /\ v.seq >= w.seq)}

-----------------------------------------------------------------------------
(* #flush.                                                                 *)

Result(d, tx, b, dropped) == [db |-> d, saved |-> tx, batch |-> b, dropped |-> dropped]

(* A transaction attempts the entries up to the last one it reaches.       *)
First(last) == {e \in batch : e.seq <= last.seq}

Rest(last) == batch \ First(last)

(* Faulty: close() keeps to the time budget.                               *)
Slices_Budget(final) ==
  {last \in batch : Rest(last) = {} \/ Cardinality(First(last)) % SliceSize = 0}

(* How far a transaction gets: to the end of the batch, or to the first    *)
(* look at the budget that finds it spent, which close() does not take.    *)
Slices(final) ==
  {last \in batch : Rest(last) = {} \/ (~final /\ Cardinality(First(last)) % SliceSize = 0)}

(* SQLITE_FULL: up to three times the rows that expire first make room.    *)
Evictions(d) ==
  {E \in SUBSET d :
     /\ Fills \/ E = {}
     /\ \E k \in 0..3 : Cardinality(E) = k * EvictCount \/ (E = d /\ Cardinality(d) < k * EvictCount)
     /\ \A e \in E, r \in d \ E : e.deleteAt <= r.deleteAt}

(* The last committed rows: what an open transaction is rolled back to.    *)
Committed == IF saved = NoTx THEN db ELSE saved

(* The rows a transaction that fails at its last entry may have written.   *)
Partly(d, last) ==
  LET before == Written(d, First(last) \ {last})
  IN {before, {r \in before : ~Supersedes(last, r)}, Written(d, First(last))}

Flushed(final) ==
  {Result(Written(Committed \ E, First(last)), NoTx, Rest(last), {}) :
     last \in Slices(final), E \in Evictions(Committed)}

(* A failed BEGIN drops the batch, a failed transaction what it attempted. *)
Failed(final) ==
  IF ~WritesFail THEN {}
  ELSE {Result(Committed, NoTx, {}, batch)}
    \cup {Result(Committed \ E, NoTx, Rest(last), First(last)) :
            last \in batch, E \in Evictions(Committed)}
    \cup (IF ~RollbackFails THEN {}
          ELSE {Result(db, saved, {}, batch)}
            \cup UNION {{Result(d, Committed, Rest(last), First(last)) :
                           d \in Partly(Committed, last)} : last \in batch})

Outcomes(final) ==
  IF batch = {} THEN {Result(db, saved, {}, {})}
  ELSE Flushed(final) \cup Failed(final)

(* Faulty: what a flush leaves is not scheduled again.                     *)
Reschedule_Never(b) == 0

(* A flush that leaves entries schedules the next one.                     *)
Reschedule(b) == IF b = {} THEN 0 ELSE 1

-----------------------------------------------------------------------------
(* The methods.                                                            *)

(* Faulty: the entry is queued next to the one it replaces.                *)
Enqueue_Duplicate(e) == batch \cup {e}

(* In-batch coalescing: the entry replaces pending ones it supersedes.     *)
Enqueue(e) == {o \in batch : ~Supersedes(e, o)} \cup {e}

Set(t, date, deleteAt) ==
  LET e == [url |-> t.url, method |-> t.method, vary |-> t.vary, partial |-> t.partial,
            start |-> t.start, end |-> t.end, date |-> date, deleteAt |-> deleteAt,
            seq |-> seq + 1]
  IN /\ ~closed
     /\ seq < MaxSets
     /\ seq' = seq + 1
     /\ scheduled' = IF batch = {} THEN scheduled + 1 ELSE scheduled
     /\ batch' = Enqueue(e)
     /\ latest' = [latest EXCEPT ![Ident(e)] = seq']
     /\ lost' = lost \ {Ident(e)}
     /\ UNCHANGED <<db, saved, closed, now, deleted>>

(* Faulty: the pending entries of the URL stay.                            *)
Purged_None(u) == batch

(* The pending entries of other URLs.                                      *)
Purged(u) == {e \in batch : e.url # u}

Delete(u) ==
  /\ ~closed
  /\ batch' = Purged(u)
  /\ \/ /\ db' = {r \in db : r.url # u}
        /\ latest' = [i \in Idents |-> IF i.url = u THEN 0 ELSE latest[i]]
        /\ deleted' = [deleted EXCEPT ![u] = seq]
        /\ UNCHANGED lost
     \/ /\ WritesFail
        /\ lost' = lost \cup {i \in Idents : i.url = u}
        /\ UNCHANGED <<db, latest, deleted>>
  /\ UNCHANGED <<saved, scheduled, closed, now, seq>>

Clear ==
  /\ batch' = {}
  /\ IF closed
     THEN /\ lost' = lost \cup {Ident(e) : e \in batch}
          /\ UNCHANGED <<db, latest, deleted>>
     ELSE \/ /\ saved = NoTx             \* no checkpoint inside a transaction
             /\ db' = {}
             /\ latest' = [i \in Idents |-> 0]
             /\ deleted' = [u \in Urls |-> seq]
             /\ UNCHANGED lost
          \/ /\ WritesFail
             /\ db' \in {{}, db}
             /\ lost' = Idents
             /\ UNCHANGED <<latest, deleted>>
  /\ UNCHANGED <<saved, scheduled, closed, now, seq>>

Gc ==
  /\ ~closed
  /\ db' = {r \in db : r.deleteAt > now}
  /\ UNCHANGED <<saved, batch, scheduled, closed, now, seq, latest, lost, deleted>>

(* The setImmediate callback; on a closed store it discards the batch.     *)
Flush ==
  /\ scheduled > 0
  /\ IF closed
     THEN /\ batch' = {} /\ scheduled' = scheduled - 1
          /\ lost' = lost \cup {Ident(e) : e \in batch}
          /\ UNCHANGED <<db, saved>>
     ELSE \E o \in Outcomes(FALSE) :
            /\ db' = o.db /\ saved' = o.saved /\ batch' = o.batch
            /\ scheduled' = scheduled - 1 + Reschedule(o.batch)
            /\ lost' = lost \cup {Ident(e) : e \in o.dropped}
  /\ UNCHANGED <<closed, now, seq, latest, deleted>>

(* One last flush of everything, then the connection is closed, which rolls*)
(* an open transaction back.                                               *)
Close ==
  /\ ~closed
  /\ \E o \in Outcomes(TRUE) :
       /\ db' = IF o.saved = NoTx THEN o.db ELSE o.saved
       /\ batch' = o.batch
       /\ scheduled' = scheduled + Reschedule(o.batch)
       /\ lost' = lost \cup {Ident(e) : e \in o.dropped}
  /\ saved' = NoTx
  /\ closed' = TRUE
  /\ UNCHANGED <<now, seq, latest, deleted>>

(* A new store on the same file, after close() or after a crash.           *)
Open ==
  /\ closed \/ Crashes
  /\ closed' = FALSE
  /\ db' = Committed /\ saved' = NoTx
  /\ batch' = {} /\ scheduled' = 0
  /\ lost' = lost \cup {Ident(e) : e \in batch}
  /\ UNCHANGED <<now, seq, latest, deleted>>

Tick ==
  /\ now < MaxTime
  /\ now' = now + 1
  /\ UNCHANGED <<db, saved, batch, scheduled, closed, seq, latest, lost, deleted>>

Next ==
  \/ \E t \in Templates, date \in Dates, deleteAt \in Expiries : Set(t, date, deleteAt)
  \/ \E u \in Urls : Delete(u)
  \/ Clear \/ Gc \/ Flush \/ Close \/ Open \/ Tick

Spec == Init /\ [][Next]_vars

(* The event loop runs what setImmediate was given.                        *)
FairSpec == Spec /\ WF_vars(Flush)

-----------------------------------------------------------------------------
(* Properties.                                                             *)

(* What set() makes of a template.                                         *)
Entry ==
  {e \in [url : Urls, method : {t.method : t \in Templates},
          vary : {t.vary : t \in Templates}, partial : BOOLEAN,
          start : Nat, end : Nat, date : Dates, deleteAt : Expiries, seq : 1..MaxSets] :
     /\ Ident(e) \in Idents
     /\ e.partial \/ e.start = 0}

(* The types of the fields.  There is one row, and one pending entry, for  *)
(* a representation: replacing a hot response accumulates neither, and no  *)
(* more flushes are scheduled than sets were (362-386, 644-660, 773-781).  *)
TypeOK ==
  /\ db \subseteq Entry
  /\ saved = NoTx \/ saved \subseteq Entry
  /\ batch \subseteq Entry
  /\ scheduled \in 0..MaxSets
  /\ closed \in BOOLEAN
  /\ now \in 0..MaxTime
  /\ seq \in 0..MaxSets
  /\ latest \in [Idents -> 0..MaxSets]
  /\ lost \subseteq Idents
  /\ deleted \in [Urls -> 0..MaxSets]
  /\ \A a, b \in db : Ident(a) = Ident(b) => a = b
  /\ \A a, b \in batch : Ident(a) = Ident(b) => a = b

(* Writing the batch, or any first part of it, changes no answer: "get()   *)
(* change answers merely because setImmediate flushed the batch" (902-934).*)
FlushIsInvisible ==
  \A q \in Lookups, last \in batch :
    Found(Written(db, First(last)), Rest(last), q) = Found(db, batch, q)

(* A response that was replaced or invalidated is never answered again,    *)
(* unless a write that concerned it has failed (644-660, 706-726, 773-834).*)
NeverOutdated ==
  ~closed => \A q \in Lookups : \A v \in Found(db, batch, q) :
    v.seq = latest[Ident(v)] \/ Ident(v) \in lost

(* Once delete() has invalidated a URL without an error, no response set   *)
(* before is answered again, for any method and selector, whatever fails   *)
(* afterwards (687-727).                                                   *)
DeletedStaysDeleted ==
  ~closed => \A q \in Lookups : \A v \in Found(db, batch, q) : v.seq > deleted[v.url]

(* close() leaves no pending entry behind when no write fails (529-546).   *)
CloseDrains ==
  [][(closed' /\ ~closed) => batch' = {} /\ batch \subseteq db']_vars

(* The store is a map from representations to responses that forgets: what *)
(* is pending, written, expired or evicted makes no difference (StoreMap). *)
Contents ==
  [i \in Idents |->
     LET from == IF i.window = <<>> THEN 0 ELSE i.window[1]
         fit  == {v \in Candidates(db, batch, i.url, i.method, from) : Ident(v) = i}
     IN IF fit = {} THEN 0 ELSE (CHOOSE v \in fit : TRUE).seq]

Map == INSTANCE StoreMap WITH Keys <- Idents, map <- Contents, count <- seq

ImplementsMap == Map!Spec

(* Every entry leaves the batch, written or given up (729-854).            *)
EntriesSettle ==
  \A s \in 1..MaxSets :
    (\E e \in batch : e.seq = s) ~> ~(\E e \in batch : e.seq = s)

=============================================================================
