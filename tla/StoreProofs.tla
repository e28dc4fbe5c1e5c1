----------------------------- MODULE StoreProofs -----------------------------
(***************************************************************************)
(* Proofs about SqliteCacheStore, for every set of templates, lookups,     *)
(* dates and expiries and every bound.  The argument rests on the order of *)
(* the set() numbers: what is written was set before what is pending, so a *)
(* flush replaces exactly the rows that a lookup already leaves out.       *)
(***************************************************************************)
EXTENDS SqliteCacheStore, TLAPS

(* One entry for a representation.                                         *)
Single(S) == \A x, y \in S : Ident(x) = Ident(y) => x = y

(* Rows that were set by now, and before the pending entries b.            *)
Before(d, b, n) ==
  /\ d \subseteq Entry
  /\ Single(d)
  /\ \A r \in d : r.seq <= n
  /\ \A r \in d, e \in b : r.seq < e.seq

(* Pending entries, set by now.                                            *)
Pending(b, n) ==
  /\ b \subseteq Entry
  /\ Single(b)
  /\ \A e \in b : e.seq <= n

(* A flush is scheduled for a set() each; the spare one is what a close()  *)
(* that leaves entries schedules.                                          *)
Scheduled(n, b) ==
  /\ scheduled \in 0..n
  /\ ~closed => \A x, y \in b : x = y \/ scheduled < n

(* The invariant that is inductive whatever fails.                         *)
StoreInv ==
  /\ TypeOK
  /\ Before(db, batch, seq)
  /\ Before(Committed, batch, seq)
  /\ Pending(batch, seq)
  /\ Scheduled(seq, batch)

(* Every answer the store could give is the last response of its           *)
(* representation, a write of it has failed, or a pending one replaces it. *)
Current(d, b, l, x) ==
  /\ \A e \in b : e.seq = l[Ident(e)] \/ Ident(e) \in x
  /\ \A r \in d : \/ r.seq = l[Ident(r)] \/ Ident(r) \in x
                  \/ \E e \in b : Ident(e) = Ident(r)

(* Nothing that was there before a deletion is there.                      *)
Gone(d, b, l) == \A v \in d \cup b : v.seq > l[v.url]

(* The invariant while every ROLLBACK succeeds.                            *)
RolledBackInv ==
  /\ StoreInv
  /\ saved = NoTx
  /\ Current(db, batch, latest, lost)
  /\ Gone(db, batch, deleted)
  /\ \A u \in Urls : deleted[u] <= seq

(* The invariant while no statement fails and the process does not stop.   *)
UnfailingInv ==
  /\ StoreInv
  /\ saved = NoTx
  /\ closed => batch = {}

-----------------------------------------------------------------------------
(* The operators.                                                          *)

(* The predicate of the supersede statements, of the in-batch loop and of  *)
(* storedRepresentationIdentity is one and the same relation.              *)
LEMMA SameIdent ==
  ASSUME NEW e \in Entry, NEW r \in Entry
  PROVE  Supersedes(e, r) <=> Ident(e) = Ident(r)
<1>1. e.partial \in BOOLEAN /\ r.partial \in BOOLEAN
  BY DEF Entry
<1>2. ASSUME Supersedes(e, r) PROVE Ident(e) = Ident(r)
  BY <1>1, <1>2 DEF Supersedes, Ident
<1>3. ASSUME Ident(e) = Ident(r) PROVE Supersedes(e, r)
  <2>1. /\ Ident(e).url = e.url /\ Ident(r).url = r.url
        /\ Ident(e).method = e.method /\ Ident(r).method = r.method
        /\ Ident(e).vary = e.vary /\ Ident(r).vary = r.vary
        /\ Ident(e).window = IF e.partial THEN <<e.start, e.end>> ELSE <<>>
        /\ Ident(r).window = IF r.partial THEN <<r.start, r.end>> ELSE <<>>
    BY DEF Ident
  <2>2. <<e.start, e.end>> # <<>> /\ <<r.start, r.end>> # <<>>
    OBVIOUS
  <2>3. e.partial = r.partial
    BY <1>1, <1>3, <2>1, <2>2
  <2>4. e.partial => e.start = r.start /\ e.end = r.end
    <3>1. SUFFICES ASSUME e.partial PROVE e.start = r.start /\ e.end = r.end
      OBVIOUS
    <3>2. <<e.start, e.end>> = <<r.start, r.end>>
      BY <1>3, <2>1, <2>3, <3>1
    <3>3. QED
      BY <3>2
  <2>5. QED
    BY <1>3, <2>1, <2>3, <2>4 DEF Supersedes
<1>4. QED
  BY <1>2, <1>3

(* Responses of one representation begin at the same place.                *)
LEMMA SameStart ==
  ASSUME NEW e \in Entry, NEW r \in Entry, Ident(e) = Ident(r)
  PROVE  e.start = r.start /\ e.url = r.url /\ e.method = r.method
<1>1. e.partial = r.partial /\ e.url = r.url /\ e.method = r.method
      /\ (e.partial => e.start = r.start)
  BY SameIdent DEF Supersedes
<1>2. e.partial \in BOOLEAN /\ (e.partial \/ e.start = 0) /\ (r.partial \/ r.start = 0)
  BY DEF Entry
<1>3. QED
  BY <1>1, <1>2

(* Fewer rows, and fewer pending entries, keep the order.                  *)
LEMMA BeforeFewer ==
  ASSUME NEW d, NEW b, NEW n, Before(d, b, n), NEW c, c \subseteq d, NEW a, a \subseteq b
  PROVE  Before(c, a, n)
BY DEF Before, Single

LEMMA PendingFewer ==
  ASSUME NEW b, NEW n, Pending(b, n), NEW a, a \subseteq b
  PROVE  Pending(a, n)
BY DEF Pending, Single

(* When entries P set before the entries R are written over older rows,    *)
(* what is there is P and the rows of other representations.               *)
LEMMA WrittenIs ==
  ASSUME NEW d, NEW b, NEW n, Before(d, b, n), Pending(b, n),
         NEW P, P \subseteq b
  PROVE  Written(d, P) = P \cup {r \in d : \A e \in P : Ident(e) # Ident(r)}
<1>1. \A e \in P, r \in P : e.seq > r.seq => ~Supersedes(e, r)
  <2>1. SUFFICES ASSUME NEW e \in P, NEW r \in P, e.seq > r.seq, Supersedes(e, r)
                 PROVE  FALSE
    OBVIOUS
  <2>2. e \in Entry /\ r \in Entry
    BY DEF Pending
  <2>3. e = r
    BY <2>1, <2>2, SameIdent DEF Pending, Single
  <2>4. e.seq \in Int
    BY <2>2 DEF Entry
  <2>5. QED
    BY <2>1, <2>3, <2>4
<1>2. \A e \in P, r \in d : (e.seq > r.seq /\ Supersedes(e, r)) <=> Ident(e) = Ident(r)
  <2>1. SUFFICES ASSUME NEW e \in P, NEW r \in d
                 PROVE  (e.seq > r.seq /\ Supersedes(e, r)) <=> Ident(e) = Ident(r)
    OBVIOUS
  <2>2. e \in Entry /\ r \in Entry /\ r.seq < e.seq
    BY DEF Pending, Before
  <2>3. e.seq \in Int /\ r.seq \in Int
    BY <2>2 DEF Entry
  <2>4. QED
    BY <2>2, <2>3, SameIdent
<1>3. QED
  BY <1>1, <1>2 DEF Written

LEMMA WrittenBefore ==
  ASSUME NEW d, NEW b, NEW n, Before(d, b, n), Pending(b, n),
         NEW P, P \subseteq b, NEW R, R \subseteq b,
         \A p \in P, r \in R : p.seq < r.seq
  PROVE  Before(Written(d, P), R, n)
<1>1. Written(d, P) = P \cup {r \in d : \A e \in P : Ident(e) # Ident(r)}
  BY WrittenIs
<1>2. Single(Written(d, P))
  BY <1>1 DEF Single, Before, Pending
<1>3. QED
  BY <1>1, <1>2 DEF Before, Pending

-----------------------------------------------------------------------------
(* What a flush may come to.                                               *)

(* A transaction splits the batch: what it attempts was set before what    *)
(* it leaves, and it attempts something.                                   *)
LEMMA FirstAndRest ==
  ASSUME NEW n, Pending(batch, n), NEW last \in batch
  PROVE  /\ First(last) \subseteq batch /\ Rest(last) \subseteq batch
         /\ batch = First(last) \cup Rest(last)
         /\ last \in First(last) /\ last \notin Rest(last)
         /\ \A p \in First(last), r \in Rest(last) : p.seq < r.seq
<1>1. \A e \in batch : e.seq \in Int
  BY DEF Pending, Entry
<1>2. QED
  BY <1>1 DEF First, Rest

(* The forms of an outcome, and what each takes to happen.                 *)
LEMMA OutcomeForms ==
  ASSUME NEW final, NEW o \in Outcomes(final)
  PROVE  \/ batch = {} /\ o = Result(db, saved, {}, {})
         \/ \E last \in Slices(final), E \in Evictions(Committed) :
              o = Result(Written(Committed \ E, First(last)), NoTx, Rest(last), {})
         \/ WritesFail /\ o = Result(Committed, NoTx, {}, batch)
         \/ WritesFail /\ \E last \in batch, E \in Evictions(Committed) :
              o = Result(Committed \ E, NoTx, Rest(last), First(last))
         \/ WritesFail /\ RollbackFails /\ o = Result(db, saved, {}, batch)
         \/ WritesFail /\ RollbackFails /\ \E last \in batch : \E d \in Partly(Committed, last) :
              o = Result(d, Committed, Rest(last), First(last))
<1>1. CASE batch = {}
  BY <1>1 DEF Outcomes
<1>2. CASE batch # {} /\ o \in Flushed(final)
  <2>1. \E last \in Slices(final), E \in Evictions(Committed) :
          o = Result(Written(Committed \ E, First(last)), NoTx, Rest(last), {})
    BY <1>2 DEF Flushed
  <2>2. QED
    BY <2>1
<1>3. CASE batch # {} /\ o \in Failed(final)
  <2>1. WritesFail
    BY <1>3 DEF Failed
  <2>2. \/ o \in {Result(Committed, NoTx, {}, batch)}
        \/ o \in {Result(Committed \ E, NoTx, Rest(last), First(last)) :
                   last \in batch, E \in Evictions(Committed)}
        \/ RollbackFails /\ o \in {Result(db, saved, {}, batch)}
        \/ RollbackFails /\ o \in UNION {{Result(d, Committed, Rest(last), First(last)) :
                                          d \in Partly(Committed, last)} : last \in batch}
    BY <1>3, <2>1 DEF Failed
  <2>3. QED
    BY <2>1, <2>2
<1>4. QED
  BY <1>1, <1>2, <1>3 DEF Outcomes

LEMMA PartlyBefore ==
  ASSUME NEW n, NEW d, Before(d, batch, n), Pending(batch, n),
         NEW last \in batch, NEW c \in Partly(d, last)
  PROVE  Before(c, Rest(last), n)
<1> DEFINE prior == Written(d, First(last) \ {last})
<1>1. /\ First(last) \subseteq batch /\ Rest(last) \subseteq batch
      /\ \A p \in First(last), r \in Rest(last) : p.seq < r.seq
  BY FirstAndRest
<1>2. Before(prior, Rest(last), n)
  BY <1>1, WrittenBefore
<1>3. Before(Written(d, First(last)), Rest(last), n)
  BY <1>1, WrittenBefore
<1>4. Before({r \in prior : ~Supersedes(last, r)}, Rest(last), n)
  BY <1>2, BeforeFewer
<1>5. QED
  BY <1>2, <1>3, <1>4 DEF Partly

(* Whatever a flush comes to, the rows it leaves were set before the       *)
(* entries it leaves, and it leaves fewer entries than it found.           *)
LEMMA OutcomeIsOrdered ==
  ASSUME NEW n, Before(db, batch, n), Before(Committed, batch, n), Pending(batch, n),
         NEW final, NEW o \in Outcomes(final)
  PROVE  /\ Before(o.db, o.batch, n)
         /\ Before(IF o.saved = NoTx THEN o.db ELSE o.saved, o.batch, n)
         /\ o.saved = NoTx \/ o.saved = saved \/ o.saved = Committed
         /\ o.batch \subseteq batch
         /\ o.dropped \subseteq batch
         /\ batch # {} => \E e \in batch : e \notin o.batch
<1>1. CASE batch = {} /\ o = Result(db, saved, {}, {})
  BY <1>1 DEF Result, Committed
<1>2. CASE \E last \in Slices(final), E \in Evictions(Committed) :
             o = Result(Written(Committed \ E, First(last)), NoTx, Rest(last), {})
  <2>1. PICK last \in Slices(final), E \in Evictions(Committed) :
          o = Result(Written(Committed \ E, First(last)), NoTx, Rest(last), {})
    BY <1>2
  <2>2. last \in batch
    BY DEF Slices
  <2>3. Before(Committed \ E, batch, n)
    BY BeforeFewer
  <2>4. /\ First(last) \subseteq batch /\ Rest(last) \subseteq batch /\ last \notin Rest(last)
        /\ \A p \in First(last), r \in Rest(last) : p.seq < r.seq
    BY <2>2, FirstAndRest
  <2>5. Before(Written(Committed \ E, First(last)), Rest(last), n)
    BY <2>3, <2>4, WrittenBefore
  <2>6. QED
    BY <2>1, <2>2, <2>4, <2>5 DEF Result
<1>3. CASE o = Result(Committed, NoTx, {}, batch)
  <2>1. Before(Committed, {}, n)
    BY BeforeFewer
  <2>2. QED
    BY <1>3, <2>1 DEF Result
<1>4. CASE \E last \in batch, E \in Evictions(Committed) :
             o = Result(Committed \ E, NoTx, Rest(last), First(last))
  <2>1. PICK last \in batch, E \in Evictions(Committed) :
          o = Result(Committed \ E, NoTx, Rest(last), First(last))
    BY <1>4
  <2>2. /\ First(last) \subseteq batch /\ Rest(last) \subseteq batch /\ last \notin Rest(last)
    BY FirstAndRest
  <2>3. Before(Committed \ E, Rest(last), n)
    BY <2>2, BeforeFewer
  <2>4. QED
    BY <2>1, <2>2, <2>3 DEF Result
<1>5. CASE o = Result(db, saved, {}, batch)
  <2>1. Before(db, {}, n) /\ Before(Committed, {}, n)
    BY BeforeFewer
  <2>2. QED
    BY <1>5, <2>1 DEF Result, Committed
<1>6. CASE \E last \in batch : \E d \in Partly(Committed, last) :
             o = Result(d, Committed, Rest(last), First(last))
  <2>0. PICK last \in batch : \E d \in Partly(Committed, last) :
          o = Result(d, Committed, Rest(last), First(last))
    BY <1>6
  <2>1. PICK d \in Partly(Committed, last) :
          o = Result(d, Committed, Rest(last), First(last))
    BY <2>0
  <2>2. /\ First(last) \subseteq batch /\ Rest(last) \subseteq batch /\ last \notin Rest(last)
    BY FirstAndRest
  <2>3. Before(d, Rest(last), n) /\ Before(Committed, Rest(last), n)
    BY <2>2, BeforeFewer, PartlyBefore
  <2>4. QED
    BY <2>1, <2>2, <2>3 DEF Result
<1>7. QED
  BY <1>1, <1>2, <1>3, <1>4, <1>5, <1>6, OutcomeForms

-----------------------------------------------------------------------------
(* The inductive invariant.                                                *)

(* The entry that set() makes.                                             *)
Made(t, date, deleteAt, n) ==
  [url |-> t.url, method |-> t.method, vary |-> t.vary, partial |-> t.partial,
   start |-> t.start, end |-> t.end, date |-> date, deleteAt |-> deleteAt, seq |-> n]

LEMMA MadeIsEntry ==
  ASSUME NEW t \in Templates, NEW date \in Dates, NEW deleteAt \in Expiries,
         NEW n \in 1..MaxSets
  PROVE  Made(t, date, deleteAt, n) \in Entry
<1>1. Ident(Made(t, date, deleteAt, n)) = Ident(t)
  BY DEF Ident, Made
<1>2. t.partial \in BOOLEAN /\ t.start \in Nat /\ t.end \in Nat /\ (t.partial \/ t.start = 0)
  BY StoreAssumption
<1>3. QED
  BY <1>1, <1>2 DEF Entry, Made, Idents, Urls

LEMMA SetIs ==
  ASSUME NEW t, NEW date, NEW deleteAt, Set(t, date, deleteAt)
  PROVE  LET e == Made(t, date, deleteAt, seq + 1)
         IN /\ ~closed /\ seq < MaxSets /\ seq' = seq + 1
            /\ scheduled' = IF batch = {} THEN scheduled + 1 ELSE scheduled
            /\ batch' = {o \in batch : ~Supersedes(e, o)} \cup {e}
            /\ latest' = [latest EXCEPT ![Ident(e)] = seq']
            /\ lost' = lost \ {Ident(e)}
            /\ UNCHANGED <<db, saved, closed, now, deleted>>
BY DEF Set, Made, Enqueue

LEMMA StoreInvInit == Init => StoreInv
<1>1. SUFFICES ASSUME Init PROVE StoreInv
  OBVIOUS
<1>2. TypeOK
  <2>1. 0 \in 0..MaxSets /\ 0 \in 0..MaxTime
    BY StoreAssumption
  <2>2. latest \in [Idents -> 0..MaxSets] /\ deleted \in [Urls -> 0..MaxSets]
    BY <1>1, <2>1 DEF Init
  <2>3. QED
    BY <1>1, <2>1, <2>2 DEF Init, TypeOK
<1>3. Before(db, batch, seq) /\ Before(Committed, batch, seq) /\ Pending(batch, seq)
  BY <1>1 DEF Init, Before, Pending, Single, Committed
<1>4. Scheduled(seq, batch)
  BY <1>1 DEF Init, Scheduled
<1>5. QED
  BY <1>2, <1>3, <1>4 DEF StoreInv

(* The new entry is the last of the batch, and the only one of its         *)
(* representation there.                                                   *)
LEMMA SetKeepsInv ==
  ASSUME StoreInv, NEW t \in Templates, NEW date \in Dates, NEW deleteAt \in Expiries,
         Set(t, date, deleteAt)
  PROVE  StoreInv'
<1> DEFINE e == Made(t, date, deleteAt, seq + 1)
<1>1. /\ ~closed /\ seq < MaxSets /\ seq' = seq + 1
      /\ scheduled' = IF batch = {} THEN scheduled + 1 ELSE scheduled
      /\ batch' = {o \in batch : ~Supersedes(e, o)} \cup {e}
      /\ latest' = [latest EXCEPT ![Ident(e)] = seq']
      /\ lost' = lost \ {Ident(e)}
      /\ UNCHANGED <<db, saved, closed, now, deleted>>
  BY SetIs
<1>2. seq \in Nat /\ seq' \in 1..MaxSets /\ MaxSets \in Nat
  BY <1>1, StoreAssumption DEF StoreInv, TypeOK
<1>3. e \in Entry /\ e.seq = seq'
  <2>1. e \in Entry
    BY <1>1, <1>2, MadeIsEntry
  <2>2. QED
    BY <1>1, <2>1 DEF Made
<1> HIDE DEF e
<1>4. \A o \in db \cup batch \cup Committed : o \in Entry /\ o.seq <= seq /\ o.seq \in Nat
  <2>1. \A o \in db \cup batch \cup Committed : o \in Entry /\ o.seq <= seq
    BY DEF StoreInv, Before, Pending
  <2>2. QED
    BY <2>1 DEF Entry
<1>5. Pending(batch', seq')
  <2>1. batch' \subseteq Entry
    BY <1>1, <1>3, <1>4
  <2>2. Single(batch')
    <3>1. Single(batch)
      BY DEF StoreInv, Pending
    <3>2. \A o \in batch' : o = e \/ (o \in batch /\ Ident(o) # Ident(e))
      BY <1>1, <1>3, <1>4, SameIdent
    <3>3. QED
      BY <3>1, <3>2 DEF Single
  <2>3. \A o \in batch' : o.seq <= seq'
    BY <1>1, <1>2, <1>3, <1>4
  <2>4. QED
    BY <2>1, <2>2, <2>3 DEF Pending
<1>6. ASSUME NEW d, Before(d, batch, seq), d \subseteq db \cup Committed
      PROVE  Before(d, batch', seq')
  <2>1. \A r \in d : r.seq <= seq' /\ r.seq < e.seq
    BY <1>1, <1>2, <1>3, <1>4, <1>6
  <2>2. QED
    BY <1>1, <1>6, <2>1 DEF Before
<1>7. Before(db', batch', seq') /\ Before(Committed', batch', seq')
  <2>1. db' = db /\ Committed' = Committed
    BY <1>1 DEF Committed
  <2>2. QED
    BY <1>6, <2>1 DEF StoreInv
<1>8. Scheduled(seq, batch)'
  <2>1. scheduled \in 0..seq
    BY DEF StoreInv, Scheduled
  <2>2. scheduled' \in 0..seq'
    BY <1>1, <1>2, <2>1
  <2>3. ASSUME NEW x \in batch', NEW y \in batch', x # y PROVE scheduled' < seq'
    <3>1. batch # {}
      BY <1>1, <2>3
    <3>2. QED
      BY <1>1, <1>2, <2>1, <3>1
  <2>4. QED
    BY <2>2, <2>3 DEF Scheduled
<1>9. TypeOK'
  <2>1. Ident(e) \in Idents
    BY <1>3 DEF Entry
  <2>2. latest' \in [Idents -> 0..MaxSets] /\ lost' \subseteq Idents
    BY <1>1, <1>2, <2>1 DEF StoreInv, TypeOK
  <2>3. scheduled' \in 0..MaxSets
    BY <1>2, <1>8 DEF Scheduled
  <2>4. QED
    BY <1>1, <1>2, <1>5, <2>2, <2>3 DEF StoreInv, TypeOK, Pending, Single
<1>10. QED
  BY <1>5, <1>7, <1>8, <1>9 DEF StoreInv

(* A step that adds nothing to the batch keeps the invariant when it keeps *)
(* the rows, before and after an open transaction, in their order.         *)
LEMMA ShrinkKeepsInv ==
  ASSUME StoreInv,
         seq' = seq, batch' \subseteq batch, Scheduled(seq, batch)',
         Before(db', batch', seq), Before(Committed', batch', seq),
         saved' \in {NoTx, saved, Committed}, closed' \in BOOLEAN, now' \in 0..MaxTime,
         latest' \in [Idents -> 0..MaxSets], lost' \subseteq Idents,
         deleted' \in [Urls -> 0..MaxSets]
  PROVE  StoreInv'
<1>1. Pending(batch', seq')
  BY PendingFewer DEF StoreInv
<1>2. saved' = NoTx \/ saved' \subseteq Entry
  BY DEF StoreInv, TypeOK, Before
<1>3. scheduled' \in 0..MaxSets
  BY StoreAssumption DEF StoreInv, TypeOK, Scheduled
<1>4. TypeOK'
  BY <1>1, <1>2, <1>3 DEF StoreInv, TypeOK, Before, Pending, Single
<1>5. QED
  BY <1>1, <1>4 DEF StoreInv

LEMMA StoreTypes ==
  ASSUME StoreInv
  PROVE  /\ seq \in 0..MaxSets /\ closed \in BOOLEAN /\ now \in 0..MaxTime
         /\ latest \in [Idents -> 0..MaxSets] /\ lost \subseteq Idents
         /\ deleted \in [Urls -> 0..MaxSets]
         /\ \A e \in batch : Ident(e) \in Idents
         /\ scheduled \in 0..seq /\ MaxSets \in Nat
BY StoreAssumption DEF StoreInv, TypeOK, Entry, Scheduled

LEMMA DeleteKeepsInv ==
  ASSUME StoreInv, NEW u \in Urls, Delete(u)
  PROVE  StoreInv'
<1>1. batch' \subseteq batch /\ db' \subseteq db /\ UNCHANGED <<saved, scheduled, closed, now, seq>>
  BY DEF Delete, Purged
<1>2. Before(db', batch', seq) /\ Before(Committed', batch', seq)
  <2>1. Committed' = db' \/ Committed' = Committed
    BY <1>1 DEF Committed
  <2>2. QED
    BY <1>1, <2>1, BeforeFewer DEF StoreInv
<1>3. /\ latest' \in [Idents -> 0..MaxSets] /\ lost' \subseteq Idents
      /\ deleted' \in [Urls -> 0..MaxSets]
  <2>1. CASE /\ latest' = [i \in Idents |-> IF i.url = u THEN 0 ELSE latest[i]]
             /\ deleted' = [deleted EXCEPT ![u] = seq] /\ lost' = lost
    BY <2>1, StoreTypes
  <2>2. CASE lost' = lost \cup {i \in Idents : i.url = u} /\ latest' = latest /\ deleted' = deleted
    BY <2>2, StoreTypes
  <2>3. QED
    BY <2>1, <2>2 DEF Delete
<1>4. Scheduled(seq, batch)'
  BY <1>1 DEF StoreInv, Scheduled
<1>5. QED
  BY <1>1, <1>2, <1>3, <1>4, StoreTypes, ShrinkKeepsInv

LEMMA ClearKeepsInv ==
  ASSUME StoreInv, Clear
  PROVE  StoreInv'
<1>1. batch' = {} /\ db' \subseteq db /\ UNCHANGED <<saved, scheduled, closed, now, seq>>
  BY DEF Clear
<1>2. Before(db', batch', seq) /\ Before(Committed', batch', seq)
  <2>1. Committed' = db' \/ Committed' = Committed
    BY <1>1 DEF Committed
  <2>2. QED
    BY <1>1, <2>1, BeforeFewer DEF StoreInv
<1>3. /\ latest' \in [Idents -> 0..MaxSets] /\ lost' \subseteq Idents
      /\ deleted' \in [Urls -> 0..MaxSets]
  <2>1. CASE lost' = lost \cup {Ident(e) : e \in batch} /\ latest' = latest /\ deleted' = deleted
    BY <2>1, StoreTypes
  <2>2. CASE latest' = [i \in Idents |-> 0] /\ deleted' = [u \in Urls |-> seq] /\ lost' = lost
    BY <2>2, StoreTypes
  <2>3. CASE lost' = Idents /\ latest' = latest /\ deleted' = deleted
    BY <2>3, StoreTypes
  <2>4. QED
    BY <2>1, <2>2, <2>3 DEF Clear
<1>4. Scheduled(seq, batch)'
  BY <1>1 DEF StoreInv, Scheduled
<1>5. QED
  BY <1>1, <1>2, <1>3, <1>4, StoreTypes, ShrinkKeepsInv

LEMMA GcKeepsInv ==
  ASSUME StoreInv, Gc
  PROVE  StoreInv'
<1>1. db' \subseteq db /\ UNCHANGED <<saved, batch, scheduled, closed, now, seq, latest, lost, deleted>>
  BY DEF Gc
<1>2. Before(db', batch', seq) /\ Before(Committed', batch', seq)
  <2>1. Committed' = db' \/ Committed' = Committed
    BY <1>1 DEF Committed
  <2>2. QED
    BY <1>1, <2>1, BeforeFewer DEF StoreInv
<1>3. Scheduled(seq, batch)'
  BY <1>1 DEF StoreInv, Scheduled
<1>4. QED
  BY <1>1, <1>2, <1>3, StoreTypes, ShrinkKeepsInv

LEMMA DroppedIdents ==
  ASSUME StoreInv, NEW D, D \subseteq batch
  PROVE  lost \cup {Ident(e) : e \in D} \subseteq Idents
BY StoreTypes

LEMMA FlushKeepsInv ==
  ASSUME StoreInv, Flush
  PROVE  StoreInv'
<1>1. scheduled > 0 /\ UNCHANGED <<closed, now, seq, latest, deleted>>
  BY DEF Flush
<1>2. CASE closed
  <2>1. /\ batch' = {} /\ scheduled' = scheduled - 1
        /\ lost' = lost \cup {Ident(e) : e \in batch} /\ UNCHANGED <<db, saved>>
    BY <1>2 DEF Flush
  <2>2. Before(db', batch', seq) /\ Before(Committed', batch', seq)
    <3>1. Committed' = Committed
      BY <2>1 DEF Committed
    <3>2. QED
      BY <2>1, <3>1, BeforeFewer DEF StoreInv
  <2>3. Scheduled(seq, batch)'
    BY <1>1, <2>1, StoreTypes DEF Scheduled
  <2>4. lost' \subseteq Idents
    BY <2>1, DroppedIdents
  <2>5. QED
    BY <1>1, <2>1, <2>2, <2>3, <2>4, StoreTypes, ShrinkKeepsInv
<1>3. CASE ~closed
  <2>1. PICK o \in Outcomes(FALSE) :
          /\ db' = o.db /\ saved' = o.saved /\ batch' = o.batch
          /\ scheduled' = scheduled - 1 + Reschedule(o.batch)
          /\ lost' = lost \cup {Ident(e) : e \in o.dropped}
    BY <1>3 DEF Flush
  <2>2. /\ Before(o.db, o.batch, seq)
        /\ Before(IF o.saved = NoTx THEN o.db ELSE o.saved, o.batch, seq)
        /\ o.saved = NoTx \/ o.saved = saved \/ o.saved = Committed
        /\ o.batch \subseteq batch /\ o.dropped \subseteq batch
    BY OutcomeIsOrdered DEF StoreInv
  <2>3. Before(db', batch', seq) /\ Before(Committed', batch', seq)
    BY <2>1, <2>2 DEF Committed
  <2>4. Scheduled(seq, batch)'
    <3>1. scheduled' \in 0..scheduled
      BY <1>1, <2>1, StoreTypes DEF Reschedule
    <3>2. \A x, y \in batch' : x = y \/ scheduled' < seq
      BY <1>3, <2>1, <2>2, <3>1, StoreTypes DEF StoreInv, Scheduled
    <3>3. QED
      BY <1>1, <3>1, <3>2, StoreTypes DEF Scheduled
  <2>5. lost' \subseteq Idents
    BY <2>1, <2>2, DroppedIdents
  <2>6. QED
    BY <1>1, <2>1, <2>2, <2>3, <2>4, <2>5, StoreTypes, ShrinkKeepsInv
<1>4. QED
  BY <1>2, <1>3

LEMMA CloseKeepsInv ==
  ASSUME StoreInv, Close
  PROVE  StoreInv'
<1>1. ~closed /\ saved' = NoTx /\ closed' = TRUE /\ UNCHANGED <<now, seq, latest, deleted>>
  BY DEF Close
<1>2. PICK o \in Outcomes(TRUE) :
        /\ db' = IF o.saved = NoTx THEN o.db ELSE o.saved
        /\ batch' = o.batch
        /\ scheduled' = scheduled + Reschedule(o.batch)
        /\ lost' = lost \cup {Ident(e) : e \in o.dropped}
  BY DEF Close
<1>3. /\ Before(IF o.saved = NoTx THEN o.db ELSE o.saved, o.batch, seq)
      /\ o.batch \subseteq batch /\ o.dropped \subseteq batch
      /\ batch # {} => \E e \in batch : e \notin o.batch
  BY OutcomeIsOrdered DEF StoreInv
<1>4. Before(db', batch', seq) /\ Before(Committed', batch', seq)
  BY <1>1, <1>2, <1>3 DEF Committed
<1>5. Scheduled(seq, batch)'
  <2>1. CASE o.batch = {}
    BY <1>1, <1>2, <2>1, StoreTypes DEF Scheduled, Reschedule
  <2>2. CASE o.batch # {}
    <3>1. PICK x \in batch, y \in batch : x # y
      BY <1>3, <2>2
    <3>2. scheduled < seq
      BY <1>1, <3>1 DEF StoreInv, Scheduled
    <3>3. QED
      BY <1>1, <1>2, <2>2, <3>2, StoreTypes DEF Scheduled, Reschedule
  <2>3. QED
    BY <2>1, <2>2
<1>6. lost' \subseteq Idents
  BY <1>2, <1>3, DroppedIdents
<1>7. QED
  BY <1>1, <1>2, <1>3, <1>4, <1>5, <1>6, StoreTypes, ShrinkKeepsInv

LEMMA OpenKeepsInv ==
  ASSUME StoreInv, Open
  PROVE  StoreInv'
<1>1. /\ closed' = FALSE /\ db' = Committed /\ saved' = NoTx /\ batch' = {} /\ scheduled' = 0
      /\ lost' = lost \cup {Ident(e) : e \in batch}
      /\ UNCHANGED <<now, seq, latest, deleted>>
  BY DEF Open
<1>2. Before(db', batch', seq) /\ Before(Committed', batch', seq)
  <2>1. Committed' = Committed
    BY <1>1 DEF Committed
  <2>2. QED
    BY <1>1, <2>1, BeforeFewer DEF StoreInv
<1>3. Scheduled(seq, batch)'
  BY <1>1, StoreTypes DEF Scheduled
<1>4. lost' \subseteq Idents
  BY <1>1, DroppedIdents
<1>5. QED
  BY <1>1, <1>2, <1>3, <1>4, StoreTypes, ShrinkKeepsInv

LEMMA TickKeepsInv ==
  ASSUME StoreInv, Tick
  PROVE  StoreInv'
<1>1. /\ now' \in 0..MaxTime
      /\ UNCHANGED <<db, saved, batch, scheduled, closed, seq, latest, lost, deleted>>
  BY StoreTypes, StoreAssumption DEF Tick
<1>2. Before(db', batch', seq) /\ Before(Committed', batch', seq) /\ Scheduled(seq, batch)'
  BY <1>1 DEF StoreInv, Committed, Scheduled
<1>3. QED
  BY <1>1, <1>2, StoreTypes, ShrinkKeepsInv

LEMMA StutterKeepsInv ==
  ASSUME StoreInv, UNCHANGED vars
  PROVE  StoreInv'
<1>1. UNCHANGED <<db, saved, batch, scheduled, closed, now, seq, latest, lost, deleted>>
  BY DEF vars
<1>2. Before(db', batch', seq) /\ Before(Committed', batch', seq) /\ Scheduled(seq, batch)'
  BY <1>1 DEF StoreInv, Committed, Scheduled
<1>3. QED
  BY <1>1, <1>2, StoreTypes, ShrinkKeepsInv

LEMMA StoreInvStep ==
  ASSUME StoreInv, [Next]_vars
  PROVE  StoreInv'
BY SetKeepsInv, DeleteKeepsInv, ClearKeepsInv, GcKeepsInv, FlushKeepsInv, CloseKeepsInv,
   OpenKeepsInv, TickKeepsInv, StutterKeepsInv DEF Next

(* The rows and the pending entries keep their types, one for each         *)
(* representation, and their order, whatever fails, for every instance.    *)
THEOREM StoreInvariance == Spec => []StoreInv
<1>1. Init => StoreInv
  BY StoreInvInit
<1>2. StoreInv /\ [Next]_vars => StoreInv'
  BY StoreInvStep
<1>3. QED
  BY <1>1, <1>2, PTL DEF Spec

(* Replacing a hot response accumulates neither rows nor pending entries,  *)
(* and no more flushes are scheduled than sets were.                       *)
THEOREM StoreTypeCorrect == Spec => []TypeOK
<1>1. StoreInv => TypeOK
  BY DEF StoreInv
<1>2. QED
  BY <1>1, StoreInvariance, PTL

-----------------------------------------------------------------------------
(* Lookups.                                                                *)

(* A lookup before and after a transaction chooses among the same          *)
(* responses: the rows a transaction replaces are those the lookup had     *)
(* already left out for the pending entries.                               *)
LEMMA SameCandidates ==
  ASSUME NEW n, Before(db, batch, n), Pending(batch, n), NEW last \in batch,
         NEW u, NEW m, NEW from
  PROVE  Candidates(Written(db, First(last)), Rest(last), u, m, from)
           = Candidates(db, batch, u, m, from)
<1> DEFINE P == First(last)
           R == Rest(last)
<1>1. P \subseteq batch /\ R \subseteq batch /\ batch = P \cup R
      /\ \A p \in P, r \in R : p.seq < r.seq
  BY FirstAndRest
<1> HIDE DEF P, R
<1>2. Written(db, P) = P \cup {r \in db : \A e \in P : Ident(e) # Ident(r)}
  BY <1>1, WrittenIs
<1>3. db \subseteq Entry /\ batch \subseteq Entry /\ Single(batch)
      /\ (\A p \in P, r \in R : Ident(p) # Ident(r))
  <2>1. db \subseteq Entry /\ batch \subseteq Entry /\ Single(batch)
    BY DEF Before, Pending
  <2>2. ASSUME NEW p \in P, NEW r \in R PROVE Ident(p) # Ident(r)
    <3>1. p \in batch /\ r \in batch /\ p.seq < r.seq /\ p.seq \in Int
      BY <1>1, <2>1 DEF Entry
    <3>2. p # r
      BY <3>1
    <3>3. QED
      BY <2>1, <3>1, <3>2 DEF Single
  <2>3. QED
    BY <2>1, <2>2
<1>4. ASSUME NEW v PROVE v \in Candidates(Written(db, P), R, u, m, from)
                         => v \in Candidates(db, batch, u, m, from)
  <2>1. SUFFICES ASSUME v \in Candidates(Written(db, P), R, u, m, from)
                 PROVE  v \in Candidates(db, batch, u, m, from)
    OBVIOUS
  <2>2. v.url = u /\ v.method = m /\ v.start <= from /\ v.deleteAt > now
    BY <2>1 DEF Candidates
  <2>3. CASE v \in batch
    BY <2>2, <2>3 DEF Candidates
  <2>4. CASE v \notin batch
    <3>1. v \in Written(db, P) /\ ~Shadowed(v, R, from)
      BY <1>1, <2>1, <2>4 DEF Candidates
    <3>2. v \in db /\ \A e \in P : Ident(e) # Ident(v)
      BY <1>1, <1>2, <2>4, <3>1
    <3>3. ~Shadowed(v, batch, from)
      BY <1>1, <3>1, <3>2 DEF Shadowed
    <3>4. QED
      BY <2>2, <3>2, <3>3 DEF Candidates
  <2>5. QED
    BY <2>3, <2>4
<1>5. ASSUME NEW v PROVE v \in Candidates(db, batch, u, m, from)
                         => v \in Candidates(Written(db, P), R, u, m, from)
  <2>1. SUFFICES ASSUME v \in Candidates(db, batch, u, m, from)
                 PROVE  v \in Candidates(Written(db, P), R, u, m, from)
    OBVIOUS
  <2>2. v.url = u /\ v.method = m /\ v.start <= from /\ v.deleteAt > now
    BY <2>1 DEF Candidates
  <2>3. CASE v \in R
    BY <2>2, <2>3 DEF Candidates
  <2>4. CASE v \in P
    <3>1. v \in Written(db, P) /\ ~Shadowed(v, R, from)
      BY <1>2, <1>3, <2>4 DEF Shadowed
    <3>2. QED
      BY <2>2, <3>1 DEF Candidates
  <2>5. CASE v \notin batch
    <3>1. v \in db /\ ~Shadowed(v, batch, from)
      BY <2>1, <2>5 DEF Candidates
    <3>2. ASSUME NEW e \in batch, Ident(e) = Ident(v) PROVE FALSE
      <4>1. e.start = v.start /\ e.url = v.url /\ e.method = v.method
        BY <1>3, <3>1, <3>2, SameStart
      <4>2. QED
        BY <2>2, <3>1, <3>2, <4>1 DEF Shadowed
    <3>3. v \in Written(db, P) /\ ~Shadowed(v, R, from)
      BY <1>1, <1>2, <3>1, <3>2 DEF Shadowed
    <3>4. QED
      BY <2>2, <3>3 DEF Candidates
  <2>6. QED
    BY <1>1, <2>3, <2>4, <2>5
<1>6. QED
  BY <1>4, <1>5 DEF P, R

LEMMA FlushIsInvisibleHolds == StoreInv => FlushIsInvisible
<1>1. SUFFICES ASSUME StoreInv, NEW q \in Lookups, NEW last \in batch
               PROVE  Found(Written(db, First(last)), Rest(last), q) = Found(db, batch, q)
  BY DEF FlushIsInvisible
<1>2. \A u, m, from : Candidates(Written(db, First(last)), Rest(last), u, m, from)
                       = Candidates(db, batch, u, m, from)
  BY <1>1, SameCandidates DEF StoreInv
<1>3. QED
  BY <1>2 DEF Found

(* get() never changes its answer merely because the batch, or any first   *)
(* part of it, was flushed, whatever has failed before.                    *)
THEOREM FlushesAreInvisible == Spec => []FlushIsInvisible
BY StoreInvariance, FlushIsInvisibleHolds, PTL

(* What is found is pending, or a row that no pending entry replaces.      *)
LEMMA FoundIs ==
  ASSUME StoreInv, NEW q, NEW v \in Found(db, batch, q)
  PROVE  v \in batch \/ (v \in db /\ \A e \in batch : Ident(e) # Ident(v))
<1>1. PICK from : v \in Candidates(db, batch, q.url, q.method, from)
  BY DEF Found
<1>2. CASE v \notin batch
  <2>1. v \in db /\ ~Shadowed(v, batch, from) /\ v.start <= from
    BY <1>1, <1>2 DEF Candidates
  <2>2. ASSUME NEW e \in batch, Ident(e) = Ident(v) PROVE FALSE
    <3>1. e \in Entry /\ v \in Entry
      BY <2>1 DEF StoreInv, Before, Pending
    <3>2. e.start = v.start /\ e.url = v.url /\ e.method = v.method
      BY <2>2, <3>1, SameStart
    <3>3. QED
      BY <2>1, <2>2, <3>2 DEF Shadowed
  <2>3. QED
    BY <2>1, <2>2
<1>3. QED
  BY <1>2

-----------------------------------------------------------------------------
(* While every ROLLBACK succeeds.                                          *)

LEMMA RolledBackOutcome ==
  ASSUME ~RollbackFails, RolledBackInv, NEW final, NEW o \in Outcomes(final)
  PROVE  /\ o.saved = NoTx /\ o.db \subseteq db \cup batch /\ o.batch \subseteq batch
         /\ Current(o.db, o.batch, latest, lost \cup {Ident(e) : e \in o.dropped})
<1>1. /\ Committed = db /\ Before(db, batch, seq) /\ Pending(batch, seq)
      /\ Current(db, batch, latest, lost) /\ saved = NoTx
  BY DEF RolledBackInv, StoreInv, Committed
<1>2. CASE o = Result(db, saved, {}, {}) /\ batch = {}
  BY <1>1, <1>2 DEF Result, Current
<1>3. CASE \E last \in Slices(final), E \in Evictions(Committed) :
             o = Result(Written(Committed \ E, First(last)), NoTx, Rest(last), {})
  <2>1. PICK last \in Slices(final), E \in Evictions(Committed) :
          o = Result(Written(Committed \ E, First(last)), NoTx, Rest(last), {})
    BY <1>3
  <2>2. last \in batch
    BY DEF Slices
  <2>3. /\ First(last) \subseteq batch /\ Rest(last) \subseteq batch
        /\ batch = First(last) \cup Rest(last)
    BY <1>1, <2>2, FirstAndRest
  <2>4. Before(db \ E, batch, seq)
    BY <1>1, BeforeFewer
  <2>5. o.db = First(last) \cup {r \in db \ E : \A e \in First(last) : Ident(e) # Ident(r)}
    BY <1>1, <2>1, <2>3, <2>4, WrittenIs DEF Result
  <2>6. o.saved = NoTx /\ o.batch = Rest(last) /\ o.dropped = {}
    BY <2>1 DEF Result
  <2>7. Current(o.db, o.batch, latest, lost)
    BY <1>1, <2>3, <2>5, <2>6 DEF Current
  <2>8. lost \cup {Ident(e) : e \in o.dropped} = lost
    BY <2>6
  <2>9. QED
    BY <2>3, <2>5, <2>6, <2>7, <2>8
<1>4. CASE o = Result(Committed, NoTx, {}, batch)
  <2>1. o.db = db /\ o.saved = NoTx /\ o.batch = {} /\ o.dropped = batch
    BY <1>1, <1>4 DEF Result
  <2>2. QED
    BY <1>1, <2>1 DEF Current
<1>5. CASE \E last \in batch, E \in Evictions(Committed) :
             o = Result(Committed \ E, NoTx, Rest(last), First(last))
  <2>1. PICK last \in batch, E \in Evictions(Committed) :
          o = Result(Committed \ E, NoTx, Rest(last), First(last))
    BY <1>5
  <2>2. /\ First(last) \subseteq batch /\ Rest(last) \subseteq batch
        /\ batch = First(last) \cup Rest(last)
    BY <1>1, FirstAndRest
  <2>3. o.db = db \ E /\ o.saved = NoTx /\ o.batch = Rest(last) /\ o.dropped = First(last)
    BY <1>1, <2>1 DEF Result
  <2>4. QED
    BY <1>1, <2>2, <2>3 DEF Current
<1>6. QED
  BY <1>2, <1>3, <1>4, <1>5, OutcomeForms

LEMMA RolledBackInit == Init => RolledBackInv
<1>1. SUFFICES ASSUME Init PROVE RolledBackInv
  OBVIOUS
<1>2. StoreInv
  BY <1>1, StoreInvInit
<1>3. \A u \in Urls : deleted[u] <= seq
  BY <1>1 DEF Init
<1>4. QED
  BY <1>1, <1>2, <1>3 DEF Init, RolledBackInv, Current, Gone

LEMMA RolledBackSet ==
  ASSUME RolledBackInv, NEW t \in Templates, NEW date \in Dates, NEW deleteAt \in Expiries,
         Set(t, date, deleteAt)
  PROVE  RolledBackInv'
<1> DEFINE e == Made(t, date, deleteAt, seq + 1)
<1>1. /\ seq < MaxSets /\ seq' = seq + 1
      /\ batch' = {o \in batch : ~Supersedes(e, o)} \cup {e}
      /\ latest' = [latest EXCEPT ![Ident(e)] = seq']
      /\ lost' = lost \ {Ident(e)}
      /\ UNCHANGED <<db, saved, closed, now, deleted>>
  BY SetIs
<1>2. StoreInv /\ StoreInv'
  BY SetKeepsInv DEF RolledBackInv
<1>3. seq \in Nat /\ seq' \in 1..MaxSets /\ e.seq = seq'
  BY <1>1, <1>2, StoreTypes DEF Made
<1>4. e \in Entry
  BY <1>1, <1>3, MadeIsEntry
<1> HIDE DEF e
<1>5. /\ \A o \in db \cup batch : o \in Entry /\ Ident(o) \in Idents /\ o.url \in Urls
      /\ Ident(e) \in Idents /\ e.url \in Urls /\ latest \in [Idents -> 0..MaxSets]
  BY <1>2, <1>4, StoreTypes DEF StoreInv, Before, Pending, Entry
<1>6. Current(db', batch', latest', lost')
  <2>1. latest'[Ident(e)] = seq' /\ \A i \in Idents : i # Ident(e) => latest'[i] = latest[i]
    BY <1>1, <1>5
  <2>2. \A o \in batch' : o = e \/ (o \in batch /\ Ident(o) # Ident(e))
    BY <1>1, <1>4, <1>5, SameIdent
  <2>3. \A o \in batch : Ident(o) = Ident(e) \/ o \in batch'
    BY <1>1, <1>4, <1>5, SameIdent
  <2>4. Current(db, batch, latest, lost) /\ e \in batch'
    BY <1>1 DEF RolledBackInv
  <2>5. ASSUME NEW o \in batch' PROVE o.seq = latest'[Ident(o)] \/ Ident(o) \in lost'
    BY <1>1, <1>3, <1>5, <2>1, <2>2, <2>4 DEF Current
  <2>6. ASSUME NEW r \in db
        PROVE  r.seq = latest'[Ident(r)] \/ Ident(r) \in lost' \/ \E o \in batch' : Ident(o) = Ident(r)
    <3>1. CASE Ident(r) = Ident(e)
      BY <2>4, <3>1
    <3>2. CASE Ident(r) # Ident(e)
      BY <1>1, <1>5, <2>1, <2>3, <2>4, <3>2 DEF Current
    <3>3. QED
      BY <3>1, <3>2
  <2>7. QED
    BY <1>1, <2>5, <2>6 DEF Current
<1>7. deleted \in [Urls -> 0..MaxSets] /\ \A u \in Urls : deleted[u] <= seq
  BY <1>2, StoreTypes DEF RolledBackInv
<1>8. Gone(db', batch', deleted')
  BY <1>1, <1>3, <1>5, <1>7 DEF RolledBackInv, Gone
<1>9. \A u \in Urls : deleted'[u] <= seq'
  BY <1>1, <1>3, <1>7
<1>10. QED
  BY <1>1, <1>2, <1>6, <1>8, <1>9 DEF RolledBackInv

(* The facts that the other steps use.                                     *)
LEMMA RolledBackFacts ==
  ASSUME RolledBackInv
  PROVE  /\ \A o \in db \cup batch : o \in Entry /\ Ident(o) \in Idents /\ o.url \in Urls
                                     /\ Ident(o).url = o.url /\ o.seq \in Nat /\ o.seq > deleted[o.url]
         /\ \A e \in batch : e.seq = latest[Ident(e)] \/ Ident(e) \in lost
         /\ \A r \in db : \/ r.seq = latest[Ident(r)] \/ Ident(r) \in lost
                         \/ \E e \in batch : Ident(e) = Ident(r)
         /\ saved = NoTx /\ Committed = db
         /\ \A u \in Urls : deleted[u] <= seq
<1>1. \A o \in db \cup batch : o \in Entry /\ Ident(o) \in Idents /\ o.url \in Urls
                                /\ Ident(o).url = o.url /\ o.seq \in Nat
  <2>1. \A o \in db \cup batch : o \in Entry
    BY DEF RolledBackInv, StoreInv, Before, Pending
  <2>2. \A o \in Entry : Ident(o) \in Idents /\ o.url \in Urls /\ o.seq \in Nat
    BY DEF Entry
  <2>3. \A o : Ident(o).url = o.url
    BY DEF Ident
  <2>4. QED
    BY <2>1, <2>2, <2>3
<1>2. QED
  BY <1>1 DEF RolledBackInv, Current, Gone, Committed

LEMMA RolledBackDelete ==
  ASSUME RolledBackInv, NEW u \in Urls, Delete(u)
  PROVE  RolledBackInv'
<1>1. batch' = {e \in batch : e.url # u} /\ UNCHANGED <<saved, closed, now, seq>>
  BY DEF Delete, Purged
<1>2. StoreInv'
  BY DeleteKeepsInv DEF RolledBackInv
<1>3. CASE /\ db' = {r \in db : r.url # u} /\ lost' = lost
           /\ latest' = [i \in Idents |-> IF i.url = u THEN 0 ELSE latest[i]]
           /\ deleted' = [deleted EXCEPT ![u] = seq]
  <2>1. \A o \in db' \cup batch' : o \in db \cup batch /\ o.url # u
    BY <1>1, <1>3
  <2>2. \A o \in db' \cup batch' : latest'[Ident(o)] = latest[Ident(o)]
    BY <1>3, <2>1, RolledBackFacts
  <2>3. \A e \in batch, r \in db' : Ident(e) = Ident(r) => e \in batch'
    BY <1>1, <1>3, RolledBackFacts
  <2>4. Current(db', batch', latest', lost')
    BY <1>1, <1>3, <2>1, <2>2, <2>3, RolledBackFacts DEF Current
  <2>5. \A w \in Urls : deleted'[w] = IF w = u THEN seq ELSE deleted[w]
    BY <1>3, StoreTypes DEF RolledBackInv
  <2>6. Gone(db', batch', deleted')
    BY <2>1, <2>5, RolledBackFacts DEF Gone
  <2>7. \A w \in Urls : deleted'[w] <= seq'
    BY <1>1, <2>5, RolledBackFacts, StoreTypes DEF RolledBackInv
  <2>8. QED
    BY <1>1, <1>2, <2>4, <2>6, <2>7 DEF RolledBackInv
<1>4. CASE lost' = lost \cup {i \in Idents : i.url = u} /\ UNCHANGED <<db, latest, deleted>>
  <2>1. \A e \in batch, r \in db : Ident(e) = Ident(r) => e \in batch' \/ r.url = u
    BY <1>1, RolledBackFacts
  <2>2. Current(db', batch', latest', lost')
    BY <1>1, <1>4, <2>1, RolledBackFacts DEF Current
  <2>3. Gone(db', batch', deleted')
    BY <1>1, <1>4, RolledBackFacts DEF Gone
  <2>4. QED
    BY <1>1, <1>2, <1>4, <2>2, <2>3 DEF RolledBackInv
<1>5. QED
  BY <1>3, <1>4 DEF Delete

LEMMA RolledBackClear ==
  ASSUME RolledBackInv, Clear
  PROVE  RolledBackInv'
<1>1. batch' = {} /\ UNCHANGED <<saved, scheduled, closed, now, seq>>
  BY DEF Clear
<1>2. StoreInv'
  BY ClearKeepsInv DEF RolledBackInv
<1>3. CASE lost' = lost \cup {Ident(e) : e \in batch} /\ UNCHANGED <<db, latest, deleted>>
  <2>1. Current(db', batch', latest', lost')
    BY <1>1, <1>3, RolledBackFacts DEF Current
  <2>2. QED
    BY <1>1, <1>2, <1>3, <2>1, RolledBackFacts DEF RolledBackInv, Gone
<1>4. CASE db' = {} /\ deleted' = [u \in Urls |-> seq]
  <2>1. \A u \in Urls : deleted'[u] <= seq'
    BY <1>1, <1>4, StoreTypes DEF RolledBackInv
  <2>2. QED
    BY <1>1, <1>2, <1>4, <2>1 DEF RolledBackInv, Current, Gone
<1>5. CASE db' \in {{}, db} /\ lost' = Idents /\ UNCHANGED <<latest, deleted>>
  <2>1. Current(db', batch', latest', lost')
    BY <1>1, <1>5, RolledBackFacts DEF Current
  <2>2. QED
    BY <1>1, <1>2, <1>5, <2>1, RolledBackFacts DEF RolledBackInv, Gone
<1>6. QED
  BY <1>3, <1>4, <1>5 DEF Clear

(* A flush, a close and a failure: what they leave is current, and was     *)
(* there before.                                                           *)
LEMMA RolledBackKept ==
  ASSUME RolledBackInv, StoreInv', saved' = NoTx, seq' = seq, latest' = latest, deleted' = deleted,
         db' \subseteq db \cup batch, batch' \subseteq batch,
         Current(db', batch', latest, lost')
  PROVE  RolledBackInv'
BY RolledBackFacts DEF RolledBackInv, Gone

LEMMA RolledBackFlush ==
  ASSUME ~RollbackFails, RolledBackInv, Flush
  PROVE  RolledBackInv'
<1>1. UNCHANGED <<closed, now, seq, latest, deleted>>
  BY DEF Flush
<1>2. StoreInv'
  BY FlushKeepsInv DEF RolledBackInv
<1>3. CASE closed
  <2>1. batch' = {} /\ lost' = lost \cup {Ident(e) : e \in batch} /\ UNCHANGED <<db, saved>>
    BY <1>3 DEF Flush
  <2>2. Current(db', batch', latest, lost')
    BY <2>1, RolledBackFacts DEF Current
  <2>3. QED
    BY <1>1, <1>2, <2>1, <2>2, RolledBackFacts, RolledBackKept
<1>4. CASE ~closed
  <2>1. PICK o \in Outcomes(FALSE) :
          /\ db' = o.db /\ saved' = o.saved /\ batch' = o.batch
          /\ lost' = lost \cup {Ident(e) : e \in o.dropped}
    BY <1>4 DEF Flush
  <2>2. /\ o.saved = NoTx /\ o.db \subseteq db \cup batch /\ o.batch \subseteq batch
        /\ Current(o.db, o.batch, latest, lost \cup {Ident(e) : e \in o.dropped})
    BY RolledBackOutcome
  <2>3. QED
    BY <1>1, <1>2, <2>1, <2>2, RolledBackKept
<1>5. QED
  BY <1>3, <1>4

LEMMA RolledBackClose ==
  ASSUME ~RollbackFails, RolledBackInv, Close
  PROVE  RolledBackInv'
<1>1. saved' = NoTx /\ UNCHANGED <<now, seq, latest, deleted>>
  BY DEF Close
<1>2. StoreInv'
  BY CloseKeepsInv DEF RolledBackInv
<1>3. PICK o \in Outcomes(TRUE) :
        /\ db' = IF o.saved = NoTx THEN o.db ELSE o.saved
        /\ batch' = o.batch
        /\ lost' = lost \cup {Ident(e) : e \in o.dropped}
  BY DEF Close
<1>4. /\ o.saved = NoTx /\ o.db \subseteq db \cup batch /\ o.batch \subseteq batch
      /\ Current(o.db, o.batch, latest, lost \cup {Ident(e) : e \in o.dropped})
  BY RolledBackOutcome
<1>5. QED
  BY <1>1, <1>2, <1>3, <1>4, RolledBackKept

LEMMA RolledBackOthers ==
  ASSUME RolledBackInv, Gc \/ Open \/ Tick \/ UNCHANGED vars
  PROVE  RolledBackInv'
<1>1. StoreInv'
  BY GcKeepsInv, OpenKeepsInv, TickKeepsInv, StutterKeepsInv DEF RolledBackInv
<1>2. saved' = NoTx /\ UNCHANGED <<seq, latest, deleted>> /\ db' \subseteq db
  BY RolledBackFacts DEF Gc, Open, Tick, vars
<1>3. CASE batch' = {} /\ lost' = lost \cup {Ident(e) : e \in batch}
  <2>1. Current(db', batch', latest, lost')
    BY <1>2, <1>3, RolledBackFacts DEF Current
  <2>2. QED
    BY <1>1, <1>2, <1>3, <2>1, RolledBackKept
<1>4. CASE UNCHANGED <<batch, lost>>
  <2>1. Current(db', batch', latest, lost')
    BY <1>2, <1>4, RolledBackFacts DEF Current
  <2>2. QED
    BY <1>1, <1>2, <1>4, <2>1, RolledBackKept
<1>5. QED
  BY <1>3, <1>4 DEF Gc, Open, Tick, vars

LEMMA RolledBackStep ==
  ASSUME ~RollbackFails, RolledBackInv, [Next]_vars
  PROVE  RolledBackInv'
BY RolledBackSet, RolledBackDelete, RolledBackClear, RolledBackFlush, RolledBackClose,
   RolledBackOthers DEF Next

(* While every ROLLBACK succeeds, what the store holds is the last         *)
(* response of its representation or about to be replaced by it, or one of *)
(* its writes failed, and was set after the last deletion of its URL.      *)
THEOREM RolledBackInvariance == ~RollbackFails /\ Spec => []RolledBackInv
<1>1. ASSUME ~RollbackFails PROVE Spec => []RolledBackInv
  <2>1. Init => RolledBackInv
    BY RolledBackInit
  <2>2. RolledBackInv /\ [Next]_vars => RolledBackInv'
    BY <1>1, RolledBackStep
  <2>3. QED
    BY <2>1, <2>2, PTL DEF Spec
<1>2. QED
  BY <1>1

LEMMA NeverOutdatedHolds == RolledBackInv => NeverOutdated
<1>1. SUFFICES ASSUME RolledBackInv, NEW q \in Lookups, NEW v \in Found(db, batch, q)
               PROVE  v.seq = latest[Ident(v)] \/ Ident(v) \in lost
  BY DEF NeverOutdated
<1>2. v \in batch \/ (v \in db /\ \A e \in batch : Ident(e) # Ident(v))
  BY <1>1, FoundIs DEF RolledBackInv
<1>3. QED
  BY <1>1, <1>2, RolledBackFacts

(* A response that was replaced or invalidated is never answered again     *)
(* unless a write that concerned it failed, for every instance in which    *)
(* a ROLLBACK succeeds.                                                    *)
THEOREM AnswersAreNeverOutdated == ~RollbackFails /\ Spec => []NeverOutdated
BY RolledBackInvariance, NeverOutdatedHolds, PTL

LEMMA DeletedStaysDeletedHolds == RolledBackInv => DeletedStaysDeleted
<1>1. SUFFICES ASSUME RolledBackInv, NEW q \in Lookups, NEW v \in Found(db, batch, q)
               PROVE  v.seq > deleted[v.url]
  BY DEF DeletedStaysDeleted
<1>2. v \in batch \/ v \in db
  BY <1>1, FoundIs DEF RolledBackInv
<1>3. QED
  BY <1>1, <1>2, RolledBackFacts

(* A delete() that reported no error is final: nothing set before it is    *)
(* answered again, whatever write fails afterwards.  The run               *)
(* store_failed_rollback shows that the hypothesis cannot be dropped.      *)
THEOREM DeletionsAreFinal == ~RollbackFails /\ Spec => []DeletedStaysDeleted
BY RolledBackInvariance, DeletedStaysDeletedHolds, PTL

-----------------------------------------------------------------------------
(* While no write fails.                                                   *)

(* An outcome is then a committed transaction; with nothing but the whole  *)
(* batch to stop at, it leaves nothing.                                    *)
LEMMA UnfailingOutcome ==
  ASSUME ~WritesFail, StoreInv, saved = NoTx, NEW final, NEW o \in Outcomes(final)
  PROVE  /\ o.saved = NoTx /\ o.dropped = {} /\ o.batch \subseteq batch
         /\ \E E : o.db = (batch \ o.batch)
                         \cup {r \in db \ E : \A e \in batch \ o.batch : Ident(e) # Ident(r)}
         /\ final => o.batch = {} /\ batch \subseteq o.db
<1>1. /\ Committed = db /\ Before(db, batch, seq) /\ Pending(batch, seq)
  BY DEF StoreInv, Committed
<1>2. CASE o = Result(db, saved, {}, {}) /\ batch = {}
  <2>1. o.db = db /\ o.saved = NoTx /\ o.batch = {} /\ o.dropped = {}
    BY <1>2 DEF Result
  <2>2. o.db = (batch \ o.batch)
                 \cup {r \in db \ {} : \A e \in batch \ o.batch : Ident(e) # Ident(r)}
    BY <1>2, <2>1
  <2>3. QED
    BY <1>2, <2>1, <2>2
<1>3. CASE \E last \in Slices(final), E \in Evictions(Committed) :
             o = Result(Written(Committed \ E, First(last)), NoTx, Rest(last), {})
  <2>1. PICK last \in Slices(final), E \in Evictions(Committed) :
          o = Result(Written(Committed \ E, First(last)), NoTx, Rest(last), {})
    BY <1>3
  <2>2. last \in batch /\ (final => Rest(last) = {})
    BY DEF Slices
  <2>3. /\ First(last) \subseteq batch /\ Rest(last) \subseteq batch
        /\ batch \ Rest(last) = First(last)
    BY <1>1, <2>2, FirstAndRest DEF Rest
  <2>4. Before(db \ E, batch, seq)
    BY <1>1, BeforeFewer
  <2>5. o.db = First(last) \cup {r \in db \ E : \A e \in First(last) : Ident(e) # Ident(r)}
    BY <1>1, <2>1, <2>3, <2>4, WrittenIs DEF Result
  <2>6. o.saved = NoTx /\ o.batch = Rest(last) /\ o.dropped = {}
    BY <2>1 DEF Result
  <2>7. o.batch \subseteq batch /\ batch \ o.batch = First(last)
    BY <2>3, <2>6
  <2>8. o.db = (batch \ o.batch)
                 \cup {r \in db \ E : \A e \in batch \ o.batch : Ident(e) # Ident(r)}
    BY <2>5, <2>7
  <2>9. final => o.batch = {} /\ batch \subseteq o.db
    <3>1. SUFFICES ASSUME final PROVE o.batch = {} /\ batch \subseteq o.db
      OBVIOUS
    <3>2. o.batch = {}
      BY <2>2, <2>6, <3>1
    <3>3. QED
      BY <2>8, <3>2
  <2>10. QED
    BY <2>6, <2>7, <2>8, <2>9
<1>4. QED
  BY <1>2, <1>3, OutcomeForms

LEMMA CloseStep ==
  ASSUME ~WritesFail, StoreInv, saved = NoTx, Close
  PROVE  batch' = {} /\ batch \subseteq db'
<1>1. PICK o \in Outcomes(TRUE) :
        /\ db' = IF o.saved = NoTx THEN o.db ELSE o.saved
        /\ batch' = o.batch
  BY DEF Close
<1>2. QED
  BY <1>1, UnfailingOutcome

LEMMA UnfailingStep ==
  ASSUME ~WritesFail, UnfailingInv, [Next]_vars
  PROVE  UnfailingInv'
<1>1. StoreInv'
  BY StoreInvStep DEF UnfailingInv
<1> SUFFICES saved' = NoTx /\ (closed' => batch' = {})
  BY <1>1 DEF UnfailingInv
<1>2. ASSUME NEW t \in Templates, NEW date \in Dates, NEW deleteAt \in Expiries,
             Set(t, date, deleteAt)
      PROVE  saved' = NoTx /\ (closed' => batch' = {})
  BY <1>2 DEF UnfailingInv, Set
<1>3. ASSUME NEW u \in Urls, Delete(u)
      PROVE  saved' = NoTx /\ (closed' => batch' = {})
  BY <1>3 DEF UnfailingInv, Delete
<1>4. CASE Clear
  BY <1>4 DEF UnfailingInv, Clear
<1>5. CASE Gc
  BY <1>5 DEF UnfailingInv, Gc
<1>6. CASE Flush
  <2>1. CASE closed
    BY <1>6, <2>1 DEF UnfailingInv, Flush
  <2>2. CASE ~closed
    <3>1. PICK o \in Outcomes(FALSE) : saved' = o.saved
      BY <1>6, <2>2 DEF Flush
    <3>2. o.saved = NoTx /\ ~closed'
      BY <1>6, <2>2, UnfailingOutcome DEF UnfailingInv, Flush
    <3>3. QED
      BY <3>1, <3>2
  <2>3. QED
    BY <2>1, <2>2
<1>7. CASE Close
  BY <1>7, CloseStep DEF UnfailingInv, Close
<1>8. CASE Open
  BY <1>8 DEF Open
<1>9. CASE Tick
  BY <1>9 DEF UnfailingInv, Tick
<1>10. CASE UNCHANGED vars
  BY <1>10 DEF UnfailingInv, vars
<1>11. QED
  BY <1>1, <1>2, <1>3, <1>4, <1>5, <1>6, <1>7, <1>8, <1>9, <1>10 DEF Next

THEOREM UnfailingInvariance == ~WritesFail /\ Spec => []UnfailingInv
<1>1. ASSUME ~WritesFail PROVE Spec => []UnfailingInv
  <2>1. Init => UnfailingInv
    BY StoreInvInit DEF Init, UnfailingInv
  <2>2. UnfailingInv /\ [Next]_vars => UnfailingInv'
    BY <1>1, UnfailingStep
  <2>3. QED
    BY <2>1, <2>2, PTL DEF Spec
<1>2. QED
  BY <1>1

LEMMA CloseDrainsStep ==
  ASSUME ~WritesFail, UnfailingInv, [Next]_vars
  PROVE  [(closed' /\ ~closed) => batch' = {} /\ batch \subseteq db']_vars
<1>1. SUFFICES ASSUME Next, closed', ~closed PROVE batch' = {} /\ batch \subseteq db'
  OBVIOUS
<1>2. Close
  BY <1>1 DEF Next, Set, Delete, Clear, Gc, Flush, Open, Tick
<1>3. QED
  BY <1>2, CloseStep DEF UnfailingInv

(* close() leaves no pending entry behind: each is a row of the file, for  *)
(* a batch of any length and any time budget.                              *)
THEOREM CloseWritesEverything == ~WritesFail /\ Spec => CloseDrains
<1>1. ASSUME ~WritesFail PROVE Spec => CloseDrains
  <2>1. UnfailingInv /\ [Next]_vars
          => [(closed' /\ ~closed) => batch' = {} /\ batch \subseteq db']_vars
    BY <1>1, CloseDrainsStep
  <2>2. Spec => []UnfailingInv
    BY <1>1, UnfailingInvariance
  <2>3. QED
    BY <2>1, <2>2, PTL DEF Spec, CloseDrains
<1>2. QED
  BY <1>1

-----------------------------------------------------------------------------
(* The store implements StoreMap.                                          *)

(* The responses a lookup can still be given.                              *)
Live ==
  {v \in batch \cup {r \in db : \A e \in batch : Ident(e) # Ident(r)} : v.deleteAt > now}

(* What the abstract map holds is the number of the live response.         *)
HoldsLive ==
  /\ Contents = [i \in Idents |-> Contents[i]]
  /\ \A v \in Live : Ident(v) \in Idents /\ Contents[Ident(v)] = v.seq
  /\ \A i \in Idents : (\A v \in Live : Ident(v) # i) => Contents[i] = 0

LEMMA FitIsLive ==
  ASSUME StoreInv, NEW i \in Idents
  PROVE  LET from == IF i.window = <<>> THEN 0 ELSE i.window[1]
         IN {v \in Candidates(db, batch, i.url, i.method, from) : Ident(v) = i}
              = {v \in Live : Ident(v) = i}
<1> DEFINE from == IF i.window = <<>> THEN 0 ELSE i.window[1]
<1>1. \A v \in db \cup batch : v \in Entry
  BY DEF StoreInv, Before, Pending
<1>2. ASSUME NEW v \in Entry, Ident(v) = i
      PROVE  v.start = from /\ v.url = i.url /\ v.method = i.method
  <2>1. /\ i.url = v.url /\ i.method = v.method
        /\ i.window = IF v.partial THEN <<v.start, v.end>> ELSE <<>>
    BY <1>2 DEF Ident
  <2>2. v.partial \in BOOLEAN /\ (v.partial \/ v.start = 0)
    BY DEF Entry
  <2>3. CASE v.partial
    <3>1. i.window = <<v.start, v.end>> /\ <<v.start, v.end>> # <<>>
      BY <2>1, <2>3
    <3>2. QED
      BY <2>1, <3>1
  <2>4. CASE ~v.partial
    BY <2>1, <2>2, <2>4
  <2>5. QED
    BY <2>2, <2>3, <2>4
<1> HIDE DEF from
<1>3. ASSUME NEW v \in db, Ident(v) = i
      PROVE  Shadowed(v, batch, from) <=> \E e \in batch : Ident(e) = Ident(v)
  <2>1. \A e \in batch : Ident(e) = i => e.start <= from /\ e.url = v.url /\ e.method = v.method
    <3>1. SUFFICES ASSUME NEW e \in batch, Ident(e) = i
                   PROVE  e.start <= from /\ e.url = v.url /\ e.method = v.method
      OBVIOUS
    <3>2. e.start = from /\ e.url = i.url /\ e.method = i.method /\ e.start \in Int
      BY <1>1, <1>2, <3>1 DEF Entry
    <3>3. v.url = i.url /\ v.method = i.method
      BY <1>1, <1>2, <1>3
    <3>4. QED
      BY <3>2, <3>3
  <2>2. QED
    BY <1>3, <2>1 DEF Shadowed
<1>4. ASSUME NEW v \in db \cup batch, Ident(v) = i
      PROVE  v \in Candidates(db, batch, i.url, i.method, from) <=> v \in Live
  <2>1. v.start <= from /\ v.url = i.url /\ v.method = i.method
    <3>1. v \in Entry /\ v.start \in Int
      BY <1>1 DEF Entry
    <3>2. QED
      BY <1>2, <1>4, <3>1
  <2>2. CASE v \in batch
    BY <2>1, <2>2 DEF Candidates, Live
  <2>3. CASE v \notin batch
    BY <1>3, <1>4, <2>1, <2>3 DEF Candidates, Live
  <2>4. QED
    BY <2>2, <2>3
<1>5. (\A v \in Live : v \in db \cup batch)
      /\ \A v \in Candidates(db, batch, i.url, i.method, from) : v \in db \cup batch
  BY DEF Live, Candidates
<1>6. {v \in Candidates(db, batch, i.url, i.method, from) : Ident(v) = i}
        = {v \in Live : Ident(v) = i}
  BY <1>4, <1>5
<1>7. QED
  BY <1>6 DEF from

LEMMA ContentsAreLive == StoreInv => HoldsLive
<1>1. SUFFICES ASSUME StoreInv PROVE HoldsLive
  OBVIOUS
<1>2. \A v \in Live : v \in Entry /\ Ident(v) \in Idents
  BY <1>1 DEF Live, StoreInv, Before, Pending, Entry
<1>3. \A v, w \in Live : Ident(v) = Ident(w) => v = w
  BY <1>1 DEF Live, StoreInv, Before, Pending, Single
<1>4. ASSUME NEW i \in Idents
      PROVE  Contents[i] = LET fit == {v \in Live : Ident(v) = i}
                           IN IF fit = {} THEN 0 ELSE (CHOOSE v \in fit : TRUE).seq
  <2> DEFINE from == IF i.window = <<>> THEN 0 ELSE i.window[1]
             fit  == {v \in Candidates(db, batch, i.url, i.method, from) : Ident(v) = i}
  <2>1. Contents[i] = IF fit = {} THEN 0 ELSE (CHOOSE v \in fit : TRUE).seq
    BY DEF Contents
  <2>2. fit = {v \in Live : Ident(v) = i}
    BY <1>1, FitIsLive
  <2> HIDE DEF fit
  <2>3. QED
    BY <2>1, <2>2
<1>5. ASSUME NEW v \in Live PROVE Contents[Ident(v)] = v.seq
  <2>1. {w \in Live : Ident(w) = Ident(v)} = {v}
    BY <1>3
  <2>2. (CHOOSE w \in {v} : TRUE) = v
    OBVIOUS
  <2>3. QED
    BY <1>2, <1>4, <2>1, <2>2
<1>6. ASSUME NEW i \in Idents, \A v \in Live : Ident(v) # i PROVE Contents[i] = 0
  <2>1. {v \in Live : Ident(v) = i} = {}
    BY <1>6
  <2>2. QED
    BY <1>4, <2>1
<1>7. Contents = [i \in Idents |-> Contents[i]]
  BY DEF Contents
<1>8. QED
  BY <1>2, <1>5, <1>6, <1>7 DEF HoldsLive

LEMMA NextContentsAreLive == StoreInv' => HoldsLive'
BY ContentsAreLive, PTL

(* A step after which nothing is live that was not forgets.                *)
LEMMA ShrinkForgets ==
  ASSUME HoldsLive, HoldsLive', seq' = seq, \A v \in Live' : v \in Live
  PROVE  Map!Next
<1> DEFINE K == {i \in Idents : \A v \in Live' : Ident(v) # i}
<1>1. \A i \in Idents : Contents'[i] = IF i \in K THEN 0 ELSE Contents[i]
  BY DEF HoldsLive
<1>2. Contents' = [i \in Idents |-> IF i \in K THEN 0 ELSE Contents[i]]
  BY <1>1 DEF HoldsLive
<1>3. K \in SUBSET Idents
  OBVIOUS
<1>4. QED
  BY <1>2, <1>3 DEF Map!Next, Map!Forget

LEMMA SetPuts ==
  ASSUME UnfailingInv, NEW t \in Templates, NEW date \in Dates, NEW deleteAt \in Expiries,
         Set(t, date, deleteAt), StoreInv', HoldsLive, HoldsLive'
  PROVE  Map!Next
<1> DEFINE e == Made(t, date, deleteAt, seq + 1)
<1>1. /\ seq < MaxSets /\ seq' = seq + 1 /\ UNCHANGED <<db, now>>
      /\ batch' = {o \in batch : ~Supersedes(e, o)} \cup {e}
  BY SetIs
<1>2. seq \in Nat /\ seq' \in 1..MaxSets /\ e.seq = seq'
  BY <1>1, StoreTypes DEF UnfailingInv, Made
<1>3. e \in Entry /\ Ident(e) \in Idents
  <2>1. e \in Entry
    BY <1>1, <1>2, MadeIsEntry
  <2>2. QED
    BY <2>1 DEF Entry
<1> HIDE DEF e
<1>4. \A o \in batch : o \in Entry
  BY DEF UnfailingInv, StoreInv, Pending
<1>5. \A o \in batch : o \in batch' <=> (Ident(o) # Ident(e) \/ o = e)
  BY <1>1, <1>3, <1>4, SameIdent
<1>6. \A v : Ident(v) # Ident(e) => (v \in Live' <=> v \in Live)
  BY <1>1, <1>5 DEF Live
<1>7. \A v \in Live' : Ident(v) = Ident(e) => v = e
  BY <1>1, <1>5 DEF Live
<1>8. Contents'[Ident(e)] \in {0, seq'}
  <2>1. CASE e \in Live'
    BY <1>2, <2>1 DEF HoldsLive
  <2>2. CASE e \notin Live'
    BY <1>3, <1>7, <2>2 DEF HoldsLive
  <2>3. QED
    BY <2>1, <2>2
<1>9. \A i \in Idents : i # Ident(e) => Contents'[i] = Contents[i]
  <2>1. SUFFICES ASSUME NEW i \in Idents, i # Ident(e) PROVE Contents'[i] = Contents[i]
    OBVIOUS
  <2>2. CASE \E v \in Live : Ident(v) = i
    <3>1. PICK v \in Live : Ident(v) = i
      BY <2>2
    <3>2. v \in Live'
      BY <1>6, <2>1, <3>1
    <3>3. QED
      BY <3>1, <3>2 DEF HoldsLive
  <2>3. CASE \A v \in Live : Ident(v) # i
    <3>1. \A v \in Live' : Ident(v) # i
      BY <1>6, <2>1, <2>3
    <3>2. QED
      BY <2>3, <3>1 DEF HoldsLive
  <2>4. QED
    BY <2>2, <2>3
<1>10. Contents' = [Contents EXCEPT ![Ident(e)] = Contents'[Ident(e)]]
  <2>1. Contents = [i \in Idents |-> Contents[i]] /\ Contents' = [i \in Idents |-> Contents'[i]]
    BY DEF HoldsLive
  <2>2. QED
    BY <1>3, <1>9, <2>1
<1>11. Map!Put(Ident(e))
  BY <1>1, <1>8, <1>10 DEF Map!Put
<1>12. QED
  BY <1>3, <1>11 DEF Map!Next

LEMMA StepShrinks ==
  ASSUME ~WritesFail, ~Crashes, UnfailingInv,
         (\E u \in Urls : Delete(u)) \/ Clear \/ Gc \/ Flush \/ Close \/ Open \/ Tick \/ UNCHANGED vars
  PROVE  seq' = seq /\ \A v \in Live' : v \in Live
<1>1. \A o \in db \cup batch : o \in Entry /\ Ident(o).url = o.url /\ o.deleteAt \in Nat
  <2>1. \A o \in db \cup batch : o \in Entry
    BY DEF UnfailingInv, StoreInv, Before, Pending
  <2>2. \A o \in Entry : o.deleteAt \in Nat
    BY StoreAssumption DEF Entry
  <2>3. \A o : Ident(o).url = o.url
    BY DEF Ident
  <2>4. QED
    BY <2>1, <2>2, <2>3
<1>2. seq' = seq
  BY DEF Delete, Clear, Gc, Flush, Close, Open, Tick, vars
<1> SUFFICES \A v \in Live' : v \in Live
  BY <1>2
<1>3. ASSUME NEW u \in Urls, Delete(u) PROVE \A v \in Live' : v \in Live
  <2>1. /\ batch' = {e \in batch : e.url # u} /\ db' = {r \in db : r.url # u} /\ now' = now
    BY <1>3 DEF Delete, Purged
  <2>2. \A r \in db', e \in batch : Ident(e) = Ident(r) => e \in batch'
    BY <1>1, <2>1
  <2>3. QED
    BY <2>1, <2>2 DEF Live
<1>4. ASSUME now' = now, batch' = {}, db' = {} PROVE \A v \in Live' : v \in Live
  BY <1>4 DEF Live
<1>5. ASSUME now' = now, batch' = batch, db' \subseteq db PROVE \A v \in Live' : v \in Live
  BY <1>5 DEF Live
<1>6. ASSUME NEW final, NEW o \in Outcomes(final), now' = now, db' = o.db, batch' = o.batch
      PROVE  \A v \in Live' : v \in Live
  <2>1. PICK E : o.db = (batch \ o.batch)
                   \cup {r \in db \ E : \A e \in batch \ o.batch : Ident(e) # Ident(r)}
    BY UnfailingOutcome DEF UnfailingInv
  <2>2. o.batch \subseteq batch
    BY UnfailingOutcome DEF UnfailingInv
  <2>3. QED
    BY <1>6, <2>1, <2>2 DEF Live
<1>7. CASE Clear
  <2>1. CASE closed
    BY <1>5, <1>7, <2>1 DEF Clear, UnfailingInv
  <2>2. CASE ~closed
    BY <1>4, <1>7, <2>2 DEF Clear
  <2>3. QED
    BY <2>1, <2>2
<1>8. CASE Gc
  BY <1>5, <1>8 DEF Gc
<1>9. CASE Flush
  <2>1. CASE closed
    BY <1>5, <1>9, <2>1 DEF Flush, UnfailingInv
  <2>2. CASE ~closed
    BY <1>6, <1>9, <2>2 DEF Flush
  <2>3. QED
    BY <2>1, <2>2
<1>10. CASE Close
  <2>1. PICK o \in Outcomes(TRUE) :
          db' = (IF o.saved = NoTx THEN o.db ELSE o.saved) /\ batch' = o.batch /\ now' = now
    BY <1>10 DEF Close
  <2>2. o.saved = NoTx
    BY UnfailingOutcome DEF UnfailingInv
  <2>3. QED
    BY <1>6, <2>1, <2>2
<1>11. CASE Open
  <2>1. closed /\ batch = {} /\ batch' = {} /\ db' = db /\ now' = now
    BY <1>11 DEF Open, UnfailingInv, Committed
  <2>2. QED
    BY <1>5, <2>1
<1>12. CASE Tick
  <2>1. now' = now + 1 /\ batch' = batch /\ db' = db /\ now \in Int
    BY <1>12, StoreTypes DEF Tick, UnfailingInv
  <2>2. ASSUME NEW v \in Live' PROVE v \in Live
    <3>1. v \in batch \cup {r \in db : \A e \in batch : Ident(e) # Ident(r)} /\ v.deleteAt > now + 1
      BY <2>1 DEF Live
    <3>2. v.deleteAt > now
      BY <1>1, <2>1, <3>1
    <3>3. QED
      BY <3>1, <3>2 DEF Live
  <2>3. QED
    BY <2>2
<1>13. CASE UNCHANGED vars
  BY <1>5, <1>13 DEF vars
<1>14. QED
  BY <1>3, <1>7, <1>8, <1>9, <1>10, <1>11, <1>12, <1>13

LEMMA MapStep ==
  ASSUME ~WritesFail, ~Crashes, UnfailingInv, StoreInv', HoldsLive, HoldsLive', [Next]_vars
  PROVE  [Map!Next]_Map!vars
<1>1. CASE \E t \in Templates, date \in Dates, deleteAt \in Expiries : Set(t, date, deleteAt)
  BY <1>1, SetPuts
<1>2. CASE (\E u \in Urls : Delete(u)) \/ Clear \/ Gc \/ Flush \/ Close \/ Open \/ Tick
           \/ UNCHANGED vars
  BY <1>2, StepShrinks, ShrinkForgets
<1>3. QED
  BY <1>1, <1>2 DEF Next

LEMMA MapInit ==
  ASSUME Init
  PROVE  Map!Init
<1>1. HoldsLive
  BY StoreInvInit, ContentsAreLive
<1>2. Live = {}
  BY DEF Init, Live
<1>3. Contents = [i \in Idents |-> 0]
  BY <1>1, <1>2 DEF HoldsLive
<1>4. QED
  BY <1>3 DEF Init, Map!Init

(* While no statement fails and the process stops only by close(), the     *)
(* store is a map from representations to their last responses that may    *)
(* forget: whether a response is pending, written, expired, evicted or     *)
(* read back by the next store on the file makes no difference.            *)
THEOREM StoreIsAMap == ~WritesFail /\ ~Crashes /\ Spec => ImplementsMap
<1>1. ASSUME ~WritesFail, ~Crashes PROVE Spec => ImplementsMap
  <2>1. Init => Map!Init
    BY MapInit
  <2>2. UnfailingInv /\ UnfailingInv' /\ HoldsLive /\ HoldsLive' /\ [Next]_vars
          => [Map!Next]_Map!vars
    BY <1>1, MapStep DEF UnfailingInv
  <2>3. UnfailingInv => HoldsLive
    BY ContentsAreLive DEF UnfailingInv
  <2>4. Spec => []UnfailingInv
    BY <1>1, UnfailingInvariance
  <2>5. QED
    BY <2>1, <2>2, <2>3, <2>4, PTL DEF Spec, ImplementsMap, Map!Spec
<1>2. QED
  BY <1>1
=============================================================================
