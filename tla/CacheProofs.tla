---------------------------- MODULE CacheProofs ----------------------------
(***************************************************************************)
(* Proofs about the cache interceptor of Cache, for every set of requests, *)
(* URLs, asks and answers and every configuration of the lifetimes.        *)
(***************************************************************************)
EXTENDS Cache, TLAPS

-----------------------------------------------------------------------------
(* The inductive invariant.                                                *)

Entry ==
  [path : Paths, sel : Sels \cup {NoSel}, status : CacheableStatus,
   body : Reps, head : Reps, tag : Reps \cup {NoRep}, modified : BOOLEAN,
   auth : BOOLEAN, d : Directives, date : Int, expires : Int,
   cachedAt : Int, staleAt : Int, deleteAt : Int,
   size : {"small", "declared", "grows"}, trailers : BOOLEAN,
   made : Int, by : BOOLEAN, epoch : Nat, known : Nat]

Reply == [ans : Answer, rep : Reps, at : Int]

Exchange ==
  [kind : {"none", "raw", "unsafe", "cache", "reval"},
   phase : {"none", "sent", "open", "head", "body", "over"},
   cut : BOOLEAN, background : BOOLEAN, entry : Entry \cup {NoEntry},
   failover : BOOLEAN, mode : {"none", "pass", "validated", "stale"},
   aborted : BOOLEAN, value : Entry \cup {NoEntry},
   answer : Reply \cup {NoEntry},
   known : Nat, sentAt : Nat]

User ==
  [open : BOOLEAN, head : Heads \cup {NoHead},
   received : {Body(rep) : rep \in Reps \cup {NoRep}},
   cancelled : BOOLEAN, ended : {"none", "complete", "error"}]

Kinds ==
  /\ world \in Worlds /\ started \in 0..MaxStarts[world] /\ now \in 0..MaxNow
  /\ store \subseteq Entry
  /\ inflight \subseteq Paths \X (Sels \cup {NoSel})
  /\ withdrawn \subseteq Paths \X (Sels \cup {NoSel})
  /\ origin \in [Paths -> 1..MaxVersion]
  /\ ask \in [Requests -> Asks[world] \cup {NoEntry}]
  /\ ex \in [Requests -> Exchange]
  /\ user \in [Requests -> User]

(* What every entry is, in the store, under validation or on its way in:   *)
(* its headers and its tag are those of its body, it remembers a request   *)
(* with Authorization, and its clock is no younger than the response.      *)
SoundEntry(e) ==
  /\ e \in Entry
  /\ e.head = e.body /\ e.tag \in {NoRep, e.body}
  /\ e.by = e.auth
  /\ e.cachedAt <= e.made
  /\ ~e.d.nocache => e.staleAt <= FreshUntil(e)

(* A row is one of its kind, written since the last change of its URL, for *)
(* a body no older than what its request could see, and not withdrawn.     *)
SoundStore ==
  /\ \A e \in store : /\ SoundEntry(e)
                      /\ e.cachedAt <= now /\ now < e.deleteAt
                      /\ e.epoch = origin[e.path] /\ e.body[2] >= e.known
                      /\ RowKey(e) \notin withdrawn
  /\ \A e, f \in store : RowKey(e) = RowKey(f) => e = f

(* The slots are those of the refreshes that run.                          *)
Slots ==
  /\ inflight = {RowKey(ex[r].entry) : r \in Refreshing}
  /\ \A q, r \in Refreshing : RowKey(ex[q].entry) = RowKey(ex[r].entry) => q = r

(* The entry of an exchange answers its request, and may still be shared   *)
(* with it as long as it is being validated.                               *)
SoundChoice(r) ==
  LET x == ex[r] IN
  /\ x.entry # NoEntry =>
       /\ SoundEntry(x.entry)
       /\ x.entry.path = ask[r].path /\ x.entry.sel \in {NoSel, ask[r].sel}
  /\ x.kind = "reval" /\ ~x.aborted =>
       x.entry # NoEntry /\ MayShare(ask[r], x.entry)
  /\ x.background => x.entry # NoEntry
  /\ x.failover /\ ~x.aborted =>
       x.entry # NoEntry /\ Timely(x.entry, ask[r], x.sentAt, "error")

(* What an exchange is about to store is no older than what its request    *)
(* could see, and so is what a 304 has identified.                         *)
SoundValue(r) ==
  LET x == ex[r] IN
  /\ x.sentAt <= now
  /\ ask[r] # NoEntry => x.known <= origin[ask[r].path]
  /\ x.value # NoEntry =>
       /\ SoundEntry(x.value) /\ x.value.cachedAt <= now
       /\ x.value.path = ask[r].path /\ x.value.body[2] >= x.known
  /\ x.mode = "validated" =>
       /\ x.kind = "reval" /\ ~x.aborted /\ x.answer \in Reply
       /\ x.answer.ans.status = 304
       /\ x.sentAt <= x.answer.at /\ x.answer.at <= now
       /\ Identified(x) => x.entry.body[2] >= x.known

(* What the transport has done of an exchange, and what of it the handler  *)
(* above has seen; a refresh is told to nobody, whose request is over.     *)
Progress(r) ==
  LET x == ex[r]
      u == user[r] IN
  /\ ask[r] = NoEntry => x = NoExchange /\ u = NewUser
  /\ x.phase \in {"none", "over"} => ~x.background
  /\ x.phase = "none" => ask[r] = NoEntry
  /\ x.phase = "sent" => ~x.cut
  /\ x.cut <=> x.aborted \/ x.mode = "stale"
  /\ x.failover => ~x.background
  /\ x.kind = "reval" /\ x.mode = "none" => x.phase \in {"sent", "open"}
  /\ x.mode \in {"validated", "stale"} => x.phase = "head"
  /\ x.phase = "over" \/ x.background \/ x.mode = "stale" => u.ended # "none"

Telling(r) ==
  LET x == ex[r]
      u == user[r] IN
  Running(r) /\ ~x.background /\ x.mode # "stale" =>
    /\ u.ended = "none"
    /\ x.phase # "sent" => u.open /\ (u.cancelled => x.cut)
    /\ x.phase = "sent" \/ x.mode = "validated" \/ (x.phase = "open" /\ ~x.cut)
         => u.head = NoHead /\ u.received = <<>>
    /\ x.phase = "head" /\ x.mode # "validated" =>
         u.head # NoHead /\ u.received = <<>>
    /\ x.phase = "body" =>
         u.head # NoHead /\ u.received \in {<<>>, Body(u.head.src)}

ExchangeInv(r) ==
  SoundChoice(r) /\ SoundValue(r) /\ Progress(r) /\ Telling(r)

CacheInv ==
  Kinds /\ SoundStore /\ Slots /\ \A r \in Requests : ExchangeInv(r)

-----------------------------------------------------------------------------
(* The freshness arithmetic.                                               *)

Lifetimes == [lifetime : Int, explicit : BOOLEAN]

LEMMA LifetimeKind ==
  ASSUME NEW status, NEW d \in Directives, NEW exp \in Int, NEW date \in Int,
         NEW modified \in BOOLEAN
  PROVE  /\ DetermineLifetime(status, d, exp, date, modified) \in Lifetimes
         /\ StorableLifetime(status, d, exp, date, modified) \in Lifetimes
         /\ ~d.nocache => StorableLifetime(status, d, exp, date, modified)
                            = DetermineLifetime(status, d, exp, date, modified)
<1>1. DetermineLifetime(status, d, exp, date, modified) \in Lifetimes
  BY FreshnessAssumption
     DEF DetermineLifetime, Lifetimes, Directives, Explicit, Invented, NoLifetime,
         None, Malformed, Larger
<1>2. Explicit(0) \in Lifetimes
  BY DEF Explicit, Lifetimes
<1> QED
  BY <1>1, <1>2 DEF StorableLifetime, Directives

(* The times of an entry count from the moment its age says, and are       *)
(* integers.                                                               *)
LEMMA TimesKind ==
  ASSUME NEW l \in Lifetimes, NEW age \in Int, NEW d \in Directives,
         NEW validator \in BOOLEAN, NEW t \in Int,
         ComputeEntryTimes(l, age, d, validator, t) # NoTimes
  PROVE  /\ ComputeEntryTimes(l, age, d, validator, t).cachedAt = t - age
         /\ ComputeEntryTimes(l, age, d, validator, t).staleAt
              = t - age + Smaller(l.lifetime, MaxEntryTTL)
         /\ ComputeEntryTimes(l, age, d, validator, t).deleteAt \in Int
<1>1. Retention(l, age, d, validator) \in Int
  BY FreshnessAssumption
     DEF Retention, Lifetimes, Smaller, Larger, StaleWindow, Directives, None
<1>2. ComputeEntryTimes(l, age, d, validator, t) =
        [cachedAt |-> t - age,
         staleAt  |-> t - age + Smaller(l.lifetime, MaxEntryTTL),
         deleteAt |-> t - age + Retention(l, age, d, validator)]
  BY DEF ComputeEntryTimes
<1> QED
  BY <1>1, <1>2

LEMMA SmallerKind ==
  ASSUME NEW n \in Int
  PROVE  Smaller(n, MaxEntryTTL) \in Int /\ Smaller(MaxEntryTTL, n) = Smaller(n, MaxEntryTTL)
BY FreshnessAssumption DEF Smaller

-----------------------------------------------------------------------------
(* Entries.                                                                *)

LEMMA AskKind ==
  ASSUME Kinds, NEW a \in Asks[world]
  PROVE  a \in Ask /\ a # NoEntry /\ a.path \in Paths /\ a.sel \in Sels
BY CacheAssumption DEF Kinds, Ask

LEMMA AnswerKind ==
  ASSUME Kinds, NEW ans \in Answers[world]
  PROVE  ans \in Answer /\ (ans.status # 304 => ans.d \in Directives)
BY CacheAssumption DEF Kinds

LEMMA RepKind ==
  ASSUME NEW p \in Paths, NEW v \in 1..MaxVersion, NEW s \in Sels
  PROVE  /\ Rep(p, v, s) \in Reps /\ Rep(p, v, s) # NoRep /\ Rep(p, v, s)[2] = v
BY CacheAssumption DEF Rep, Reps

LEMMA FreshUntilKind ==
  ASSUME NEW e \in Entry
  PROVE  /\ FreshUntil(e) \in Int
         /\ FreshUntil(e) = e.made + Smaller(
              DetermineLifetime(e.status, e.d, e.expires, e.date, e.modified).lifetime,
              MaxEntryTTL)
<1>1. DetermineLifetime(e.status, e.d, e.expires, e.date, e.modified).lifetime \in Int
  BY LifetimeKind DEF Entry, Lifetimes
<1> QED
  BY <1>1, SmallerKind DEF FreshUntil, Entry

(* What a response leaves is a sound entry of the version the origin holds.*)
LEMMA NewValueSound ==
  ASSUME Kinds, NEW a \in Asks[world], NEW ans \in Answers[world],
         NEW sentAt \in Nat, sentAt <= now,
         NewValue(a, ans, sentAt) # NoEntry
  PROVE  /\ SoundEntry(NewValue(a, ans, sentAt)) /\ NewValue(a, ans, sentAt).cachedAt <= now
         /\ NewValue(a, ans, sentAt).path = a.path
         /\ NewValue(a, ans, sentAt).body[2] = origin[a.path]
<1> DEFINE date  == now - ans.date
           exp   == IF ans.expires = None THEN None ELSE date + ans.expires
           life  == StorableLifetime(ans.status, ans.d, exp, date, ans.modified)
           age   == DetermineAge(ans.age, date, now, sentAt)
           times == ComputeEntryTimes(life, age, ans.d, ans.tagged \/ ans.modified, now)
           rep   == Rep(a.path, origin[a.path], a.sel)
           v     == NewValue(a, ans, sentAt)
<1>1. /\ Storable(a, ans) /\ life # NoLifetime /\ times # NoTimes
      /\ v = [path |-> a.path, sel |-> Selector(ans.vary, a), status |-> ans.status,
           body |-> rep, head |-> rep, tag |-> IF ans.tagged THEN rep ELSE NoRep,
           modified |-> ans.modified, auth |-> a.auth, d |-> ans.d,
           date |-> date, expires |-> exp,
           cachedAt |-> times.cachedAt, staleAt |-> times.staleAt,
           deleteAt |-> times.deleteAt,
           size |-> ans.size, trailers |-> ans.trailers,
           made |-> sentAt - ans.age, by |-> a.auth, epoch |-> 0, known |-> 0]
  BY DEF NewValue
<1>2. /\ a \in Ask /\ ans \in Answer /\ ans.status \in CacheableStatus
      /\ ans.status # 304 /\ ans.d \in Directives
  BY <1>1, AskKind, AnswerKind DEF Storable, CacheableStatus
<1>3. now \in Nat /\ origin[a.path] \in 1..MaxVersion
  BY <1>2, CacheAssumption DEF Kinds, Ask
<1>4. date \in Int /\ exp \in Int /\ ans.age \in Nat
  BY <1>2, <1>3 DEF Answer, None
<1>5. age \in Int /\ age >= ans.age + (now - sentAt)
  BY <1>4, <1>3 DEF DetermineAge, Larger
<1>6. life \in Lifetimes
  BY <1>2, <1>4, LifetimeKind DEF Answer
<1>7. /\ times.cachedAt = now - age
      /\ times.staleAt = now - age + Smaller(life.lifetime, MaxEntryTTL)
      /\ times.deleteAt \in Int
  <2> DEFINE validator == ans.tagged \/ ans.modified
  <2>1. validator \in BOOLEAN /\ times = ComputeEntryTimes(life, age, ans.d, validator, now)
    OBVIOUS
  <2> HIDE DEF times, validator, life, age
  <2> QED
    BY <1>1, <1>2, <1>3, <1>5, <1>6, <2>1, TimesKind
<1>8. rep \in Reps /\ rep[2] = origin[a.path]
  BY <1>2, <1>3, RepKind DEF Ask
<1>9. v \in Entry
  <2>1. times.cachedAt \in Int /\ times.staleAt \in Int /\ sentAt - ans.age \in Int
    BY <1>3, <1>4, <1>5, <1>6, <1>7, SmallerKind DEF Lifetimes
  <2>2. Selector(ans.vary, a) \in Sels \cup {NoSel}
    BY <1>2 DEF Selector, Ask
  <2>3. /\ a.path \in Paths /\ a.auth \in BOOLEAN /\ ans.modified \in BOOLEAN
        /\ ans.size \in {"small", "declared", "grows"} /\ ans.trailers \in BOOLEAN
    BY <1>2 DEF Ask, Answer
  <2> HIDE DEF date, exp, life, age, times, rep, v
  <2> QED
    BY <1>1, <1>2, <1>4, <1>7, <1>8, <2>1, <2>2, <2>3 DEF Entry
<1>10. v.cachedAt <= v.made /\ v.cachedAt <= now
  <2> HIDE DEF date, exp, life, age, times, rep, v
  <2> QED
    BY <1>1, <1>3, <1>4, <1>5, <1>7
<1>11. ~v.d.nocache => v.staleAt <= FreshUntil(v)
  <2> SUFFICES ASSUME ~v.d.nocache
               PROVE  v.staleAt <= FreshUntil(v)
    OBVIOUS
  <2>1. ~ans.d.nocache
    BY <1>1
  <2>2. life = DetermineLifetime(ans.status, ans.d, exp, date, ans.modified)
    BY <1>2, <1>4, <2>1, LifetimeKind DEF Answer
  <2> HIDE DEF date, exp, life, age, times, rep, v
  <2>3. FreshUntil(v) = v.made + Smaller(life.lifetime, MaxEntryTTL)
    BY <1>1, <1>9, <2>2, FreshUntilKind
  <2>4. Smaller(life.lifetime, MaxEntryTTL) \in Int
    BY <1>6, SmallerKind DEF Lifetimes
  <2> QED
    BY <1>1, <1>3, <1>4, <1>5, <1>7, <2>3, <2>4
<1> HIDE DEF date, exp, life, age, times, rep, v
<1>12. v.path = a.path /\ v.body = rep /\ v.head = rep /\ v.tag \in {NoRep, rep} /\ v.by = v.auth
  BY <1>1
<1> QED
  BY <1>8, <1>9, <1>10, <1>11, <1>12 DEF SoundEntry, v

(* A 304 that names the representation of the entry freshens a sound entry *)
(* into a sound one with the same body.                                    *)
LEMMA FreshenedSound ==
  ASSUME Kinds, NEW a \in Asks[world], NEW x \in Exchange,
         SoundEntry(x.entry), x.entry.sel \in {NoSel, a.sel},
         x.answer \in Reply,
         x.sentAt <= x.answer.at, x.answer.at <= now,
         Identified(x), Kept(x)
  PROVE  /\ SoundEntry(Freshened(x, a)) /\ Freshened(x, a).cachedAt <= now
         /\ Freshened(x, a).path = x.entry.path
         /\ Freshened(x, a).body = x.entry.body
         /\ Freshened(x, a).sel \in {NoSel, a.sel}
         /\ Freshened(x, a).sel = MergedSelector(x, a)
<1> DEFINE ans   == x.answer.ans
           at    == x.answer.at
           d     == MergedDirectives(x)
           date  == at - ans.date
           exp   == IF ans.expires = None THEN x.entry.expires ELSE date + ans.expires
           mod   == x.entry.modified \/ ans.modified
           life  == StorableLifetime(x.entry.status, d, exp, date, mod)
           previousAge == Larger(0, at - x.entry.cachedAt)
           age   == Larger(Smaller(ans.date, previousAge), ans.age + (at - x.sentAt))
           validated == HasValidator(x.entry) \/ ans.modified \/ ans.tagged
           times == FreshTimes(x)
           head  == IF ans.tagged THEN x.answer.rep ELSE x.entry.head
           tag   == IF ans.tagged THEN x.answer.rep ELSE x.entry.tag
           sel   == MergedSelector(x, a)
           made  == x.sentAt - ans.age
           f     == Freshened(x, a)
<1>1. /\ x.entry \in Entry /\ ans \in Answer /\ at \in Int /\ x.sentAt \in Nat
      /\ x.answer.rep \in Reps /\ x.answer.rep # NoRep
  BY CacheAssumption DEF SoundEntry, Exchange, Reply
<1>2. d \in Directives
  BY <1>1 DEF MergedDirectives, Entry, Answer
<1>3. date \in Int /\ exp \in Int /\ ans.age \in Nat /\ ans.date \in Nat /\ mod \in BOOLEAN
  BY <1>1 DEF Answer, Entry, None
<1>4. previousAge \in Int /\ age \in Int /\ age >= ans.age + (at - x.sentAt) /\ age >= 0
  BY <1>1, <1>3 DEF Larger, Smaller, Entry
<1>5. life \in Lifetimes
  BY <1>2, <1>3, LifetimeKind
<1>6. times # NoTimes /\ times = ComputeEntryTimes(life, age, d, validated, at)
  BY DEF FreshTimes, Kept
<1>7. /\ times.cachedAt = at - age
      /\ times.staleAt = at - age + Smaller(life.lifetime, MaxEntryTTL)
      /\ times.deleteAt \in Int
  <2>1. validated \in BOOLEAN
    OBVIOUS
  <2> HIDE DEF times, validated, life, age, at, d
  <2> QED
    BY <1>1, <1>2, <1>4, <1>5, <1>6, <2>1, TimesKind DEF at
<1>8. f = [x.entry EXCEPT !.sel = sel, !.d = d, !.head = head, !.tag = tag,
                  !.modified = mod, !.date = date, !.expires = exp,
                  !.cachedAt = times.cachedAt, !.staleAt = times.staleAt,
                  !.deleteAt = times.deleteAt, !.made = made]
  BY <1>1 DEF Freshened, Entry
<1>9. sel \in {NoSel, a.sel} /\ a.sel \in Sels
  BY AskKind DEF MergedSelector, Selector
<1>10. head = x.entry.body /\ tag \in {NoRep, x.entry.body}
  BY <1>1 DEF Identified, SoundEntry
<1>11. /\ times.cachedAt \in Int /\ times.staleAt \in Int /\ made \in Int
  BY <1>1, <1>3, <1>4, <1>5, <1>7, SmallerKind DEF Lifetimes
<1> HIDE DEF d, date, exp, mod, life, previousAge, age, validated, times, head, tag, sel, made, f
<1>12. f \in Entry
  <2> DEFINE g == [x.entry EXCEPT !.sel = sel, !.d = d, !.head = head, !.tag = tag,
                                  !.modified = mod]
             h == [g EXCEPT !.date = date, !.expires = exp, !.made = made]
  <2>1. g \in Entry
    BY <1>1, <1>2, <1>3, <1>9, <1>10 DEF Entry
  <2> HIDE DEF g
  <2>2. h \in Entry
    BY <1>3, <1>11, <2>1 DEF Entry
  <2> HIDE DEF h
  <2>3. [h EXCEPT !.cachedAt = times.cachedAt, !.staleAt = times.staleAt,
                  !.deleteAt = times.deleteAt] \in Entry
    BY <1>7, <1>11, <2>2 DEF Entry
  <2>4. f = [h EXCEPT !.cachedAt = times.cachedAt, !.staleAt = times.staleAt,
                      !.deleteAt = times.deleteAt]
    <3>1. x.entry \in Entry
      BY <1>1
    <3> QED
      BY <1>8, <3>1 DEF g, h, Entry
  <2> QED
    BY <2>3, <2>4
<1>13. /\ f.path = x.entry.path /\ f.body = x.entry.body /\ f.sel = sel
       /\ f.head = f.body /\ f.tag \in {NoRep, f.body} /\ f.by = f.auth
  BY <1>1, <1>8, <1>10 DEF Entry, SoundEntry
<1>14. f.cachedAt <= f.made /\ f.cachedAt <= now
  <2>1. f.cachedAt = at - age /\ f.made = x.sentAt - ans.age
    BY <1>1, <1>7, <1>8 DEF Entry, made
  <2> QED
    BY <1>1, <1>3, <1>4, <2>1 DEF Kinds
<1>15. ~f.d.nocache => f.staleAt <= FreshUntil(f)
  <2> SUFFICES ASSUME ~f.d.nocache
               PROVE  f.staleAt <= FreshUntil(f)
    OBVIOUS
  <2>1. /\ f.d = d /\ f.status = x.entry.status /\ f.expires = exp /\ f.date = date
        /\ f.modified = mod /\ f.staleAt = times.staleAt /\ f.made = x.sentAt - ans.age
    BY <1>1, <1>8 DEF Entry, made
  <2>2. life = DetermineLifetime(x.entry.status, d, exp, date, mod)
    BY <1>2, <1>3, <2>1, LifetimeKind DEF life
  <2>3. FreshUntil(f) = f.made + Smaller(life.lifetime, MaxEntryTTL)
    BY <1>12, <2>1, <2>2, FreshUntilKind
  <2>4. Smaller(life.lifetime, MaxEntryTTL) \in Int
    BY <1>5, SmallerKind DEF Lifetimes
  <2> QED
    BY <1>1, <1>3, <1>4, <1>7, <2>1, <2>3, <2>4
<1> QED
  BY <1>9, <1>12, <1>13, <1>14, <1>15 DEF SoundEntry, f, sel

(* What set() adds to an entry says who wrote it and when.                 *)
LEMMA RowSound ==
  ASSUME Kinds, NEW r \in Requests, NEW e, SoundEntry(e)
  PROVE  /\ SoundEntry(Row(r, e)) /\ RowKey(Row(r, e)) = RowKey(e)
         /\ Row(r, e).path = e.path /\ Row(r, e).body = e.body
         /\ Row(r, e).epoch = origin[e.path] /\ Row(r, e).known = ex[r].known
         /\ Row(r, e).deleteAt = e.deleteAt /\ Row(r, e).cachedAt = e.cachedAt
<1>1. /\ e \in Entry /\ origin[e.path] \in Nat /\ ex[r].known \in Nat
  BY CacheAssumption DEF SoundEntry, Kinds, Entry, Exchange
<1> DEFINE f == Row(r, e)
<1>2. f = [e EXCEPT !.size = "small", !.trailers = FALSE,
                    !.epoch = origin[e.path], !.known = ex[r].known]
  BY DEF Row
<1> HIDE DEF f
<1>3. f \in Entry
  BY <1>1, <1>2 DEF Entry
<1>4. /\ f.path = e.path /\ f.sel = e.sel /\ f.body = e.body /\ f.head = e.head
      /\ f.tag = e.tag /\ f.by = e.by /\ f.auth = e.auth /\ f.d = e.d
      /\ f.cachedAt = e.cachedAt /\ f.made = e.made /\ f.staleAt = e.staleAt
      /\ f.status = e.status /\ f.expires = e.expires /\ f.date = e.date
      /\ f.modified = e.modified /\ f.deleteAt = e.deleteAt
      /\ f.epoch = origin[e.path] /\ f.known = ex[r].known
  BY <1>1, <1>2 DEF Entry
<1>5. FreshUntil(f) = FreshUntil(e) /\ RowKey(f) = RowKey(e)
  BY <1>4 DEF FreshUntil, RowKey
<1> QED
  BY <1>3, <1>4, <1>5 DEF SoundEntry, f

-----------------------------------------------------------------------------
(* The read path.                                                          *)

(* What may be answered without the origin is within its limits: the clock *)
(* of the entry is at least as old as the response.                        *)
LEMMA HitIsTimely ==
  ASSUME Kinds, NEW a \in Asks[world], NEW e, SoundEntry(e),
         Usable(a, e) \/ MaxStaleAllows(a, e) \/ SwrAllows(a, e)
  PROVE  Timely(e, a, now, "hit")
<1>1. /\ a \in Ask /\ e \in Entry /\ now \in Nat /\ FreshUntil(e) \in Int
      /\ e.d \in Directives
  BY AskKind, FreshUntilKind DEF SoundEntry, Kinds, Entry
<1>2. RequestAccepts(a, e) /\ ~MustRevalidate(a, e)
  BY DEF Usable, MaxStaleAllows, SwrAllows
<1>3. /\ ~a.nocache /\ ~e.d.nocache /\ e.staleAt <= FreshUntil(e)
      /\ e.cachedAt <= e.made
  BY <1>2 DEF MustRevalidate, SoundEntry
<1>4. a.maxage # None => a.maxage > 0 /\ now - e.made <= a.maxage
  BY <1>1, <1>2, <1>3 DEF RequestAccepts, Age, Larger, Entry, Ask, None
<1>5. a.minfresh # None => FreshUntil(e) - now >= a.minfresh
  BY <1>1, <1>2, <1>3 DEF RequestAccepts, Entry, Ask, None
<1>6. \/ now < FreshUntil(e)
      \/ ~e.d.mustreval /\ ~e.d.proxyreval /\ now <= FreshUntil(e) + Grace("hit", a, e)
  <2>1. CASE Usable(a, e)
    BY <2>1, <1>1, <1>3 DEF Usable, Entry
  <2>2. CASE MaxStaleAllows(a, e)
    BY <2>2, <1>1, <1>3
       DEF MaxStaleAllows, ForbidsRequestDrivenStale, ForbidsServingStale, Grace, Larger,
           Entry, Ask, Directives, None
  <2>3. CASE SwrAllows(a, e)
    BY <2>3, <1>1, <1>3
       DEF SwrAllows, ForbidsServingStale, Grace, Larger, Entry, Ask, Directives, None
  <2> QED
    BY <2>1, <2>2, <2>3
<1> QED
  BY <1>3, <1>4, <1>5, <1>6 DEF Timely

LEMMA ErrorIsTimely ==
  ASSUME Kinds, NEW a \in Asks[world], NEW e, SoundEntry(e), StaleOnErrorAllows(a, e)
  PROVE  Timely(e, a, now, "error")
<1>1. /\ a \in Ask /\ e \in Entry /\ now \in Nat /\ FreshUntil(e) \in Int
      /\ e.d \in Directives
  BY AskKind, FreshUntilKind DEF SoundEntry, Kinds, Entry
<1>2. /\ ~a.nocache /\ ~e.d.nocache /\ e.staleAt <= FreshUntil(e)
      /\ e.cachedAt <= e.made /\ RequestAccepts(a, e)
  BY DEF StaleOnErrorAllows, MustRevalidate, SoundEntry
<1>3. a.maxage # None => a.maxage > 0 /\ now - e.made <= a.maxage
  BY <1>1, <1>2 DEF RequestAccepts, Age, Larger, Entry, Ask, None
<1>4. a.minfresh # None => FreshUntil(e) - now >= a.minfresh
  BY <1>1, <1>2 DEF RequestAccepts, Entry, Ask, None
<1>5. StaleIfError(a, e) \in Int
  BY <1>1 DEF StaleIfError, Ask, Directives, None
<1>6. ~e.d.mustreval /\ ~e.d.proxyreval /\ now <= FreshUntil(e) + Grace("error", a, e)
  BY <1>1, <1>2, <1>5 DEF StaleOnErrorAllows, ForbidsServingStale, Grace, Entry
<1> QED
  BY <1>2, <1>3, <1>4, <1>6 DEF Timely

LEMMA CandidateSound ==
  ASSUME SoundStore, NEW a, NEW e \in Candidates(a), e # NoEntry
  PROVE  /\ e \in store /\ SoundEntry(e) /\ RowKey(e) \notin withdrawn
         /\ e.path = a.path /\ e.sel \in {NoSel, a.sel} /\ MayShare(a, e)
BY DEF SoundStore, Candidates, Newest

LEMMA RouteSound ==
  ASSUME NEW a, NEW e
  PROVE  /\ Route(a, e) \in {"hit", "notmodified"} =>
              e # NoEntry /\ (Usable(a, e) \/ MaxStaleAllows(a, e))
         /\ Route(a, e) = "refresh" => e # NoEntry /\ SwrAllows(a, e)
         /\ Route(a, e) = "revalidate" => e # NoEntry
BY DEF Route, Usable

LEMMA BodyKind ==
  /\ <<>> \in {Body(rep) : rep \in Reps \cup {NoRep}}
  /\ \A rep \in Reps \cup {NoRep} :
       /\ HeadOf(rep) \in Heads /\ HeadOf(rep) # NoHead /\ HeadOf(rep).src = rep
       /\ Body(rep) \in {Body(s) : s \in Reps \cup {NoRep}}
<1>1. <<>> = Body(NoRep)
  BY DEF Body
<1> QED
  BY <1>1, CacheAssumption DEF HeadOf, Heads

(* What the cache answers by itself it answers to the end.                 *)
LEMMA LocalKind ==
  ASSUME NEW u \in User, NEW head \in Reps \cup {NoRep}, NEW body \in {NoRep, head},
         NEW v \in Local(u, head, body)
  PROVE  v \in User /\ v.ended \in {"complete", "error"}
<1>1. /\ HeadOf(head) \in Heads \cup {NoHead}
      /\ Body(body) \in {Body(rep) : rep \in Reps \cup {NoRep}}
  BY BodyKind
<1> DEFINE connected == [u EXCEPT !.open = TRUE]
           headed    == [connected EXCEPT !.head = HeadOf(head)]
           whole     == [headed EXCEPT !.received = Body(body)]
           Stopped(w) == [w EXCEPT !.cancelled = TRUE, !.ended = "error"]
<1>2. connected \in User /\ headed \in User /\ whole \in User
  BY <1>1 DEF User
<1>3. v \in {[whole EXCEPT !.ended = "complete"], Stopped(connected), Stopped(headed),
             Stopped(whole)}
  BY DEF Local
<1> HIDE DEF connected, headed, whole
<1> QED
  BY <1>2, <1>3 DEF User

LEMMA NewUserKind == NewUser \in User
BY BodyKind DEF NewUser, User

-----------------------------------------------------------------------------
(* What a step leaves alone.                                               *)

(* An exchange in which nothing happens stays sound while the clock and    *)
(* the origin move on.                                                     *)
LEMMA Unmoved ==
  ASSUME Kinds, Kinds', NEW q \in Requests, ExchangeInv(q),
         ask'[q] = ask[q], ex'[q] = ex[q], user'[q] = user[q], world' = world,
         now <= now', \A p \in Paths : origin[p] <= origin'[p]
  PROVE  ExchangeInv(q)'
<1>1. SoundChoice(q)'
  BY DEF ExchangeInv, SoundChoice
<1>2. SoundValue(q)'
  <2>1. /\ ex[q] \in Exchange /\ now \in Int /\ now' \in Int /\ ex[q].sentAt \in Int
        /\ ex[q].known \in Int
    BY DEF Kinds, Exchange
  <2>2. ask[q] # NoEntry =>
          /\ origin[ask[q].path] \in Int /\ origin'[ask[q].path] \in Int
          /\ origin[ask[q].path] <= origin'[ask[q].path]
    BY AskKind DEF Kinds
  <2>3. ex[q].value # NoEntry => ex[q].value.cachedAt \in Int
    BY <2>1 DEF Exchange, Entry
  <2>4. ex[q].answer \in Reply => ex[q].answer.at \in Int
    BY DEF Reply
  <2> QED
    BY <2>1, <2>2, <2>3, <2>4 DEF ExchangeInv, SoundValue
<1>3. Progress(q)' /\ Telling(q)'
  BY DEF ExchangeInv, Progress, Telling, Running
<1> QED
  BY <1>1, <1>2, <1>3 DEF ExchangeInv

LEMMA OthersUnmoved ==
  ASSUME Kinds, Kinds', NEW r \in Requests, \A q \in Requests : ExchangeInv(q),
         \A q \in Requests \ {r} :
           ask'[q] = ask[q] /\ ex'[q] = ex[q] /\ user'[q] = user[q],
         world' = world, now' = now, \A p \in Paths : origin[p] <= origin'[p],
         ExchangeInv(r)'
  PROVE  \A q \in Requests : ExchangeInv(q)'
<1>1. now <= now'
  BY DEF Kinds
<1>2. ASSUME NEW q \in Requests \ {r}
      PROVE  ExchangeInv(q)'
  BY <1>1, <1>2, Unmoved
<1> QED
  BY <1>2

LEMMA OriginUnmoved ==
  ASSUME Kinds, UNCHANGED origin
  PROVE  \A p \in Paths : origin[p] <= origin'[p]
BY DEF Kinds

LEMMA StoreUnmoved ==
  ASSUME SoundStore, UNCHANGED <<now, store, origin, withdrawn>>
  PROVE  SoundStore'
BY DEF SoundStore

LEMMA SlotsUnmoved ==
  ASSUME Slots, UNCHANGED inflight,
         \A q \in Requests :
           /\ ex'[q].background = ex[q].background
           /\ ex[q].background => ex'[q].entry = ex[q].entry
  PROVE  Slots'
BY DEF Slots, Refreshing

(* The end of an exchange frees its slot, if it has one.                   *)
LEMMA OverKeeps ==
  ASSUME Kinds, Slots, NEW r \in Requests, Over(r)
  PROVE  /\ Slots' /\ inflight' \subseteq inflight
         /\ ex' \in [Requests -> Exchange]
         /\ ex'[r] = [NoExchange EXCEPT !.phase = "over"]
         /\ \A q \in Requests \ {r} : ex'[q] = ex[q]
<1>1. [NoExchange EXCEPT !.phase = "over"] \in Exchange
  BY DEF NoExchange, Exchange
<1>2. /\ ex' = [ex EXCEPT ![r] = [NoExchange EXCEPT !.phase = "over"]]
      /\ inflight' = IF ex[r].background THEN inflight \ {RowKey(ex[r].entry)} ELSE inflight
  BY DEF Over
<1>3. /\ ex' \in [Requests -> Exchange]
      /\ ex'[r] = [NoExchange EXCEPT !.phase = "over"]
      /\ \A q \in Requests \ {r} : ex'[q] = ex[q]
  BY <1>1, <1>2 DEF Kinds
<1>4. ex'[r].background = FALSE
  BY <1>3 DEF NoExchange
<1>5. Refreshing' = Refreshing \ {r}
  BY <1>3, <1>4 DEF Refreshing
<1>6. \A q \in Refreshing \ {r} : ex'[q].entry = ex[q].entry
  BY <1>3 DEF Refreshing
<1>7. r \in Refreshing <=> ex[r].background
  BY DEF Refreshing
<1>8. inflight' = {RowKey(ex'[q].entry) : q \in Refreshing'}
  BY <1>2, <1>5, <1>6, <1>7 DEF Slots
<1> QED
  BY <1>2, <1>3, <1>5, <1>6, <1>8 DEF Slots

-----------------------------------------------------------------------------
(* New requests.                                                           *)

LEMMA AskedGives ==
  ASSUME Kinds, NEW r \in Requests, Progress(r), NEW a \in Asks[world], Asked(r, a)
  PROVE  /\ a # NoEntry /\ a \in Ask /\ ex[r] = NoExchange /\ user[r] = NewUser
         /\ ask' \in [Requests -> Asks[world] \cup {NoEntry}] /\ ask'[r] = a
         /\ \A q \in Requests \ {r} : ask'[q] = ask[q]
         /\ started' \in 0..MaxStarts[world]
<1>1. a # NoEntry /\ a \in Ask
  BY AskKind
<1>2. MaxStarts[world] \in Nat
  BY CacheAssumption DEF Kinds
<1> QED
  BY <1>1, <1>2 DEF Kinds, Asked, Progress

(* A request whose exchange begins, or is over at once, is sound when what *)
(* it has found is.                                                        *)
LEMMA Admitted ==
  ASSUME CacheInv, NEW r \in Requests, NEW a \in Asks[world], Asked(r, a),
         NEW x \in Exchange, NEW u \in User,
         ex' = [ex EXCEPT ![r] = x], user' = [user EXCEPT ![r] = u],
         Slots', inflight' \subseteq Paths \X (Sels \cup {NoSel}),
         x.phase \in {"sent", "over"}, ~x.cut, ~x.aborted, x.value = NoEntry,
         x.mode = "none", x.sentAt <= now, x.known <= origin[a.path],
         x.kind = "reval" =>
           x.phase = "sent" /\ x.entry # NoEntry /\ MayShare(a, x.entry),
         x.entry # NoEntry =>
           SoundEntry(x.entry) /\ x.entry.path = a.path /\ x.entry.sel \in {NoSel, a.sel},
         x.failover =>
           ~x.background /\ x.entry # NoEntry /\ Timely(x.entry, a, x.sentAt, "error"),
         x.background => x.phase = "sent" /\ x.entry # NoEntry,
         x.phase = "over" \/ x.background => u.ended # "none",
         x.phase = "sent" /\ ~x.background => u = NewUser
  PROVE  CacheInv'
<1>1. /\ Kinds /\ SoundStore /\ \A q \in Requests : ExchangeInv(q)
  BY DEF CacheInv
<1>2. Progress(r)
  BY <1>1 DEF ExchangeInv
<1>3. /\ a # NoEntry /\ ask'[r] = a /\ \A q \in Requests \ {r} : ask'[q] = ask[q]
      /\ ask' \in [Requests -> Asks[world] \cup {NoEntry}]
      /\ started' \in 0..MaxStarts[world]
  BY <1>1, <1>2, AskedGives
<1>4. /\ ex'[r] = x /\ user'[r] = u
      /\ \A q \in Requests \ {r} : ex'[q] = ex[q] /\ user'[q] = user[q]
      /\ ex' \in [Requests -> Exchange] /\ user' \in [Requests -> User]
  BY <1>1 DEF Kinds
<1>5. UNCHANGED <<world, now, store, origin, withdrawn>>
  BY DEF Asked
<1>6. Kinds'
  BY <1>1, <1>3, <1>4, <1>5 DEF Kinds
<1>7. SoundStore'
  BY <1>1, <1>5, StoreUnmoved
<1>8. SoundChoice(r)'
  BY <1>3, <1>4 DEF SoundChoice
<1>9. SoundValue(r)'
  BY <1>3, <1>4, <1>5 DEF SoundValue
<1>10. Progress(r)'
  BY <1>3, <1>4 DEF Progress
<1>11. Telling(r)'
  BY <1>4 DEF Telling, Running, NewUser
<1>12. \A q \in Requests : ExchangeInv(q)'
  <2>1. ExchangeInv(r)'
    BY <1>8, <1>9, <1>10, <1>11 DEF ExchangeInv
  <2>2. \A p \in Paths : origin[p] <= origin'[p]
    BY <1>1, <1>5, OriginUnmoved
  <2>3. \A q \in Requests \ {r} :
          ask'[q] = ask[q] /\ ex'[q] = ex[q] /\ user'[q] = user[q]
    BY <1>3, <1>4
  <2> QED
    BY <1>1, <1>5, <1>6, <2>1, <2>2, <2>3, OthersUnmoved
<1> QED
  BY <1>6, <1>7, <1>12 DEF CacheInv

(* An exchange that begins without an entry.                               *)
LEMMA SentKind ==
  ASSUME Kinds, NEW r, NEW a \in Asks[world], NEW kind \in {"raw", "unsafe", "cache", "reval"}
  PROVE  /\ Sent(kind, r, a) \in Exchange
         /\ Sent(kind, r, a).phase = "sent" /\ Sent(kind, r, a).kind = kind
         /\ ~Sent(kind, r, a).cut /\ ~Sent(kind, r, a).aborted
         /\ ~Sent(kind, r, a).background /\ ~Sent(kind, r, a).failover
         /\ Sent(kind, r, a).entry = NoEntry /\ Sent(kind, r, a).value = NoEntry
         /\ Sent(kind, r, a).mode = "none" /\ Sent(kind, r, a).sentAt <= now
         /\ Sent(kind, r, a).known <= origin[a.path]
         /\ kind = "reval" => Sent(kind, r, a).sentAt = now
<1>1. now \in Nat /\ origin[a.path] \in Nat /\ 0 <= origin[a.path] /\ 0 <= now
  BY AskKind, CacheAssumption DEF Kinds
<1> DEFINE known  == IF kind \in {"cache", "reval"} THEN origin[a.path] ELSE 0
           sentAt == IF kind \in {"cache", "reval"} THEN now ELSE 0
           x      == Sent(kind, r, a)
<1>2. x = [NoExchange EXCEPT !.kind = kind, !.phase = "sent", !.known = known,
                             !.sentAt = sentAt]
  BY DEF Sent, NoExchange
<1>3. known \in Nat /\ sentAt \in Nat /\ known <= origin[a.path] /\ sentAt <= now
  BY <1>1
<1>4. kind = "reval" => sentAt = now
  OBVIOUS
<1> HIDE DEF known, sentAt, x
<1>5. x \in Exchange
  BY <1>2, <1>3 DEF NoExchange, Exchange
<1> QED
  BY <1>2, <1>3, <1>4, <1>5 DEF NoExchange, x

(* A request that begins without an entry, or ends at once.                *)
LEMMA PlainAdmitted ==
  ASSUME CacheInv, NEW r \in Requests, NEW a \in Asks[world], Asked(r, a),
         NEW x, NEW u \in User,
         ex' = [ex EXCEPT ![r] = x], user' = [user EXCEPT ![r] = u],
         UNCHANGED inflight,
         \/ /\ \E kind \in {"raw", "unsafe", "cache"} : x = Sent(kind, r, a)
            /\ u = NewUser
         \/ x = [NoExchange EXCEPT !.phase = "over"] /\ u.ended # "none"
  PROVE  CacheInv'
<1>1. /\ Kinds /\ Slots /\ Progress(r)
  BY DEF CacheInv, ExchangeInv
<1>2. /\ x \in Exchange /\ x.phase \in {"sent", "over"} /\ x.kind # "reval"
      /\ ~x.cut /\ ~x.aborted /\ ~x.background /\ ~x.failover
      /\ x.entry = NoEntry /\ x.value = NoEntry
      /\ x.mode = "none" /\ x.sentAt <= now /\ x.known <= origin[a.path]
      /\ x.phase = "over" => u.ended # "none"
      /\ x.phase = "sent" => u = NewUser
  <2>1. CASE /\ \E kind \in {"raw", "unsafe", "cache"} : x = Sent(kind, r, a)
             /\ u = NewUser
    <3>1. PICK kind \in {"raw", "unsafe", "cache"} : x = Sent(kind, r, a)
      BY <2>1
    <3> QED
      BY <1>1, <2>1, <3>1, SentKind
  <2>2. CASE x = [NoExchange EXCEPT !.phase = "over"] /\ u.ended # "none"
    <3>1. 0 <= now /\ 0 <= origin[a.path]
      BY <1>1, AskKind, CacheAssumption DEF Kinds
    <3> QED
      BY <2>2, <3>1 DEF NoExchange, Exchange
  <2> QED
    BY <2>1, <2>2
<1>3. ex[r] = NoExchange
  BY <1>1, AskedGives
<1>4. Slots'
  <2>1. ASSUME NEW q \in Requests
        PROVE  /\ ex'[q].background = ex[q].background
               /\ ex[q].background => ex'[q].entry = ex[q].entry
    <3>1. CASE q = r
      <4>1. x.background = FALSE
        BY <1>2 DEF Exchange
      <4>2. ex[r].background = FALSE
        BY <1>3 DEF NoExchange
      <4>3. ex'[r] = x
        BY <1>1 DEF Kinds
      <4> QED
        BY <3>1, <4>1, <4>2, <4>3
    <3>2. CASE q # r
      BY <3>2, <1>1 DEF Kinds
    <3> QED
      BY <3>1, <3>2
  <2> QED
    BY <1>1, <2>1, SlotsUnmoved
<1>5. inflight' \subseteq Paths \X (Sels \cup {NoSel})
  BY <1>1 DEF Kinds
<1> QED
  BY <1>2, <1>4, <1>5, Admitted

LEMMA UserKept ==
  ASSUME CacheInv, NEW r \in Requests
  PROVE  user = [user EXCEPT ![r] = user[r]] /\ user[r] \in User
BY DEF CacheInv, Kinds

LEMMA BypassKeeps ==
  ASSUME CacheInv, NEW r \in Requests, NEW a \in Asks[world], NEW e, Bypass(r, a, e)
  PROVE  CacheInv'
<1> DEFINE kind == IF a.unsafe THEN "unsafe" ELSE "raw"
           x == Sent(kind, r, a)
<1>1. /\ Asked(r, a) /\ ex' = [ex EXCEPT ![r] = x]
      /\ UNCHANGED <<inflight, user>>
  BY DEF Bypass
<1>2. user[r] = NewUser
  BY <1>1, AskedGives DEF CacheInv, ExchangeInv
<1>3. kind \in {"raw", "unsafe", "cache"}
  OBVIOUS
<1> HIDE DEF kind
<1>4. \E k \in {"raw", "unsafe", "cache"} : x = Sent(k, r, a)
  BY <1>3
<1> HIDE DEF x
<1> QED
  BY <1>1, <1>2, <1>4, UserKept, PlainAdmitted

LEMMA FetchKeeps ==
  ASSUME CacheInv, NEW r \in Requests, NEW a \in Asks[world], NEW e, Fetch(r, a, e)
  PROVE  CacheInv'
<1> DEFINE kind == IF a.nostore THEN "raw" ELSE "cache"
           x == Sent(kind, r, a)
<1>1. /\ Asked(r, a) /\ ex' = [ex EXCEPT ![r] = x]
      /\ UNCHANGED <<inflight, user>>
  BY DEF Fetch
<1>2. user[r] = NewUser
  BY <1>1, AskedGives DEF CacheInv, ExchangeInv
<1>3. kind \in {"raw", "unsafe", "cache"}
  OBVIOUS
<1> HIDE DEF kind
<1>4. \E k \in {"raw", "unsafe", "cache"} : x = Sent(k, r, a)
  BY <1>3
<1> HIDE DEF x
<1> QED
  BY <1>1, <1>2, <1>4, UserKept, PlainAdmitted

(* A request that is over before anything is sent.                         *)
LEMMA OverAtOnce ==
  ASSUME CacheInv, NEW r \in Requests, NEW a \in Asks[world], Asked(r, a),
         ex' = [ex EXCEPT ![r].phase = "over"]
  PROVE  ex' = [ex EXCEPT ![r] = [NoExchange EXCEPT !.phase = "over"]]
BY AskedGives DEF CacheInv, ExchangeInv

LEMMA ServeKind ==
  ASSUME NEW u \in User, NEW e, SoundEntry(e), NEW v \in Serve(u, e)
  PROVE  v \in User /\ v.ended \in {"complete", "error"}
<1>1. e.head \in Reps \cup {NoRep} /\ e.body \in {NoRep, e.head}
  BY DEF SoundEntry, Entry
<1> QED
  BY <1>1, LocalKind DEF Serve

LEMMA HitKeeps ==
  ASSUME CacheInv, NEW r \in Requests, NEW a \in Asks[world],
         NEW e \in Candidates(a), Hit(r, a, e)
  PROVE  CacheInv'
<1>1. /\ Asked(r, a) /\ ex' = [ex EXCEPT ![r].phase = "over"] /\ UNCHANGED inflight
      /\ Route(a, e) \in {"hit", "notmodified"}
  BY DEF Hit
<1>2. PICK u \in IF Route(a, e) = "hit" THEN Serve(user[r], e)
                 ELSE Local(user[r], e.head, NoRep) :
        user' = [user EXCEPT ![r] = u]
  BY DEF Hit
<1>3. SoundEntry(e)
  BY <1>1, RouteSound, CandidateSound DEF CacheInv
<1>4. u \in User /\ u.ended # "none"
  <2>1. user[r] \in User
    BY UserKept
  <2>2. CASE u \in Serve(user[r], e)
    BY <1>3, <2>1, <2>2, ServeKind
  <2>3. CASE u \in Local(user[r], e.head, NoRep)
    BY <1>3, <2>1, <2>3, LocalKind DEF SoundEntry, Entry
  <2> QED
    BY <1>2, <2>2, <2>3
<1> DEFINE x == [NoExchange EXCEPT !.phase = "over"]
<1>5. ex' = [ex EXCEPT ![r] = x]
  BY <1>1, OverAtOnce
<1>6. x = [NoExchange EXCEPT !.phase = "over"]
  OBVIOUS
<1> HIDE DEF x
<1> QED
  BY <1>1, <1>2, <1>4, <1>5, <1>6, PlainAdmitted

LEMMA GatewayTimeoutKeeps ==
  ASSUME CacheInv, NEW r \in Requests, NEW a \in Asks[world], NEW e, GatewayTimeout(r, a, e)
  PROVE  CacheInv'
<1>1. /\ Asked(r, a) /\ ex' = [ex EXCEPT ![r].phase = "over"] /\ UNCHANGED inflight
  BY DEF GatewayTimeout
<1>2. PICK u \in Local(user[r], NoRep, NoRep) : user' = [user EXCEPT ![r] = u]
  BY DEF GatewayTimeout
<1>3. u \in User /\ u.ended # "none"
  BY <1>2, UserKept, LocalKind
<1> DEFINE x == [NoExchange EXCEPT !.phase = "over"]
<1>4. ex' = [ex EXCEPT ![r] = x]
  BY <1>1, OverAtOnce
<1>5. x = [NoExchange EXCEPT !.phase = "over"]
  OBVIOUS
<1> HIDE DEF x
<1> QED
  BY <1>1, <1>2, <1>3, <1>4, <1>5, PlainAdmitted

(* An exchange that is to validate e for a.                                *)
Validating(x, a, e) ==
  /\ x \in Exchange /\ x.phase = "sent" /\ x.kind = "reval" /\ ~x.cut /\ ~x.aborted
  /\ x.background = FALSE /\ x.entry = e /\ x.value = NoEntry /\ x.mode = "none"
  /\ x.sentAt <= now /\ x.known <= origin[a.path]
  /\ x.failover => Timely(e, a, x.sentAt, "error")

(* A validation begins with the entry the lookup has found, and its        *)
(* stale-if-error window is the one of this moment.                        *)
LEMMA ValidationKind ==
  ASSUME CacheInv, NEW r \in Requests, NEW a \in Asks[world],
         NEW e \in Candidates(a), e # NoEntry
  PROVE  Validating(Validation(r, a, e), a, e)
<1> DEFINE s == Sent("reval", r, a)
           failover == StaleOnErrorAllows(a, e)
           x == Validation(r, a, e)
<1>1. /\ s \in Exchange /\ s.phase = "sent" /\ s.kind = "reval" /\ ~s.cut /\ ~s.aborted
      /\ ~s.background /\ s.value = NoEntry /\ s.mode = "none" /\ s.sentAt <= now
      /\ s.known <= origin[a.path] /\ s.sentAt = now
  BY SentKind DEF CacheInv
<1>2. SoundEntry(e) /\ e \in Entry
  BY CandidateSound DEF CacheInv, SoundEntry
<1>3. failover => Timely(e, a, now, "error")
  BY <1>2, ErrorIsTimely DEF CacheInv
<1>4. x = [s EXCEPT !.entry = e, !.failover = failover]
  BY DEF Validation
<1>5. failover \in BOOLEAN
  BY DEF StaleOnErrorAllows
<1> HIDE DEF s, failover, x
<1>6. x \in Exchange
  BY <1>1, <1>2, <1>4, <1>5 DEF Exchange
<1>7. /\ x.phase = s.phase /\ x.kind = s.kind /\ x.cut = s.cut /\ x.aborted = s.aborted
      /\ x.background = s.background /\ x.entry = e /\ x.value = s.value
      /\ x.mode = s.mode /\ x.sentAt = s.sentAt /\ x.known = s.known
      /\ x.failover = failover
  BY <1>1, <1>4 DEF Exchange
<1>8. s.background = FALSE
  BY <1>1 DEF Exchange
<1> QED
  BY <1>1, <1>3, <1>6, <1>7, <1>8 DEF x, Validating

LEMMA RevalidateKeeps ==
  ASSUME CacheInv, NEW r \in Requests, NEW a \in Asks[world],
         NEW e \in Candidates(a), Revalidate(r, a, e)
  PROVE  CacheInv'
<1> DEFINE x == Validation(r, a, e)
<1>1. /\ Asked(r, a) /\ ex' = [ex EXCEPT ![r] = x] /\ UNCHANGED <<inflight, user>>
      /\ e # NoEntry
  BY RouteSound DEF Revalidate
<1>2. /\ Kinds /\ Slots /\ ex[r] = NoExchange /\ user[r] = NewUser
  BY <1>1, AskedGives DEF CacheInv, ExchangeInv
<1>3. /\ x \in Exchange /\ x.phase = "sent" /\ x.kind = "reval" /\ ~x.cut /\ ~x.aborted
      /\ x.background = FALSE /\ x.entry = e /\ x.value = NoEntry /\ x.mode = "none"
      /\ x.sentAt <= now /\ x.known <= origin[a.path]
      /\ x.failover => Timely(e, a, x.sentAt, "error")
  <2>1. Validating(x, a, e)
    BY <1>1, ValidationKind
  <2> HIDE DEF x
  <2> QED
    BY <2>1 DEF Validating
<1>4. SoundEntry(e) /\ e.path = a.path /\ e.sel \in {NoSel, a.sel} /\ MayShare(a, e)
  BY <1>1, CandidateSound DEF CacheInv
<1> HIDE DEF x
<1>5. Slots'
  <2>1. ASSUME NEW q \in Requests
        PROVE  /\ ex'[q].background = ex[q].background
               /\ ex[q].background => ex'[q].entry = ex[q].entry
    <3>1. ex'[r] = x /\ ex[r].background = FALSE
      BY <1>1, <1>2 DEF Kinds, NoExchange
    <3>2. CASE q # r
      BY <3>2, <1>1, <1>2 DEF Kinds
    <3> QED
      BY <3>1, <3>2, <1>3
  <2> QED
    BY <1>1, <1>2, <2>1, SlotsUnmoved
<1>6. inflight' \subseteq Paths \X (Sels \cup {NoSel})
  BY <1>1, <1>2 DEF Kinds
<1>7. NewUser \in User /\ user' = [user EXCEPT ![r] = NewUser]
  BY <1>1, <1>2, UserKept
<1> QED
  BY <1>1, <1>3, <1>4, <1>5, <1>6, <1>7, Admitted

(* A refresh that takes a slot takes one that no other refresh holds.      *)
LEMMA ServeWhileRevalidateKeeps ==
  ASSUME CacheInv, NEW r \in Requests, NEW a \in Asks[world],
         NEW e \in Candidates(a), ServeWhileRevalidate(r, a, e)
  PROVE  CacheInv'
<1>1. /\ Asked(r, a) /\ e # NoEntry
      /\ IF a.nostore THEN /\ ex' = [ex EXCEPT ![r].phase = "over"]
                           /\ UNCHANGED inflight
         ELSE BackgroundRefresh(r, a, e)
  BY RouteSound DEF ServeWhileRevalidate
<1>2. PICK u \in Serve(user[r], e) : user' = [user EXCEPT ![r] = u]
  BY DEF ServeWhileRevalidate
<1>3. /\ Kinds /\ Slots /\ ex[r] = NoExchange /\ user[r] = NewUser
  BY <1>1, AskedGives DEF CacheInv, ExchangeInv
<1>4. SoundEntry(e) /\ e.path = a.path /\ e.sel \in {NoSel, a.sel} /\ MayShare(a, e)
  BY <1>1, CandidateSound DEF CacheInv
<1>5. u \in User /\ u.ended # "none"
  BY <1>2, <1>4, UserKept, ServeKind
<1>6. CASE ex' = [ex EXCEPT ![r].phase = "over"] /\ UNCHANGED inflight
  <2> DEFINE x == [NoExchange EXCEPT !.phase = "over"]
  <2>1. ex' = [ex EXCEPT ![r] = x]
    BY <1>1, <1>6, OverAtOnce
  <2>2. x = [NoExchange EXCEPT !.phase = "over"]
    OBVIOUS
  <2> HIDE DEF x
  <2> QED
    BY <1>1, <1>2, <1>5, <1>6, <2>1, <2>2, PlainAdmitted
<1>7. CASE ~a.nostore /\ RowKey(e) \notin inflight
  <2> DEFINE v == Validation(r, a, e)
             x == [v EXCEPT !.background = TRUE, !.failover = FALSE]
  <2>1. /\ ex' = [ex EXCEPT ![r] = x] /\ inflight' = inflight \cup {RowKey(e)}
    BY <1>1, <1>7 DEF BackgroundRefresh
  <2>2. /\ v \in Exchange /\ v.phase = "sent" /\ v.kind = "reval" /\ ~v.cut /\ ~v.aborted
        /\ v.background = FALSE /\ v.entry = e /\ v.value = NoEntry /\ v.mode = "none"
        /\ v.sentAt <= now /\ v.known <= origin[a.path]
    <3>1. Validating(v, a, e)
      BY <1>1, ValidationKind
    <3> HIDE DEF v
    <3> QED
      BY <3>1 DEF Validating
  <2> HIDE DEF v
  <2>3. /\ x \in Exchange /\ x.phase = "sent" /\ x.kind = "reval" /\ ~x.cut /\ ~x.aborted
        /\ x.background = TRUE /\ x.failover = FALSE /\ x.entry = e /\ x.value = NoEntry
        /\ x.mode = "none" /\ x.sentAt <= now /\ x.known <= origin[a.path]
    BY <2>2 DEF Exchange
  <2> HIDE DEF x
  <2>4. inflight' \subseteq Paths \X (Sels \cup {NoSel})
    BY <1>3, <1>4, <2>1 DEF Kinds, SoundEntry, Entry, RowKey
  <2>5. Slots'
    <3>1. ex'[r] = x /\ ex[r].background = FALSE /\ \A q \in Requests \ {r} : ex'[q] = ex[q]
      BY <1>3, <2>1 DEF Kinds, NoExchange
    <3>2. Refreshing' = Refreshing \cup {r} /\ r \notin Refreshing
      BY <2>3, <3>1 DEF Refreshing
    <3>3. \A q \in Refreshing : ex'[q].entry = ex[q].entry /\ q # r
      BY <3>1, <3>2 DEF Refreshing
    <3>4. ex'[r].entry = e
      BY <2>3, <3>1
    <3>5. inflight' = {RowKey(ex'[q].entry) : q \in Refreshing'}
      BY <1>3, <2>1, <3>2, <3>3, <3>4 DEF Slots
    <3>6. \A p, q \in Refreshing' :
            RowKey(ex'[p].entry) = RowKey(ex'[q].entry) => p = q
      BY <1>3, <1>7, <3>2, <3>3, <3>4 DEF Slots
    <3> QED
      BY <3>5, <3>6 DEF Slots
  <2> QED
    BY <1>1, <1>2, <1>4, <1>5, <2>1, <2>3, <2>4, <2>5, Admitted
<1> QED
  BY <1>1, <1>6, <1>7 DEF BackgroundRefresh

-----------------------------------------------------------------------------
(* The callbacks of an exchange.                                           *)

LEMMA AskOfRunning ==
  ASSUME CacheInv, NEW r \in Requests, ex[r].phase # "none"
  PROVE  ask[r] \in Asks[world] /\ ask[r] # NoEntry /\ ask[r] \in Ask
BY AskKind DEF CacheInv, ExchangeInv, Progress, NoExchange, Kinds

(* What a callback has to leave behind.                                    *)
LEMMA ExchangeMoved ==
  ASSUME CacheInv, NEW r \in Requests, NEW x \in Exchange, NEW u \in User,
         ex' = [ex EXCEPT ![r] = x], user' = [user EXCEPT ![r] = u],
         UNCHANGED <<world, now, ask, started>>,
         store' \subseteq Entry, inflight' \subseteq Paths \X (Sels \cup {NoSel}),
         withdrawn' \subseteq Paths \X (Sels \cup {NoSel}),
         origin' \in [Paths -> 1..MaxVersion],
         \A p \in Paths : origin[p] <= origin'[p],
         SoundStore', Slots', ExchangeInv(r)'
  PROVE  CacheInv'
<1>1. Kinds /\ \A q \in Requests : ExchangeInv(q)
  BY DEF CacheInv
<1>2. /\ \A q \in Requests \ {r} : ex'[q] = ex[q] /\ user'[q] = user[q] /\ ask'[q] = ask[q]
      /\ ex' \in [Requests -> Exchange] /\ user' \in [Requests -> User]
  BY <1>1 DEF Kinds
<1>3. Kinds'
  BY <1>1, <1>2 DEF Kinds
<1> QED
  BY <1>1, <1>2, <1>3, OthersUnmoved DEF CacheInv

LEMMA TellGives ==
  ASSUME Kinds, NEW r \in Requests, NEW u \in User, Tell(r, u)
  PROVE  /\ user' = [user EXCEPT ![r] = IF ex[r].background THEN user[r] ELSE u]
         /\ (IF ex[r].background THEN user[r] ELSE u) \in User
BY DEF Kinds, Tell

(* A callback that concerns neither the store nor the slots.               *)
LEMMA Forwards ==
  ASSUME CacheInv, NEW r \in Requests, NEW x \in Exchange, NEW u \in User,
         ex' = [ex EXCEPT ![r] = x], user' = [user EXCEPT ![r] = u],
         UNCHANGED <<world, now, ask, started, store, inflight, withdrawn, origin>>,
         x.background = ex[r].background,
         ex[r].background => x.entry = ex[r].entry,
         SoundChoice(r)', SoundValue(r)', Progress(r)', Telling(r)'
  PROVE  CacheInv'
<1>1. Kinds /\ SoundStore /\ Slots
  BY DEF CacheInv
<1>2. ASSUME NEW q \in Requests
      PROVE  /\ ex'[q].background = ex[q].background
             /\ ex[q].background => ex'[q].entry = ex[q].entry
  <2>1. ex'[r] = x
    BY <1>1 DEF Kinds
  <2>2. CASE q # r
    BY <1>1, <2>2 DEF Kinds
  <2> QED
    BY <2>1, <2>2
<1>3. Slots'
  BY <1>1, <1>2, SlotsUnmoved
<1>4. SoundStore'
  BY <1>1, StoreUnmoved
<1>5. \A p \in Paths : origin[p] <= origin'[p]
  BY <1>1, OriginUnmoved
<1>6. /\ store' \subseteq Entry /\ inflight' \subseteq Paths \X (Sels \cup {NoSel})
      /\ withdrawn' \subseteq Paths \X (Sels \cup {NoSel})
      /\ origin' \in [Paths -> 1..MaxVersion]
  BY <1>1 DEF Kinds
<1>7. ExchangeInv(r)'
  BY DEF ExchangeInv
<1> QED
  BY <1>3, <1>4, <1>5, <1>6, <1>7, ExchangeMoved

LEMMA OnConnectKeeps ==
  ASSUME CacheInv, NEW r \in Requests, OnConnect(r)
  PROVE  CacheInv'
<1> DEFINE y == ex[r]
           again == Again(r)
           x == [y EXCEPT !.phase = "open", !.cut = again, !.aborted = again,
                          !.value = NoEntry]
           w == [user[r] EXCEPT !.open = TRUE]
           u == IF y.background THEN user[r] ELSE w
<1>1. Kinds /\ ExchangeInv(r)
  BY DEF CacheInv
<1>2. /\ y.phase = "sent" /\ Tell(r, w)
      /\ ex' = [ex EXCEPT ![r].phase = "open", ![r].cut = again,
                          ![r].aborted = again, ![r].value = NoEntry]
      /\ UNCHANGED <<world, now, ask, started, store, inflight, withdrawn, origin>>
  BY DEF OnConnect
<1>3. again = (~y.background /\ user[r].cancelled) /\ again \in BOOLEAN
  BY <1>1 DEF Again, Kinds, Exchange, User
<1>4. y \in Exchange /\ user[r] \in User /\ ex' = [ex EXCEPT ![r] = x]
  BY <1>1, <1>2 DEF Kinds
<1> HIDE DEF again
<1>5. /\ x \in Exchange /\ x.phase = "open" /\ x.cut = again /\ x.aborted = again
      /\ x.value = NoEntry /\ x.kind = y.kind /\ x.background = y.background
      /\ x.entry = y.entry /\ x.failover = y.failover /\ x.mode = y.mode
      /\ x.answer = y.answer /\ x.known = y.known /\ x.sentAt = y.sentAt
  <2>1. y \in Exchange /\ again \in BOOLEAN
    BY <1>3, <1>4
  <2> HIDE DEF y
  <2>2. x \in Exchange
    BY <2>1 DEF Exchange
  <2> QED
    BY <2>1, <2>2 DEF Exchange
<1>6. /\ w \in User /\ w.open = TRUE /\ w.head = user[r].head
      /\ w.received = user[r].received /\ w.cancelled = user[r].cancelled
      /\ w.ended = user[r].ended
  BY <1>4 DEF User
<1> HIDE DEF w, x
<1>7. user' = [user EXCEPT ![r] = u] /\ u \in User
  BY <1>1, <1>2, <1>6, TellGives
<1> HIDE DEF u
<1>8. ex'[r] = x /\ user'[r] = u
  BY <1>1, <1>4, <1>7 DEF Kinds
<1>9. y.aborted = FALSE /\ y.cut = FALSE /\ y.mode # "validated"
  BY <1>1, <1>2, <1>4 DEF ExchangeInv, Progress, Exchange
<1>10. SoundChoice(r)'
  BY <1>1, <1>2, <1>5, <1>8, <1>9 DEF ExchangeInv, SoundChoice
<1>11. SoundValue(r)'
  BY <1>1, <1>2, <1>5, <1>8, <1>9 DEF ExchangeInv, SoundValue
<1>12. ask[r] # NoEntry
  BY <1>2, AskOfRunning
<1>13. u.ended = user[r].ended
  BY <1>6 DEF u
<1>14. Progress(r)'
  BY <1>1, <1>2, <1>5, <1>8, <1>9, <1>12, <1>13 DEF ExchangeInv, Progress
<1>15. Telling(r)'
  BY <1>1, <1>2, <1>3, <1>5, <1>6, <1>8, <1>9 DEF ExchangeInv, Telling, Running, u
<1> QED
  BY <1>2, <1>4, <1>5, <1>7, <1>10, <1>11, <1>14, <1>15, Forwards

(* The headers of a response reach the handler above, and those of one     *)
(* that is read through a CacheHandler leave a value.                      *)
LEMMA HeadersKeep ==
  ASSUME CacheInv, NEW r \in Requests, NEW ans \in Answers[world], Answered(r, ans),
         NEW kind \in {"raw", "cache"}, NEW mode \in {ex[r].mode, "pass"},
         NEW value \in {NoEntry, NewValue(ask[r], ans, ex[r].sentAt)},
         Tell(r, Forwarded(r, ans)),
         ex' = [ex EXCEPT ![r] = [ex[r] EXCEPT !.phase = Reading(ans), !.kind = kind,
                                               !.mode = mode, !.value = value]],
         UNCHANGED <<world, started, store, inflight, withdrawn, origin>>
  PROVE  CacheInv'
<1> DEFINE y == ex[r]
           x == [y EXCEPT !.phase = Reading(ans), !.kind = kind, !.mode = mode,
                          !.value = value]
           w == Forwarded(r, ans)
           u == IF y.background THEN user[r] ELSE w
<1>1. Kinds /\ ExchangeInv(r) /\ y \in Exchange /\ user[r] \in User
  BY DEF CacheInv, Kinds
<1>2. y.phase = "open" /\ ~y.cut /\ UNCHANGED <<now, ask>>
  BY DEF Answered
<1>3. ask[r] \in Asks[world] /\ ask[r] # NoEntry /\ ask[r] \in Ask
  BY <1>2, AskOfRunning
<1>4. y.mode \notin {"validated", "stale"} /\ ~y.aborted
  BY <1>1, <1>2 DEF ExchangeInv, Progress
<1>5. y.sentAt \in Nat /\ y.sentAt <= now /\ y.known <= origin[ask[r].path]
  BY <1>1, <1>3 DEF ExchangeInv, SoundValue, Exchange
<1>6. value # NoEntry => /\ SoundEntry(value) /\ value.cachedAt <= now
                         /\ value.path = ask[r].path /\ value.body[2] >= y.known
  BY <1>1, <1>3, <1>5, NewValueSound
<1>7. value \in Entry \cup {NoEntry}
  BY <1>6 DEF SoundEntry
<1>8. Reading(ans) \in {"head", "body"}
  BY DEF Reading
<1>9. /\ x \in Exchange /\ x.phase = Reading(ans) /\ x.kind = kind /\ x.mode = mode
      /\ x.value = value /\ x.cut = y.cut /\ x.aborted = y.aborted
      /\ x.background = y.background /\ x.entry = y.entry /\ x.failover = y.failover
      /\ x.answer = y.answer /\ x.known = y.known /\ x.sentAt = y.sentAt
  <2> DEFINE phase == Reading(ans)
             z == [y EXCEPT !.phase = phase, !.kind = kind]
  <2>1. mode \in {"none", "pass", "validated", "stale"}
    BY <1>1 DEF Exchange
  <2>2. phase \in {"none", "sent", "open", "head", "body", "over"}
    BY <1>8
  <2> HIDE DEF y, phase
  <2>3. /\ z \in Exchange /\ z.phase = phase /\ z.kind = kind
        /\ z.cut = y.cut /\ z.aborted = y.aborted
        /\ z.background = y.background /\ z.entry = y.entry /\ z.failover = y.failover
        /\ z.answer = y.answer /\ z.known = y.known /\ z.sentAt = y.sentAt
    <3>1. y \in Exchange /\ kind \in {"none", "raw", "unsafe", "cache", "reval"}
      BY <1>1
    <3>2. z \in Exchange
      BY <2>2, <3>1 DEF Exchange
    <3> QED
      BY <3>1, <3>2 DEF Exchange
  <2>4. x = [z EXCEPT !.mode = mode, !.value = value]
    BY <1>1 DEF Exchange, phase
  <2> HIDE DEF x, z
  <2>5. x \in Exchange
    BY <1>7, <2>1, <2>3, <2>4 DEF Exchange
  <2>6. /\ x.phase = phase /\ x.kind = kind /\ x.mode = mode
        /\ x.value = value /\ x.cut = z.cut /\ x.aborted = z.aborted
        /\ x.background = z.background /\ x.entry = z.entry /\ x.failover = z.failover
        /\ x.answer = z.answer /\ x.known = z.known /\ x.sentAt = z.sentAt
    BY <2>3, <2>4 DEF Exchange
  <2> QED
    BY <2>3, <2>5, <2>6 DEF phase
<1>10. /\ w \in User /\ w.head # NoHead /\ w.open = user[r].open
       /\ w.received = user[r].received /\ w.cancelled = user[r].cancelled
       /\ w.ended = user[r].ended
  <2> DEFINE rep  == Rep(ask[r].path, origin[ask[r].path], ask[r].sel)
             head == HeadOf(IF ans.status \in Bodiless THEN NoRep ELSE rep)
  <2>1. rep \in Reps
    BY <1>1, <1>3, RepKind DEF Kinds, Ask
  <2> HIDE DEF rep
  <2>2. head \in Heads /\ head # NoHead
    BY <2>1, BodyKind
  <2>3. w = [user[r] EXCEPT !.head = head]
    BY DEF Forwarded, rep
  <2> HIDE DEF head, w
  <2> QED
    BY <1>1, <2>2, <2>3 DEF User
<1> HIDE DEF x, w
<1>11. user' = [user EXCEPT ![r] = u] /\ u \in User /\ ex' = [ex EXCEPT ![r] = x]
  BY <1>1, <1>10, TellGives DEF x, w
<1> HIDE DEF u
<1>12. ex'[r] = x /\ user'[r] = u
  BY <1>1, <1>11 DEF Kinds
<1>13. SoundChoice(r)'
  BY <1>1, <1>2, <1>9, <1>12 DEF ExchangeInv, SoundChoice
<1>14. SoundValue(r)'
  BY <1>2, <1>4, <1>5, <1>6, <1>9, <1>12 DEF SoundValue
<1>15. u.ended = user[r].ended
  BY <1>10 DEF u
<1>16. Progress(r)'
  BY <1>1, <1>2, <1>3, <1>4, <1>8, <1>9, <1>12, <1>15 DEF ExchangeInv, Progress
<1>17. Telling(r)'
  BY <1>1, <1>2, <1>4, <1>8, <1>9, <1>10, <1>12 DEF ExchangeInv, Telling, Running, u
<1> QED
  BY <1>2, <1>9, <1>11, <1>13, <1>14, <1>16, <1>17, Forwards

LEMMA OnHeadersKeeps ==
  ASSUME CacheInv, NEW r \in Requests, NEW ans \in Answers[world], OnHeaders(r, ans)
  PROVE  CacheInv'
<1> DEFINE kind == ex[r].kind
           mode == ex[r].mode
           value == IF kind = "raw" THEN NoEntry ELSE NewValue(ask[r], ans, ex[r].sentAt)
<1>1. kind \in {"raw", "cache"} /\ ex[r] \in Exchange /\ ex \in [Requests -> Exchange]
  BY DEF OnHeaders, CacheInv, Kinds
<1>2. ex' = [ex EXCEPT ![r] = [ex[r] EXCEPT !.phase = Reading(ans), !.kind = kind,
                                            !.mode = mode, !.value = value]]
  <2>1. ex' = [ex EXCEPT ![r].phase = Reading(ans), ![r].value = value]
    BY DEF OnHeaders
  <2> HIDE DEF value
  <2> QED
    BY <1>1, <2>1 DEF Exchange
<1>3. /\ mode \in {ex[r].mode, "pass"}
      /\ value \in {NoEntry, NewValue(ask[r], ans, ex[r].sentAt)}
  OBVIOUS
<1> HIDE DEF kind, mode, value
<1> QED
  BY <1>1, <1>2, <1>3, HeadersKeep DEF OnHeaders

LEMMA OnReplacementKeeps ==
  ASSUME CacheInv, NEW r \in Requests, NEW ans \in Answers[world], OnReplacement(r, ans)
  PROVE  CacheInv'
<1> DEFINE kind == IF ask[r].nostore THEN "raw" ELSE "cache"
           mode == "pass"
           value == IF ask[r].nostore THEN NoEntry ELSE NewValue(ask[r], ans, ex[r].sentAt)
<1>1. kind \in {"raw", "cache"} /\ ex[r] \in Exchange /\ ex \in [Requests -> Exchange]
  BY DEF CacheInv, Kinds
<1>2. ex' = [ex EXCEPT ![r] = [ex[r] EXCEPT !.phase = Reading(ans), !.kind = kind,
                                            !.mode = mode, !.value = value]]
  <2>1. ex' = [ex EXCEPT ![r].phase = Reading(ans), ![r].mode = mode, ![r].kind = kind,
                         ![r].value = value]
    BY DEF OnReplacement
  <2> HIDE DEF value, kind, mode
  <2> QED
    BY <1>1, <2>1 DEF Exchange
<1>3. /\ mode \in {ex[r].mode, "pass"}
      /\ value \in {NoEntry, NewValue(ask[r], ans, ex[r].sentAt)}
  OBVIOUS
<1>4. /\ Answered(r, ans) /\ Tell(r, Forwarded(r, ans))
      /\ UNCHANGED <<world, started, store, inflight, withdrawn, origin>>
  BY DEF OnReplacement
<1> HIDE DEF kind, mode, value
<1> QED
  BY <1>1, <1>2, <1>3, <1>4, HeadersKeep

(* A successful change of a URL deletes its rows with the version it ends. *)
LEMMA OnUnsafeHeadersKeeps ==
  ASSUME CacheInv, NEW r \in Requests, NEW ans \in Answers[world], OnUnsafeHeaders(r, ans)
  PROVE  CacheInv'
<1> DEFINE y == ex[r]
           x == [y EXCEPT !.phase = "body"]
           w == [user[r] EXCEPT !.head = HeadOf(NoRep)]
           u == IF y.background THEN user[r] ELSE w
           changed == IF ans.status <= 399 THEN Changed(r, ans) ELSE {}
<1>1. Kinds /\ SoundStore /\ Slots /\ ExchangeInv(r) /\ y \in Exchange /\ user[r] \in User
  BY DEF CacheInv, Kinds
<1>2. /\ y.phase = "open" /\ ~y.cut /\ y.kind = "unsafe" /\ Tell(r, w)
      /\ \A p \in changed : origin[p] < MaxVersion
      /\ origin' = [p \in Paths |-> IF p \in changed THEN origin[p] + 1 ELSE origin[p]]
      /\ store' = {e \in store : e.path \notin changed}
      /\ ex' = [ex EXCEPT ![r].phase = "body"]
      /\ UNCHANGED <<now, ask, inflight, world, started, withdrawn>>
  BY DEF OnUnsafeHeaders, Answered, Changed, Invalidated
<1> HIDE DEF changed
<1>3. origin' \in [Paths -> 1..MaxVersion] /\ \A p \in Paths : origin[p] <= origin'[p]
  BY <1>1, <1>2, CacheAssumption DEF Kinds
<1>4. ex' = [ex EXCEPT ![r] = x]
  BY <1>1, <1>2 DEF Kinds, Exchange
<1>5. /\ x \in Exchange /\ x.phase = "body" /\ x.kind = y.kind /\ x.cut = y.cut
      /\ x.aborted = y.aborted /\ x.background = y.background /\ x.entry = y.entry
      /\ x.failover = y.failover /\ x.mode = y.mode /\ x.value = y.value
      /\ x.answer = y.answer /\ x.known = y.known /\ x.sentAt = y.sentAt
  BY <1>1 DEF Exchange
<1>6. /\ w \in User /\ w.head # NoHead /\ w.open = user[r].open
      /\ w.received = user[r].received /\ w.cancelled = user[r].cancelled
      /\ w.ended = user[r].ended
  <2> DEFINE head == HeadOf(NoRep)
  <2>1. head \in Heads /\ head # NoHead
    BY BodyKind
  <2>2. w = [user[r] EXCEPT !.head = head]
    OBVIOUS
  <2> HIDE DEF head, w
  <2> QED
    BY <1>1, <2>1, <2>2 DEF User
<1> HIDE DEF x, w
<1>7. user' = [user EXCEPT ![r] = u] /\ u \in User
  BY <1>1, <1>2, <1>6, TellGives
<1> HIDE DEF u
<1>8. ex'[r] = x /\ user'[r] = u /\ u.ended = user[r].ended
  BY <1>1, <1>4, <1>6, <1>7 DEF Kinds, u
<1>9. y.mode \notin {"validated", "stale"}
  BY <1>1, <1>2 DEF ExchangeInv, Progress
<1>10. ask[r] \in Asks[world] /\ ask[r] # NoEntry /\ ask[r].path \in Paths
  BY <1>2, AskOfRunning DEF Ask
<1>11. SoundChoice(r)'
  BY <1>1, <1>2, <1>5, <1>8 DEF ExchangeInv, SoundChoice
<1>12. SoundValue(r)'
  <2>1. x.known <= origin'[ask[r].path]
    <3>1. y.known <= origin[ask[r].path]
      BY <1>1, <1>10 DEF ExchangeInv, SoundValue
    <3>2. /\ y.known \in Int /\ origin[ask[r].path] \in Int
          /\ origin'[ask[r].path] \in Int
      BY <1>1, <1>3, <1>10 DEF Kinds, Exchange
    <3> QED
      BY <1>3, <1>5, <1>10, <3>1, <3>2
  <2> QED
    BY <1>1, <1>2, <1>5, <1>8, <1>9, <2>1 DEF ExchangeInv, SoundValue
<1>13. Progress(r)'
  BY <1>1, <1>2, <1>5, <1>8, <1>9, <1>10 DEF ExchangeInv, Progress
<1>14. Telling(r)'
  BY <1>1, <1>2, <1>5, <1>6, <1>8, <1>9 DEF ExchangeInv, Telling, Running, u
<1>15. SoundStore'
  <2>1. \A e \in store' : e \in store /\ origin'[e.path] = origin[e.path]
    BY <1>1, <1>2 DEF SoundStore, SoundEntry, Entry
  <2> QED
    BY <1>1, <1>2, <2>1 DEF SoundStore
<1>16. Slots'
  <2>1. \A q \in Requests : /\ ex'[q].background = ex[q].background
                            /\ ex[q].background => ex'[q].entry = ex[q].entry
    BY <1>1, <1>4, <1>5 DEF Kinds
  <2> QED
    BY <1>1, <1>2, <2>1, SlotsUnmoved
<1>17. /\ store' \subseteq Entry /\ inflight' \subseteq Paths \X (Sels \cup {NoSel})
       /\ withdrawn' \subseteq Paths \X (Sels \cup {NoSel})
  BY <1>1, <1>2 DEF Kinds
<1>18. ExchangeInv(r)'
  BY <1>11, <1>12, <1>13, <1>14 DEF ExchangeInv
<1> QED
  BY <1>2, <1>3, <1>4, <1>5, <1>7, <1>15, <1>16, <1>17, <1>18, ExchangeMoved

(* The entry under validation belongs to the URL of the request, so the    *)
(* representation a 304 names, or stands for, is one of its versions.      *)
LEMMA OnNotModifiedKeeps ==
  ASSUME CacheInv, NEW r \in Requests, NEW ans \in Answers[world], OnNotModified(r, ans)
  PROVE  CacheInv'
<1> DEFINE y == ex[r]
           rep == Rep(y.entry.path, origin[y.entry.path], ask[r].sel)
           answer == [ans |-> ans, rep |-> rep, at |-> now]
           x == [y EXCEPT !.phase = "head", !.mode = "validated", !.answer = answer]
<1>1. Kinds /\ ExchangeInv(r) /\ y \in Exchange /\ user[r] \in User
  BY DEF CacheInv, Kinds
<1>2. /\ y.phase = "open" /\ ~y.cut /\ y.kind = "reval" /\ ans.status = 304
      /\ ~ans.tagged => y.entry.body[2] = origin[y.entry.path]
      /\ UNCHANGED <<now, ask, store, inflight, origin, user, world, started, withdrawn>>
      /\ ex' = [ex EXCEPT ![r].phase = "head", ![r].mode = "validated",
                          ![r].answer = answer]
  BY DEF OnNotModified, Answered
<1>3. /\ ask[r] \in Asks[world] /\ ask[r] # NoEntry /\ ask[r].path \in Paths
      /\ ask[r].sel \in Sels
  BY <1>2, AskOfRunning DEF Ask
<1>4. ~y.aborted /\ y.mode # "stale"
  BY <1>1, <1>2 DEF ExchangeInv, Progress
<1>5. /\ SoundEntry(y.entry) /\ y.entry.path = ask[r].path
  BY <1>1, <1>2, <1>4 DEF ExchangeInv, SoundChoice
<1>6. /\ rep \in Reps /\ rep # NoRep /\ rep[2] = origin[ask[r].path]
      /\ origin[ask[r].path] \in Int
  BY <1>1, <1>3, <1>5, RepKind DEF Kinds
<1>7. answer \in Reply /\ answer.ans = ans /\ answer.rep = rep /\ answer.at = now
  BY <1>1, <1>6, AnswerKind DEF Reply, Kinds
<1> HIDE DEF rep, answer
<1>8. /\ x \in Exchange /\ x.phase = "head" /\ x.kind = y.kind /\ x.cut = y.cut
      /\ x.aborted = y.aborted /\ x.background = y.background /\ x.entry = y.entry
      /\ x.failover = y.failover /\ x.mode = "validated" /\ x.value = y.value
      /\ x.answer = answer /\ x.known = y.known /\ x.sentAt = y.sentAt
  BY <1>1, <1>7 DEF Exchange
<1>9. ex' = [ex EXCEPT ![r] = x]
  BY <1>1, <1>2 DEF Kinds, Exchange
<1> HIDE DEF x
<1>10. ex'[r] = x /\ user'[r] = user[r] /\ user' = [user EXCEPT ![r] = user[r]]
  <2>1. user = [user EXCEPT ![r] = user[r]]
    BY UserKept
  <2>2. ex'[r] = x
    BY <1>1, <1>9 DEF Kinds
  <2> QED
    BY <1>2, <2>1, <2>2
<1>11. Identified(x) => x.entry.body[2] >= x.known
  <2>1. y.known <= origin[ask[r].path] /\ y.known \in Int
    BY <1>1, <1>3 DEF ExchangeInv, SoundValue, Exchange
  <2>2. Identified(x) => y.entry.body[2] = origin[ask[r].path]
    <3>1. CASE ans.tagged
      BY <3>1, <1>5, <1>6, <1>7, <1>8 DEF Identified, SoundEntry
    <3>2. CASE ~ans.tagged
      BY <3>2, <1>2, <1>5
    <3> QED
      BY <3>1, <3>2
  <2> QED
    BY <1>6, <1>8, <2>1, <2>2
<1>12. SoundChoice(r)'
  BY <1>1, <1>2, <1>8, <1>10 DEF ExchangeInv, SoundChoice
<1>13. SoundValue(r)'
  <2>1. x.sentAt <= now /\ now <= now
    BY <1>1, <1>8 DEF ExchangeInv, SoundValue, Kinds
  <2> QED
    BY <1>1, <1>2, <1>4, <1>7, <1>8, <1>10, <1>11, <2>1 DEF ExchangeInv, SoundValue, Identified
<1>14. Progress(r)'
  BY <1>1, <1>2, <1>3, <1>4, <1>8, <1>10 DEF ExchangeInv, Progress
<1>15. Telling(r)'
  BY <1>1, <1>2, <1>4, <1>8, <1>10 DEF ExchangeInv, Telling, Running
<1>16. /\ x \in Exchange /\ user[r] \in User /\ x.background = y.background
       /\ x.entry = y.entry /\ user' = [user EXCEPT ![r] = user[r]]
       /\ UNCHANGED <<world, now, ask, started, store, inflight, withdrawn, origin>>
  BY <1>1, <1>2, <1>8, <1>10
<1> QED
  BY <1>9, <1>12, <1>13, <1>14, <1>15, <1>16, Forwards

LEMMA OnStaleErrorKeeps ==
  ASSUME CacheInv, NEW r \in Requests, NEW ans, OnStaleError(r, ans)
  PROVE  CacheInv'
<1> DEFINE y == ex[r]
           x == [y EXCEPT !.phase = "head", !.mode = "stale", !.cut = TRUE]
<1>1. Kinds /\ ExchangeInv(r) /\ y \in Exchange /\ user[r] \in User
  BY DEF CacheInv, Kinds
<1>2. /\ y.phase = "open" /\ ~y.cut /\ y.kind = "reval" /\ y.failover
      /\ UNCHANGED <<now, ask, store, inflight, origin, world, started, withdrawn>>
      /\ ex' = [ex EXCEPT ![r].phase = "head", ![r].mode = "stale", ![r].cut = TRUE]
  BY DEF OnStaleError, Answered
<1>3. PICK u \in Serve(user[r], y.entry) : user' = [user EXCEPT ![r] = u]
  BY DEF OnStaleError
<1>4. ~y.aborted /\ ask[r] # NoEntry /\ ~y.background
  BY <1>1, <1>2, AskOfRunning DEF ExchangeInv, Progress
<1>5. SoundEntry(y.entry)
  BY <1>1, <1>2, <1>4 DEF ExchangeInv, SoundChoice
<1>6. u \in User /\ u.ended # "none"
  BY <1>1, <1>3, <1>5, ServeKind
<1>7. ex' = [ex EXCEPT ![r] = x]
  BY <1>1, <1>2 DEF Kinds, Exchange
<1>8. /\ x \in Exchange /\ x.phase = "head" /\ x.kind = y.kind /\ x.cut = TRUE
      /\ x.aborted = y.aborted /\ x.background = y.background /\ x.entry = y.entry
      /\ x.failover = y.failover /\ x.mode = "stale" /\ x.value = y.value
      /\ x.answer = y.answer /\ x.known = y.known /\ x.sentAt = y.sentAt
  BY <1>1 DEF Exchange
<1> HIDE DEF x
<1>9. ex'[r] = x /\ user'[r] = u
  BY <1>1, <1>3, <1>7 DEF Kinds
<1>10. SoundChoice(r)'
  BY <1>1, <1>2, <1>8, <1>9 DEF ExchangeInv, SoundChoice
<1>11. SoundValue(r)'
  BY <1>1, <1>2, <1>8, <1>9 DEF ExchangeInv, SoundValue
<1>12. Progress(r)'
  BY <1>2, <1>4, <1>6, <1>8, <1>9 DEF Progress
<1>13. Telling(r)'
  BY <1>8, <1>9 DEF Telling
<1> QED
  BY <1>2, <1>3, <1>6, <1>7, <1>8, <1>10, <1>11, <1>12, <1>13, Forwards

LEMMA OnDataKeeps ==
  ASSUME CacheInv, NEW r \in Requests, OnData(r)
  PROVE  CacheInv'
<1> DEFINE y == ex[r]
           value == IF y.value # NoEntry /\ y.value.size = "grows" THEN NoEntry
                    ELSE y.value
           x == [y EXCEPT !.phase = "body", !.value = value]
           body == Body(user[r].head.src)
           w == [user[r] EXCEPT !.received = body]
           u == IF y.background THEN user[r] ELSE w
<1>1. Kinds /\ ExchangeInv(r) /\ y \in Exchange /\ user[r] \in User
  BY DEF CacheInv, Kinds
<1>2. /\ y.phase = "head" /\ ~y.cut /\ y.kind \in {"raw", "cache"} /\ Tell(r, w)
      /\ ex' = [ex EXCEPT ![r].phase = "body", ![r].value = value]
      /\ UNCHANGED <<now, store, inflight, origin, ask, world, started, withdrawn>>
  BY DEF OnData, CacheInv, Kinds, Exchange
<1>3. ~y.aborted /\ y.mode \notin {"stale", "validated"} /\ ask[r] # NoEntry
  BY <1>1, <1>2, AskOfRunning DEF ExchangeInv, Progress, SoundValue
<1>4. ~y.background => user[r].head # NoHead /\ user[r].head \in Heads
  BY <1>1, <1>2, <1>3 DEF ExchangeInv, Telling, Running, User
<1>5. ~y.background => body \in {Body(rep) : rep \in Reps \cup {NoRep}}
  BY <1>4 DEF Heads
<1>6. value \in {NoEntry, y.value}
  OBVIOUS
<1> HIDE DEF value, body
<1>7. ex' = [ex EXCEPT ![r] = x]
  BY <1>1, <1>2 DEF Kinds, Exchange
<1>8. /\ x \in Exchange /\ x.phase = "body" /\ x.kind = y.kind /\ x.cut = y.cut
      /\ x.aborted = y.aborted /\ x.background = y.background /\ x.entry = y.entry
      /\ x.failover = y.failover /\ x.mode = y.mode /\ x.value = value
      /\ x.answer = y.answer /\ x.known = y.known /\ x.sentAt = y.sentAt
  BY <1>1, <1>6 DEF Exchange
<1>9. ~y.background =>
        /\ w \in User /\ w.head = user[r].head /\ w.open = user[r].open
        /\ w.received = body /\ w.cancelled = user[r].cancelled
        /\ w.ended = user[r].ended
  BY <1>1, <1>5 DEF User
<1> HIDE DEF x, w
<1>10. user' = [user EXCEPT ![r] = u] /\ u \in User
  <2>1. CASE y.background
    BY <1>1, <1>2, <2>1, UserKept DEF Tell
  <2>2. CASE ~y.background
    BY <1>2, <1>9, <2>2 DEF Tell
  <2> QED
    BY <2>1, <2>2
<1> HIDE DEF u
<1>11. ex'[r] = x /\ user'[r] = u /\ u.ended = user[r].ended
  BY <1>1, <1>7, <1>9, <1>10 DEF Kinds, u
<1>12. SoundChoice(r)'
  BY <1>1, <1>2, <1>8, <1>11 DEF ExchangeInv, SoundChoice
<1>13. SoundValue(r)'
  BY <1>1, <1>2, <1>3, <1>6, <1>8, <1>11 DEF ExchangeInv, SoundValue
<1>14. Progress(r)'
  BY <1>1, <1>2, <1>3, <1>8, <1>11 DEF ExchangeInv, Progress
<1>15. Telling(r)'
  BY <1>1, <1>2, <1>3, <1>4, <1>8, <1>9, <1>11 DEF ExchangeInv, Telling, Running, u, body
<1> QED
  BY <1>2, <1>7, <1>8, <1>10, <1>12, <1>13, <1>14, <1>15, Forwards

-----------------------------------------------------------------------------
(* The ends of an exchange.                                                *)

LEMMA EndKeeps ==
  ASSUME CacheInv, NEW r \in Requests, Running(r), Over(r), NEW u \in User,
         user' = [user EXCEPT ![r] = u], u.ended # "none",
         UNCHANGED <<world, now, ask, started, origin>>,
         store' \subseteq Entry, withdrawn' \subseteq Paths \X (Sels \cup {NoSel}),
         SoundStore'
  PROVE  CacheInv'
<1> DEFINE x == [NoExchange EXCEPT !.phase = "over"]
<1>1. Kinds /\ Slots
  BY DEF CacheInv
<1>2. /\ x \in Exchange /\ x.phase = "over" /\ x.kind = "none" /\ x.cut = FALSE
      /\ x.aborted = FALSE /\ x.background = FALSE /\ x.entry = NoEntry
      /\ x.failover = FALSE /\ x.mode = "none" /\ x.value = NoEntry
      /\ x.answer = NoEntry /\ x.known = 0 /\ x.sentAt = 0
  BY DEF NoExchange, Exchange
<1>3. ex' = [ex EXCEPT ![r] = x]
  BY DEF Over
<1> HIDE DEF x
<1>4. ex'[r] = x /\ user'[r] = u
  BY <1>1, <1>3 DEF Kinds
<1>5. ask[r] \in Asks[world] /\ ask[r] # NoEntry /\ ask[r].path \in Paths
  BY AskOfRunning DEF Running, Ask
<1>6. 0 <= now /\ 0 <= origin'[ask[r].path]
  BY <1>1, <1>5, CacheAssumption DEF Kinds
<1>7. SoundChoice(r)' /\ SoundValue(r)' /\ Progress(r)' /\ Telling(r)'
  BY <1>2, <1>4, <1>5, <1>6 DEF SoundChoice, SoundValue, Progress, Telling, Running
<1>8. Slots' /\ inflight' \subseteq inflight
  BY <1>1, OverKeeps
<1>9. /\ inflight' \subseteq Paths \X (Sels \cup {NoSel})
      /\ origin' \in [Paths -> 1..MaxVersion]
  BY <1>1, <1>8 DEF Kinds
<1>10. \A p \in Paths : origin[p] <= origin'[p]
  BY <1>1, OriginUnmoved
<1>11. ExchangeInv(r)'
  BY <1>7 DEF ExchangeInv
<1> QED
  BY <1>2, <1>3, <1>8, <1>9, <1>10, <1>11, ExchangeMoved

(* The end is told to the handler above, or its request was over before.   *)
LEMMA EndToldKeeps ==
  ASSUME CacheInv, NEW r \in Requests, Running(r), Over(r), NEW w \in User,
         Tell(r, w), w.ended # "none",
         UNCHANGED <<world, now, ask, started, origin>>,
         store' \subseteq Entry, withdrawn' \subseteq Paths \X (Sels \cup {NoSel}),
         SoundStore'
  PROVE  CacheInv'
<1> DEFINE u == IF ex[r].background THEN user[r] ELSE w
<1>1. user' = [user EXCEPT ![r] = u] /\ u \in User
  BY TellGives DEF CacheInv
<1>2. u.ended # "none"
  BY DEF CacheInv, ExchangeInv, Progress
<1> HIDE DEF u
<1> QED
  BY <1>1, <1>2, EndKeeps

(* A row replaces the one of its key, which is no longer withdrawn.        *)
LEMMA PutKeeps ==
  ASSUME Kinds, SoundStore, NEW e, NEW rows, NEW out, UNCHANGED <<now, origin>>,
         SoundEntry(e), e.cachedAt <= now, e.epoch = origin[e.path],
         e.body[2] >= e.known,
         rows \subseteq store, \A f \in rows : RowKey(f) \notin out,
         store' = Put(rows, e), withdrawn' = out \ {RowKey(e)}
  PROVE  SoundStore' /\ store' \subseteq Entry
<1>1. \A f \in store' : \/ f \in rows /\ RowKey(f) # RowKey(e)
                        \/ f = e /\ e.deleteAt > now
  BY DEF Put
<1>2. now \in Int /\ e.deleteAt \in Int
  BY DEF Kinds, SoundEntry, Entry
<1>3. ASSUME NEW f \in store'
      PROVE  /\ SoundEntry(f) /\ f.cachedAt <= now /\ now < f.deleteAt
             /\ f.epoch = origin[f.path] /\ f.body[2] >= f.known
             /\ RowKey(f) \notin withdrawn'
  BY <1>1, <1>2 DEF SoundStore
<1>4. ASSUME NEW f \in store', NEW g \in store', RowKey(f) = RowKey(g)
      PROVE  f = g
  BY <1>1, <1>4 DEF SoundStore
<1> QED
  BY <1>3, <1>4 DEF SoundStore, SoundEntry

LEMMA OnCompleteKeeps ==
  ASSUME CacheInv, NEW r \in Requests, OnComplete(r)
  PROVE  CacheInv'
<1> DEFINE y == ex[r]
           w == [user[r] EXCEPT !.ended = "complete"]
           stored == y.kind = "cache" /\ y.value # NoEntry /\ ~y.value.trailers
           e == Row(r, y.value)
<1>1. Kinds /\ SoundStore /\ ExchangeInv(r) /\ y \in Exchange /\ user[r] \in User
  BY DEF CacheInv, Kinds
<1>2. /\ y.phase = "body" /\ ~y.cut /\ Tell(r, w) /\ Over(r)
      /\ UNCHANGED <<now, origin, ask, world, started>>
      /\ IF stored THEN /\ store' = Put(store, e)
                        /\ withdrawn' = withdrawn \ {RowKey(y.value)}
         ELSE UNCHANGED <<store, withdrawn>>
  BY DEF OnComplete
<1>3. w \in User /\ w.ended = "complete"
  BY <1>1 DEF User
<1>4. SoundStore' /\ store' \subseteq Entry
  <2>1. CASE ~stored
    BY <1>1, <1>2, <2>1, StoreUnmoved DEF Kinds
  <2>2. CASE stored
    <3>1. /\ SoundEntry(y.value) /\ y.value.cachedAt <= now
          /\ y.value.body[2] >= y.known
      BY <1>1, <2>2 DEF ExchangeInv, SoundValue
    <3>2. /\ SoundEntry(e) /\ RowKey(e) = RowKey(y.value) /\ e.path = y.value.path
          /\ e.body = y.value.body /\ e.epoch = origin[e.path] /\ e.known = y.known
          /\ e.cachedAt = y.value.cachedAt
      BY <1>1, <3>1, RowSound
    <3>3. \A f \in store : RowKey(f) \notin withdrawn
      BY <1>1 DEF SoundStore
    <3> HIDE DEF e
    <3> QED
      BY <1>1, <1>2, <2>2, <3>1, <3>2, <3>3, PutKeeps
  <2> QED
    BY <2>1, <2>2
<1>5. withdrawn' \subseteq Paths \X (Sels \cup {NoSel})
  BY <1>1, <1>2 DEF Kinds
<1>6. Running(r)
  BY <1>2 DEF Running
<1> HIDE DEF w
<1> QED
  BY <1>2, <1>3, <1>4, <1>5, <1>6, EndToldKeeps

(* A validated exchange has what the freshening needs.                     *)
LEMMA ValidatedGives ==
  ASSUME CacheInv, NEW r \in Requests, ex[r].mode = "validated", Identified(ex[r])
  PROVE  /\ ask[r] \in Asks[world] /\ ex[r] \in Exchange
         /\ SoundEntry(ex[r].entry) /\ ex[r].entry.sel \in {NoSel, ask[r].sel}
         /\ ex[r].entry.body[2] >= ex[r].known
         /\ SoundEntry(Validated(ex[r], ask[r]))
         /\ Validated(ex[r], ask[r]).sel \in {NoSel, ask[r].sel}
         /\ Kept(ex[r]) =>
              /\ Validated(ex[r], ask[r]) = Freshened(ex[r], ask[r])
              /\ Freshened(ex[r], ask[r]).cachedAt <= now
              /\ Freshened(ex[r], ask[r]).path = ex[r].entry.path
              /\ Freshened(ex[r], ask[r]).body = ex[r].entry.body
<1> DEFINE y == ex[r]
<1>1. Kinds /\ ExchangeInv(r) /\ y \in Exchange
  BY DEF CacheInv, Kinds
<1>2. y.phase = "head" /\ y.kind = "reval" /\ ~y.aborted
  BY <1>1 DEF ExchangeInv, SoundValue, Progress
<1>3. ask[r] \in Asks[world]
  BY <1>2, AskOfRunning
<1>4. /\ SoundEntry(y.entry) /\ y.entry.sel \in {NoSel, ask[r].sel}
      /\ y.entry.body[2] >= y.known /\ y.answer \in Reply
      /\ y.sentAt <= y.answer.at /\ y.answer.at <= now
  BY <1>1, <1>2 DEF ExchangeInv, SoundValue, SoundChoice
<1>5. Kept(y) => /\ SoundEntry(Freshened(y, ask[r]))
                 /\ Freshened(y, ask[r]).cachedAt <= now
                 /\ Freshened(y, ask[r]).path = y.entry.path
                 /\ Freshened(y, ask[r]).body = y.entry.body
                 /\ Freshened(y, ask[r]).sel \in {NoSel, ask[r].sel}
  BY <1>1, <1>3, <1>4, FreshenedSound
<1> QED
  BY <1>1, <1>3, <1>4, <1>5 DEF Validated

LEMMA OnValidatedKeeps ==
  ASSUME CacheInv, NEW r \in Requests, OnValidated(r)
  PROVE  CacheInv'
<1> DEFINE y == ex[r]
           a == ask[r]
           f == Freshened(y, a)
           e == Row(r, f)
           retired == Retires(y, a)
           rows == IF retired THEN Expire(store, y.entry) ELSE store
           out == IF retired THEN withdrawn \cup {RowKey(y.entry)} ELSE withdrawn
<1>1. Kinds /\ SoundStore /\ user[r] \in User
  BY DEF CacheInv, Kinds
<1>2. /\ y.mode = "validated" /\ y.phase = "head" /\ Identified(y) /\ Over(r)
      /\ store' = StoreAfter(r) /\ withdrawn' = WithdrawnAfter(r)
      /\ UNCHANGED <<now, origin, ask, world, started>>
  BY DEF OnValidated
<1>3. PICK u \in Serve(user[r], Validated(y, a)) : Tell(r, u)
  BY DEF OnValidated
<1>4. /\ SoundEntry(y.entry) /\ y.entry.body[2] >= y.known
      /\ SoundEntry(Validated(y, a))
      /\ Kept(y) => /\ SoundEntry(f) /\ f.cachedAt <= now
                    /\ f.path = y.entry.path /\ f.body = y.entry.body
  BY <1>2, ValidatedGives
<1>5. u \in User /\ u.ended # "none"
  BY <1>1, <1>3, <1>4, ServeKind
<1>6. rows \subseteq store /\ \A g \in rows : RowKey(g) \notin out
  BY <1>1 DEF SoundStore, Expire
<1>7. out \subseteq Paths \X (Sels \cup {NoSel})
  BY <1>1, <1>4 DEF Kinds, RowKey, SoundEntry, Entry
<1>8. /\ store' = IF a.nostore THEN store ELSE IF Kept(y) THEN Put(rows, e) ELSE rows
      /\ withdrawn' = IF a.nostore THEN withdrawn
                      ELSE IF Kept(y) THEN out \ {RowKey(f)} ELSE out
  BY <1>2 DEF StoreAfter, WithdrawnAfter
<1> HIDE DEF rows, out, retired
<1>9. SoundStore' /\ store' \subseteq Entry
  <2>1. CASE a.nostore
    BY <1>1, <1>2, <1>8, <2>1, StoreUnmoved DEF Kinds
  <2>2. CASE ~a.nostore /\ ~Kept(y)
    <3>1. store' = rows /\ withdrawn' = out
      BY <1>8, <2>2
    <3> QED
      BY <1>1, <1>2, <1>6, <3>1 DEF SoundStore, Kinds
  <2>3. CASE ~a.nostore /\ Kept(y)
    <3>1. /\ SoundEntry(e) /\ RowKey(e) = RowKey(f) /\ e.path = f.path /\ e.body = f.body
          /\ e.epoch = origin[e.path] /\ e.known = y.known /\ e.cachedAt = f.cachedAt
      BY <1>1, <1>4, <2>3, RowSound
    <3>2. store' = Put(rows, e) /\ withdrawn' = out \ {RowKey(e)}
      BY <1>8, <2>3, <3>1
    <3> HIDE DEF e, f
    <3> QED
      BY <1>1, <1>2, <1>4, <1>6, <2>3, <3>1, <3>2, PutKeeps
  <2> QED
    BY <2>1, <2>2, <2>3
<1>10. withdrawn' \subseteq Paths \X (Sels \cup {NoSel})
  BY <1>1, <1>7, <1>8 DEF Kinds
<1>11. Running(r)
  BY <1>2 DEF Running
<1> QED
  BY <1>2, <1>3, <1>5, <1>9, <1>10, <1>11, EndToldKeeps

(* The unconditional request starts over for a handler that has seen none  *)
(* of the 304.                                                             *)
LEMMA OnMismatchKeeps ==
  ASSUME CacheInv, NEW r \in Requests, OnMismatch(r)
  PROVE  CacheInv'
<1> DEFINE y == ex[r]
           kind == IF ask[r].nostore THEN "raw" ELSE "cache"
           s == Sent(kind, r, ask[r])
           x == [s EXCEPT !.background = y.background, !.entry = y.entry]
<1>1. Kinds /\ ExchangeInv(r) /\ y \in Exchange
  BY DEF CacheInv, Kinds
<1>2. /\ y.mode = "validated" /\ y.phase = "head" /\ ex' = [ex EXCEPT ![r] = x]
      /\ UNCHANGED <<now, store, inflight, origin, ask, user, world, started, withdrawn>>
  BY DEF OnMismatch
<1>3. ask[r] \in Asks[world] /\ ask[r] # NoEntry
  BY <1>2, AskOfRunning
<1>4. kind \in {"raw", "cache"}
  OBVIOUS
<1> HIDE DEF kind
<1>5. /\ s \in Exchange /\ s.phase = "sent" /\ s.kind = kind /\ ~s.cut /\ ~s.aborted
      /\ ~s.failover /\ s.value = NoEntry /\ s.mode = "none" /\ s.sentAt <= now
      /\ s.known <= origin[ask[r].path]
  BY <1>1, <1>3, <1>4, SentKind
<1> HIDE DEF s
<1>6. /\ x \in Exchange /\ x.phase = "sent" /\ x.kind = kind /\ ~x.cut /\ ~x.aborted
      /\ ~x.failover /\ x.value = NoEntry /\ x.mode = "none" /\ x.sentAt <= now
      /\ x.known <= origin[ask[r].path] /\ x.background = y.background
      /\ x.entry = y.entry
  BY <1>1, <1>5 DEF Exchange
<1> HIDE DEF x
<1>7. user = [user EXCEPT ![r] = user[r]] /\ user[r] \in User
  BY UserKept
<1>8. ex'[r] = x /\ user'[r] = user[r]
  BY <1>1, <1>2 DEF Kinds
<1>9. SoundChoice(r)'
  BY <1>1, <1>2, <1>4, <1>6, <1>8 DEF ExchangeInv, SoundChoice
<1>10. SoundValue(r)'
  BY <1>2, <1>6, <1>8 DEF SoundValue
<1>11. Progress(r)'
  BY <1>1, <1>2, <1>3, <1>4, <1>6, <1>8 DEF ExchangeInv, Progress
<1>12. Telling(r)'
  BY <1>1, <1>2, <1>6, <1>8 DEF ExchangeInv, Telling, Running
<1> QED
  BY <1>2, <1>6, <1>7, <1>9, <1>10, <1>11, <1>12, Forwards

LEMMA OnErrorAfterStaleKeeps ==
  ASSUME CacheInv, NEW r \in Requests, OnErrorAfterStale(r)
  PROVE  CacheInv'
<1>1. /\ Running(r) /\ Over(r) /\ ex[r].mode = "stale"
      /\ UNCHANGED <<now, store, origin, ask, user, world, started, withdrawn>>
  BY DEF OnErrorAfterStale
<1>2. user = [user EXCEPT ![r] = user[r]] /\ user[r] \in User
  BY UserKept
<1>3. user[r].ended # "none"
  BY <1>1 DEF CacheInv, ExchangeInv, Progress
<1>4. SoundStore' /\ store' \subseteq Entry /\ withdrawn' \subseteq Paths \X (Sels \cup {NoSel})
  BY <1>1, StoreUnmoved DEF CacheInv, Kinds
<1> QED
  BY <1>1, <1>2, <1>3, <1>4, EndKeeps

LEMMA OnErrorFailoverKeeps ==
  ASSUME CacheInv, NEW r \in Requests, OnErrorFailover(r)
  PROVE  CacheInv'
<1>1. /\ Running(r) /\ Over(r) /\ ex[r].kind = "reval" /\ ~ex[r].aborted
      /\ UNCHANGED <<now, store, origin, ask, world, started, withdrawn>>
  BY DEF OnErrorFailover
<1>2. PICK u \in Serve(user[r], ex[r].entry) : Tell(r, u)
  BY DEF OnErrorFailover
<1>3. SoundEntry(ex[r].entry)
  BY <1>1 DEF CacheInv, ExchangeInv, SoundChoice
<1>4. u \in User /\ u.ended # "none"
  BY <1>2, <1>3, UserKept, ServeKind
<1>5. SoundStore' /\ store' \subseteq Entry /\ withdrawn' \subseteq Paths \X (Sels \cup {NoSel})
  BY <1>1, StoreUnmoved DEF CacheInv, Kinds
<1> QED
  BY <1>1, <1>2, <1>4, <1>5, EndToldKeeps

LEMMA OnErrorKeeps ==
  ASSUME CacheInv, NEW r \in Requests, OnError(r)
  PROVE  CacheInv'
<1> DEFINE w == Failed(user[r])
<1>1. /\ Running(r) /\ Over(r) /\ Tell(r, w)
      /\ UNCHANGED <<now, store, origin, ask, world, started, withdrawn>>
  BY DEF OnError
<1>2. w \in User /\ w.ended # "none"
  BY UserKept DEF Failed, User
<1>3. SoundStore' /\ store' \subseteq Entry /\ withdrawn' \subseteq Paths \X (Sels \cup {NoSel})
  BY <1>1, StoreUnmoved DEF CacheInv, Kinds
<1> HIDE DEF w
<1> QED
  BY <1>1, <1>2, <1>3, EndToldKeeps

(* Only a request that is being answered can be aborted, which a refresh   *)
(* is not: its slot stays its own.                                         *)
LEMMA AbortKeeps ==
  ASSUME CacheInv, NEW r \in Requests, Abort(r)
  PROVE  CacheInv'
<1> DEFINE y == ex[r]
           dead == [NoExchange EXCEPT !.kind = y.kind, !.phase = "open", !.cut = TRUE,
                                      !.aborted = TRUE]
           x == IF y.phase = "sent" THEN y ELSE dead
           u == [user[r] EXCEPT !.cancelled = TRUE]
<1>1. Kinds /\ ExchangeInv(r) /\ y \in Exchange /\ user[r] \in User
  BY DEF CacheInv, Kinds
<1>2. /\ user[r].open /\ user[r].ended = "none" /\ user' = [user EXCEPT ![r].cancelled = TRUE]
      /\ ex' = IF y.phase = "sent" THEN ex ELSE [ex EXCEPT ![r] = dead]
      /\ UNCHANGED <<now, store, inflight, origin, ask, world, started, withdrawn>>
  BY DEF Abort
<1>3. y.phase # "over" /\ ~y.background /\ y.mode # "stale"
  BY <1>1, <1>2 DEF ExchangeInv, Progress
<1>4. y.phase # "none" /\ ask[r] # NoEntry
  BY <1>1, <1>2 DEF ExchangeInv, Progress, NewUser
<1>5. ask[r] \in Asks[world] /\ ask[r].path \in Paths
  BY <1>4, AskOfRunning DEF Ask
<1>6. 0 <= now /\ 0 <= origin[ask[r].path]
  BY <1>1, <1>5, CacheAssumption DEF Kinds
<1>7. /\ dead \in Exchange /\ dead.kind = y.kind /\ dead.phase = "open" /\ dead.cut = TRUE
      /\ dead.aborted = TRUE /\ dead.background = FALSE /\ dead.entry = NoEntry
      /\ dead.failover = FALSE /\ dead.mode = "none" /\ dead.value = NoEntry
      /\ dead.answer = NoEntry /\ dead.known = 0 /\ dead.sentAt = 0
  BY <1>1 DEF NoExchange, Exchange
<1>8. /\ u \in User /\ u.open = user[r].open /\ u.ended = user[r].ended
      /\ u.head = user[r].head /\ u.received = user[r].received
  BY <1>1 DEF User
<1> HIDE DEF dead, u
<1>9. x \in Exchange /\ ex' = [ex EXCEPT ![r] = x]
  BY <1>1, <1>2, <1>7 DEF Kinds
<1>10. user' = [user EXCEPT ![r] = u]
  BY <1>1, <1>2 DEF Kinds, u
<1>11. ex'[r] = x /\ user'[r] = u
  BY <1>1, <1>9, <1>10 DEF Kinds
<1>12. x.background = y.background
  <2>1. y.background = FALSE
    BY <1>1, <1>3 DEF Exchange
  <2> QED
    BY <1>7, <2>1
<1>13. CASE y.phase = "sent"
  <2>1. x = y
    BY <1>13
  <2> HIDE DEF x
  <2>2. SoundChoice(r)' /\ SoundValue(r)'
    BY <1>1, <1>2, <1>11, <2>1 DEF ExchangeInv, SoundChoice, SoundValue
  <2>3. Progress(r)'
    BY <1>1, <1>2, <1>3, <1>4, <1>8, <1>11, <2>1 DEF ExchangeInv, Progress
  <2>4. Telling(r)'
    BY <1>1, <1>8, <1>11, <1>13, <2>1 DEF ExchangeInv, Telling, Running
  <2> QED
    BY <1>2, <1>8, <1>9, <1>10, <1>12, <2>1, <2>2, <2>3, <2>4, Forwards
<1>14. CASE y.phase # "sent"
  <2>1. x = dead
    BY <1>14
  <2> HIDE DEF x
  <2>2. SoundChoice(r)' /\ SoundValue(r)'
    BY <1>2, <1>6, <1>7, <1>11, <2>1 DEF SoundChoice, SoundValue
  <2>3. Progress(r)'
    BY <1>2, <1>4, <1>7, <1>11, <2>1 DEF Progress
  <2>4. Telling(r)'
    BY <1>2, <1>7, <1>8, <1>11, <2>1 DEF Telling, Running
  <2> QED
    BY <1>2, <1>3, <1>8, <1>9, <1>10, <1>12, <2>2, <2>3, <2>4, Forwards
<1> QED
  BY <1>13, <1>14

LEMMA RenewKeeps ==
  ASSUME CacheInv, NEW r \in Requests, Renew(r)
  PROVE  CacheInv'
<1>1. Kinds /\ SoundStore /\ Slots /\ \A q \in Requests : ExchangeInv(q)
  BY DEF CacheInv
<1>2. /\ ex[r].phase = "over"
      /\ ask' = [ask EXCEPT ![r] = NoEntry]
      /\ ex' = [ex EXCEPT ![r] = NoExchange]
      /\ user' = [user EXCEPT ![r] = NewUser]
      /\ UNCHANGED <<now, store, inflight, origin, world, started, withdrawn>>
  BY DEF Renew
<1>3. NewUser \in User /\ NoExchange \in Exchange
  BY NewUserKind DEF NoExchange, Exchange
<1>4. /\ ask'[r] = NoEntry /\ ex'[r] = NoExchange /\ user'[r] = NewUser
      /\ \A q \in Requests \ {r} :
           ask'[q] = ask[q] /\ ex'[q] = ex[q] /\ user'[q] = user[q]
  BY <1>1, <1>2 DEF Kinds
<1>5. Kinds'
  BY <1>1, <1>2, <1>3 DEF Kinds
<1>6. SoundStore'
  BY <1>1, <1>2, StoreUnmoved
<1>7. Slots'
  <2>1. ex[r].background = FALSE /\ ex'[r].background = FALSE
    BY <1>1, <1>2, <1>4 DEF ExchangeInv, Progress, Kinds, Exchange, NoExchange
  <2> QED
    BY <1>1, <1>2, <1>4, <2>1, SlotsUnmoved
<1>8. 0 <= now
  BY <1>1 DEF Kinds
<1>9. ExchangeInv(r)'
  BY <1>2, <1>4, <1>8
     DEF ExchangeInv, SoundChoice, SoundValue, Progress, Telling, Running, NoExchange
<1>10. \A p \in Paths : origin[p] <= origin'[p]
  BY <1>1, <1>2, OriginUnmoved
<1> QED
  BY <1>1, <1>2, <1>4, <1>5, <1>6, <1>7, <1>9, <1>10, OthersUnmoved DEF CacheInv

LEMMA TickKeeps == ASSUME CacheInv, Tick PROVE CacheInv'
<1>1. Kinds /\ SoundStore /\ Slots /\ \A q \in Requests : ExchangeInv(q)
  BY DEF CacheInv
<1>2. /\ now < MaxNow /\ now' = now + 1 /\ store' = {e \in store : e.deleteAt > now'}
      /\ UNCHANGED <<inflight, origin, ask, ex, user, world, started, withdrawn>>
  BY DEF Tick
<1>3. Kinds'
  BY <1>1, <1>2, CacheAssumption DEF Kinds
<1>4. now \in Nat /\ now <= now'
  BY <1>1, <1>2 DEF Kinds
<1>5. SoundStore'
  <2>1. ASSUME NEW e \in store'
        PROVE  e \in store /\ e.cachedAt <= now' /\ now' < e.deleteAt
    <3>1. e \in store /\ e.cachedAt <= now /\ e.cachedAt \in Int /\ e.deleteAt \in Int
      BY <1>1, <1>2 DEF SoundStore, SoundEntry, Entry
    <3> QED
      BY <1>2, <1>4, <3>1
  <2> QED
    BY <1>1, <1>2, <2>1 DEF SoundStore
<1>6. Slots'
  BY <1>1, <1>2, SlotsUnmoved
<1>7. ASSUME NEW q \in Requests
      PROVE  ExchangeInv(q)'
  <2>1. \A p \in Paths : origin[p] <= origin'[p]
    BY <1>1, <1>2, OriginUnmoved
  <2> QED
    BY <1>1, <1>2, <1>3, <1>4, <2>1, Unmoved
<1> QED
  BY <1>3, <1>5, <1>6, <1>7 DEF CacheInv

-----------------------------------------------------------------------------
(* The inductive invariant.                                                *)

LEMMA InitSound == Init => CacheInv
<1> SUFFICES ASSUME Init
             PROVE  CacheInv
  OBVIOUS
<1>1. Kinds
  <2>1. MaxStarts[world] \in Nat
    BY CacheAssumption DEF Init
  <2>2. NewUser \in User /\ NoExchange \in Exchange
    BY NewUserKind DEF NoExchange, Exchange
  <2> QED
    BY <2>1, <2>2, CacheAssumption DEF Init, Kinds
<1>2. SoundStore
  BY DEF Init, SoundStore
<1>3. \A r \in Requests : ex[r] = NoExchange /\ user[r] = NewUser /\ ask[r] = NoEntry
  BY DEF Init
<1>4. Slots
  BY <1>3 DEF Init, Slots, Refreshing, NoExchange
<1>5. \A r \in Requests : ExchangeInv(r)
  BY <1>3 DEF Init, ExchangeInv, SoundChoice, SoundValue, Progress, Telling, Running, NoExchange
<1> QED
  BY <1>1, <1>2, <1>4, <1>5 DEF CacheInv

LEMMA StutterKeeps == CacheInv /\ UNCHANGED vars => CacheInv'
<1> SUFFICES ASSUME CacheInv, UNCHANGED vars
             PROVE  CacheInv'
  OBVIOUS
<1>1. Kinds' /\ SoundStore' /\ Slots'
  BY DEF CacheInv, Kinds, SoundStore, Slots, Refreshing, vars
<1>2. ASSUME NEW r \in Requests
      PROVE  ExchangeInv(r)'
  BY DEF CacheInv, ExchangeInv, SoundChoice, SoundValue, Progress, Telling, Running, vars
<1> QED
  BY <1>1, <1>2 DEF CacheInv

(* The asks of a world and the answers the callbacks get are the ones the  *)
(* lemmas of the actions speak of.                                         *)
LEMMA StepIs ==
  ASSUME Next
  PROVE  \/ \E r \in Requests :
              \/ Renew(r) \/ OnConnect(r) \/ OnData(r) \/ End(r) \/ Abort(r)
              \/ \E a \in Asks[world] :
                   \/ \E e \in Candidates(a) :
                        \/ Fetch(r, a, e) \/ Hit(r, a, e) \/ GatewayTimeout(r, a, e)
                        \/ Revalidate(r, a, e) \/ ServeWhileRevalidate(r, a, e)
                   \/ \E e : Bypass(r, a, e)
              \/ \E ans \in Answers[world] :
                   \/ OnHeaders(r, ans) \/ OnUnsafeHeaders(r, ans)
                   \/ OnNotModified(r, ans) \/ OnStaleError(r, ans)
                   \/ OnReplacement(r, ans)
         \/ Tick
<1>1. ASSUME NEW r \in Requests, Start(r)
      PROVE  \E a \in Asks[world] :
               \/ \E e \in Candidates(a) :
                    \/ Fetch(r, a, e) \/ Hit(r, a, e) \/ GatewayTimeout(r, a, e)
                    \/ Revalidate(r, a, e) \/ ServeWhileRevalidate(r, a, e)
               \/ \E e : Bypass(r, a, e)
  <2>1. PICK a \in Asks[world] : \E e \in IF a.unsafe THEN {NoEntry} ELSE Candidates(a) :
           \/ Bypass(r, a, e) \/ Fetch(r, a, e) \/ Hit(r, a, e)
           \/ GatewayTimeout(r, a, e) \/ Revalidate(r, a, e)
           \/ ServeWhileRevalidate(r, a, e)
    BY <1>1 DEF Start
  <2>2. PICK e \in IF a.unsafe THEN {NoEntry} ELSE Candidates(a) :
           \/ Bypass(r, a, e) \/ Fetch(r, a, e) \/ Hit(r, a, e)
           \/ GatewayTimeout(r, a, e) \/ Revalidate(r, a, e)
           \/ ServeWhileRevalidate(r, a, e)
    BY <2>1
  <2>3. e \in Candidates(a)
    BY <2>2 DEF Candidates
  <2> QED
    BY <2>2, <2>3
<1> QED
  BY <1>1 DEF Next, Respond

LEMMA NextKeeps == CacheInv /\ Next => CacheInv'
<1> SUFFICES ASSUME CacheInv, Next
             PROVE  CacheInv'
  OBVIOUS
<1>1. ASSUME NEW r \in Requests, NEW a \in Asks[world], NEW e \in Candidates(a),
             \/ Fetch(r, a, e) \/ Hit(r, a, e) \/ GatewayTimeout(r, a, e)
             \/ Revalidate(r, a, e) \/ ServeWhileRevalidate(r, a, e)
      PROVE  CacheInv'
  BY <1>1, FetchKeeps, HitKeeps, GatewayTimeoutKeeps, RevalidateKeeps,
     ServeWhileRevalidateKeeps
<1>2. ASSUME NEW r \in Requests, NEW a \in Asks[world], NEW e, Bypass(r, a, e)
      PROVE  CacheInv'
  BY <1>2, BypassKeeps
<1>3. ASSUME NEW r \in Requests, NEW ans \in Answers[world],
             \/ OnHeaders(r, ans) \/ OnUnsafeHeaders(r, ans) \/ OnNotModified(r, ans)
             \/ OnStaleError(r, ans) \/ OnReplacement(r, ans)
      PROVE  CacheInv'
  BY <1>3, OnHeadersKeeps, OnUnsafeHeadersKeeps, OnNotModifiedKeeps, OnStaleErrorKeeps,
     OnReplacementKeeps
<1>4. ASSUME NEW r \in Requests, End(r)
      PROVE  CacheInv'
  BY <1>4, OnCompleteKeeps, OnValidatedKeeps, OnMismatchKeeps, OnErrorAfterStaleKeeps,
     OnErrorFailoverKeeps, OnErrorKeeps DEF End
<1>5. ASSUME NEW r \in Requests, Renew(r) \/ OnConnect(r) \/ OnData(r) \/ Abort(r)
      PROVE  CacheInv'
  BY <1>5, RenewKeeps, OnConnectKeeps, OnDataKeeps, AbortKeeps
<1>6. CASE Tick
  BY <1>6, TickKeeps
<1> QED
  BY <1>1, <1>2, <1>3, <1>4, <1>5, <1>6, StepIs

(* The inductive invariant holds.                                          *)
THEOREM CacheInvariance == Spec => []CacheInv
<1>1. CacheInv /\ [Next]_vars => CacheInv'
  BY NextKeeps, StutterKeeps
<1> QED
  BY <1>1, InitSound, PTL DEF Spec

(* Every variable is of its kind: a row is never found once its time is up,*)
(* and there is one for each URL and selecting value.                      *)
THEOREM CacheTypeCorrect == Spec => []TypeOK
<1>1. CacheInv => TypeOK
  <2> SUFFICES ASSUME CacheInv
               PROVE  TypeOK
    OBVIOUS
  <2>1. \A e \in store : /\ RowKey(e) \in Paths \X (Sels \cup {NoSel})
                         /\ e.cachedAt <= now /\ now < e.deleteAt /\ e.d \in Directives
    BY DEF CacheInv, SoundStore, SoundEntry, Entry, RowKey
  <2>2. \A r \in Requests :
       /\ ex[r].kind \in {"none", "raw", "unsafe", "cache", "reval"}
       /\ ex[r].phase \in {"none", "sent", "open", "head", "body", "over"}
       /\ ex[r].mode \in {"none", "pass", "validated", "stale"}
       /\ user[r].ended \in {"none", "complete", "error"}
    BY DEF CacheInv, Kinds, Exchange, User
  <2> QED
    BY <2>1, <2>2 DEF TypeOK, CacheInv, Kinds, SoundStore
<1> QED
  BY <1>1, CacheInvariance, PTL

(* A refresh holds its slot alone and frees it however it ends, and no     *)
(* exchange ends without ending its request.                               *)
THEOREM RefreshesSettle == Spec => []Settled
<1>1. CacheInv => Settled
  BY DEF CacheInv, Slots, Settled, ExchangeInv, Progress
<1> QED
  BY <1>1, CacheInvariance, PTL

(* The headers and the entity-tag of a stored response are those of its    *)
(* body, through any number of validations.                                *)
THEOREM TagsNameBodies == Spec => []TagNamesBody
<1>1. CacheInv => TagNamesBody
  BY DEF CacheInv, SoundStore, SoundEntry, TagNamesBody
<1> QED
  BY <1>1, CacheInvariance, PTL

(* Nothing from before the last successful change of a URL is stored, but  *)
(* what a request that was sent before it could still see.                 *)
THEOREM InvalidationsLast == Spec => []InvalidatedIsGone
<1>1. CacheInv => InvalidatedIsGone
  BY DEF CacheInv, SoundStore, InvalidatedIsGone
<1> QED
  BY <1>1, CacheInvariance, PTL

-----------------------------------------------------------------------------
(* What is answered from the store.                                        *)

ReuseSound == ReuseIsTimely /\ ReuseIsShareable

LEMMA NoReuseSound == NoReuse => ReuseSound'
BY DEF NoReuse, ReuseSound, ReuseIsTimely, ReuseIsShareable

LEMMA ReuseGives ==
  ASSUME NEW e, NEW a, NEW at, NEW how, Reuse(e, a, at, how),
         e.sel \in {NoSel, a.sel},
         how # "validated" => /\ Timely(e, a, at, how)
                              /\ e.by \/ a.auth => Permits(e.d),
         how = "hit" => RowKey(e) \notin withdrawn
  PROVE  ReuseSound'
<1>1. /\ reuse'.entry = e /\ reuse'.ask = a /\ reuse'.at = at /\ reuse'.how = how
      /\ reuse'.out = (RowKey(e) \in withdrawn)
  BY DEF Reuse
<1>2. ReuseIsTimely'
  BY <1>1 DEF ReuseIsTimely
<1>3. ReuseIsShareable'
  BY <1>1 DEF ReuseIsShareable
<1> QED
  BY <1>2, <1>3 DEF ReuseSound

LEMMA AllowedIsPermitted ==
  ASSUME NEW d \in Directives, AllowsAuthenticatedCaching(d)
  PROVE  Permits(d)
BY DEF Directives, AllowsAuthenticatedCaching, Permits, None, Malformed

(* A lookup.                                                               *)
LEMMA HitReuse ==
  ASSUME CacheInv, NEW r, NEW a \in Asks[world], NEW e \in Candidates(a),
         Hit(r, a, e) \/ ServeWhileRevalidate(r, a, e)
  PROVE  ReuseSound'
<1>1. /\ Reuse(e, a, now, "hit") /\ e # NoEntry
      /\ Usable(a, e) \/ MaxStaleAllows(a, e) \/ SwrAllows(a, e)
  BY RouteSound DEF Hit, ServeWhileRevalidate
<1>2. /\ SoundEntry(e) /\ RowKey(e) \notin withdrawn /\ e.sel \in {NoSel, a.sel}
      /\ MayShare(a, e)
  BY <1>1, CandidateSound DEF CacheInv
<1>3. Timely(e, a, now, "hit")
  BY <1>1, <1>2, HitIsTimely DEF CacheInv
<1>4. e.by \/ a.auth => Permits(e.d)
  BY <1>2, AllowedIsPermitted DEF SoundEntry, MayShare, Entry
<1> QED
  BY <1>1, <1>2, <1>3, <1>4, ReuseGives

(* An error within the window that was open when the request was sent.     *)
LEMMA ErrorReuse ==
  ASSUME CacheInv, NEW r \in Requests, ex[r].kind = "reval", ex[r].failover,
         ~ex[r].aborted, Reuse(ex[r].entry, ask[r], ex[r].sentAt, "error")
  PROVE  ReuseSound'
<1> DEFINE e == ex[r].entry
           a == ask[r]
           at == ex[r].sentAt
<1>1. /\ SoundEntry(e) /\ e.sel \in {NoSel, a.sel} /\ MayShare(a, e)
      /\ Timely(e, a, at, "error")
  BY DEF CacheInv, ExchangeInv, SoundChoice
<1>2. e.by \/ a.auth => Permits(e.d)
  BY <1>1, AllowedIsPermitted DEF SoundEntry, MayShare, Entry
<1>3. Reuse(e, a, at, "error")
  OBVIOUS
<1> HIDE DEF e, a, at
<1> QED
  BY <1>1, <1>2, <1>3, ReuseGives

LEMMA ValidatedReuse ==
  ASSUME CacheInv, NEW r \in Requests, OnValidated(r)
  PROVE  ReuseSound'
<1> DEFINE e == Validated(ex[r], ask[r])
           a == ask[r]
<1>1. e.sel \in {NoSel, a.sel}
  BY ValidatedGives DEF OnValidated
<1>2. Reuse(e, a, now, "validated")
  BY DEF OnValidated
<1> HIDE DEF e, a
<1> QED
  BY <1>1, <1>2, ReuseGives

LEMMA NextReuse == CacheInv /\ Next => ReuseSound'
<1> SUFFICES ASSUME CacheInv, Next
             PROVE  ReuseSound'
  OBVIOUS
<1>1. ASSUME NEW r \in Requests, NEW a \in Asks[world], NEW e \in Candidates(a),
             \/ Fetch(r, a, e) \/ Hit(r, a, e) \/ GatewayTimeout(r, a, e)
             \/ Revalidate(r, a, e) \/ ServeWhileRevalidate(r, a, e)
      PROVE  ReuseSound'
  BY <1>1, HitReuse, NoReuseSound DEF Fetch, GatewayTimeout, Revalidate
<1>2. ASSUME NEW r \in Requests, NEW a \in Asks[world], NEW e, Bypass(r, a, e)
      PROVE  ReuseSound'
  BY <1>2, NoReuseSound DEF Bypass
<1>3. ASSUME NEW r \in Requests, NEW ans \in Answers[world],
             \/ OnHeaders(r, ans) \/ OnUnsafeHeaders(r, ans) \/ OnNotModified(r, ans)
             \/ OnReplacement(r, ans)
      PROVE  ReuseSound'
  BY <1>3, NoReuseSound DEF OnHeaders, OnUnsafeHeaders, OnNotModified, OnReplacement
<1>4. ASSUME NEW r \in Requests, NEW ans \in Answers[world], OnStaleError(r, ans)
      PROVE  ReuseSound'
  <2>1. /\ ex[r].kind = "reval" /\ ex[r].failover /\ ~ex[r].cut
        /\ Reuse(ex[r].entry, ask[r], ex[r].sentAt, "error")
    BY <1>4 DEF OnStaleError, Answered
  <2>2. ~ex[r].aborted
    BY <2>1 DEF CacheInv, ExchangeInv, Progress
  <2> QED
    BY <2>1, <2>2, ErrorReuse
<1>5. ASSUME NEW r \in Requests, End(r)
      PROVE  ReuseSound'
  <2>1. CASE OnErrorFailover(r)
    BY <2>1, ErrorReuse DEF OnErrorFailover
  <2>2. CASE OnValidated(r)
    BY <2>2, ValidatedReuse
  <2>3. CASE OnComplete(r) \/ OnMismatch(r) \/ OnErrorAfterStale(r) \/ OnError(r)
    BY <2>3, NoReuseSound DEF OnComplete, OnMismatch, OnErrorAfterStale, OnError
  <2> QED
    BY <1>5, <2>1, <2>2, <2>3 DEF End
<1>6. ASSUME NEW r \in Requests, Renew(r) \/ OnConnect(r) \/ OnData(r) \/ Abort(r)
      PROVE  ReuseSound'
  BY <1>6, NoReuseSound DEF Renew, OnConnect, OnData, Abort
<1>7. CASE Tick
  BY <1>7, NoReuseSound DEF Tick
<1> QED
  BY <1>1, <1>2, <1>3, <1>4, <1>5, <1>6, <1>7, StepIs

LEMMA ReuseInvariance == Spec => []ReuseSound
<1>1. Init => ReuseSound
  BY DEF Init, ReuseSound, ReuseIsTimely, ReuseIsShareable
<1>2. ReuseSound /\ UNCHANGED vars => ReuseSound'
  BY DEF ReuseSound, ReuseIsTimely, ReuseIsShareable, vars
<1>3. CacheInv /\ ReuseSound /\ [Next]_vars => ReuseSound'
  BY <1>2, NextReuse
<1> QED
  BY <1>1, <1>3, CacheInvariance, PTL DEF Spec

(* What is answered without the origin is within the limits of response    *)
(* and request, counted on the true age of the response.                   *)
THEOREM ReusesAreTimely == Spec => []ReuseIsTimely
<1>1. ReuseSound => ReuseIsTimely
  BY DEF ReuseSound
<1> QED
  BY <1>1, ReuseInvariance, PTL

(* A stored response answers only requests of its selecting value, shares  *)
(* what an authorized request brought only with the origin's permission,   *)
(* and is not found once a 304 has withdrawn it.                           *)
THEOREM ReusesAreShareable == Spec => []ReuseIsShareable
<1>1. ReuseSound => ReuseIsShareable
  BY DEF ReuseSound
<1> QED
  BY <1>1, ReuseInvariance, PTL

-----------------------------------------------------------------------------
(* What the handler above is told.                                         *)

(* A step as KeepsContract states it of one request.                       *)
Contracted(r) ==
  IF ex[r].phase = "over" THEN user[r].ended # "none"
  ELSE Contract(r)!Next \/ UNCHANGED user[r]

LEMMA QuietContract ==
  ASSUME CacheInv, NEW r \in Requests, user'[r] = user[r] \/ ex[r].phase = "over"
  PROVE  Contracted(r)
BY DEF CacheInv, ExchangeInv, Progress, Contracted

LEMMA OthersQuiet ==
  ASSUME CacheInv, NEW r \in Requests, NEW u, Contracted(r),
         user' = [user EXCEPT ![r] = u]
  PROVE  \A q \in Requests : Contracted(q)
<1>1. ASSUME NEW q \in Requests, q # r
      PROVE  Contracted(q)
  <2>1. user'[q] = user[q]
    BY <1>1 DEF CacheInv, Kinds
  <2> QED
    BY <2>1, QuietContract
<1> QED
  BY <1>1

(* A body of one unit is a run of the source its headers describe.         *)
LEMMA BodyIsRun ==
  ASSUME NEW rep \in Reps \cup {NoRep}
  PROVE  /\ Len(Body(rep)) \in {0, 1}
         /\ \A i \in 1..Len(Body(rep)) : Body(rep)[i] = <<rep, 1 + i - 1>>
<1>1. CASE rep = NoRep
  <2>1. Body(rep) = <<>>
    BY <1>1 DEF Body
  <2>2. Len(Body(rep)) = 0
    BY <2>1
  <2> QED
    BY <2>2
<1>2. CASE rep # NoRep
  <2> DEFINE unit == <<rep, 1>>
  <2>1. Body(rep) = << unit >>
    BY <1>2 DEF Body
  <2> HIDE DEF unit
  <2>2. Len(Body(rep)) = 1 /\ Body(rep)[1] = unit
    BY <2>1
  <2> QED
    BY <2>2 DEF unit
<1> QED
  BY <1>1, <1>2

(* What the cache answers by itself is a legal run of callbacks for a      *)
(* handler that has seen no headers.                                       *)
LEMMA LocalKeepsContract ==
  ASSUME NEW r, user[r] \in User, user[r].ended = "none", user[r].head = NoHead,
         user[r].received = <<>>,
         NEW head \in Reps \cup {NoRep}, NEW body \in {NoRep, head},
         user'[r] \in Local(user[r], head, body)
  PROVE  Contract(r)!Next
<1> DEFINE u == user[r]
           v == user'[r]
           connected == [u EXCEPT !.open = TRUE]
           headed    == [connected EXCEPT !.head = HeadOf(head)]
           whole     == [headed EXCEPT !.received = Body(body)]
           Stopped(w) == [w EXCEPT !.cancelled = TRUE, !.ended = "error"]
<1>1. /\ HeadOf(head) \in Heads /\ HeadOf(head) # NoHead
      /\ HeadOf(head).src = head /\ HeadOf(head).start = 1
      /\ Body(body) \in {Body(rep) : rep \in Reps \cup {NoRep}}
  BY BodyKind DEF HeadOf
<1>2. IF u.cancelled THEN v = Stopped(connected)
      ELSE v \in {[whole EXCEPT !.ended = "complete"], Stopped(connected),
                  Stopped(headed), Stopped(whole)}
  BY DEF Local
<1>3. CASE v = Stopped(connected)
  <2>1. /\ v.open = TRUE /\ v.cancelled = TRUE /\ v.ended = "error"
        /\ v.head = u.head /\ v.received = u.received
    BY <1>3 DEF User
  <2> QED
    BY <2>1 DEF Contract!Next, Contract!Fail
<1>4. CASE ~u.cancelled /\ v # Stopped(connected)
  <2>1. /\ v.open = TRUE /\ v.head = HeadOf(head)
        /\ v.received \in {<<>>, Body(body)}
        /\ v.ended \in {"complete", "error"} /\ v.cancelled \in BOOLEAN
        /\ v.cancelled => v.ended = "error"
    <3>1. CASE v = [whole EXCEPT !.ended = "complete"]
      BY <1>4, <3>1 DEF User
    <3>2. CASE v = Stopped(headed)
      BY <1>4, <3>2 DEF User
    <3>3. CASE v = Stopped(whole)
      BY <1>4, <3>3 DEF User
    <3> QED
      BY <1>2, <1>4, <3>1, <3>2, <3>3
  <2>2. /\ Len(v.received) \in {0, 1}
        /\ \A i \in 1..Len(v.received) : v.received[i] = <<head, 1 + i - 1>>
    <3>1. CASE v.received = Body(head)
      BY <3>1, BodyIsRun
    <3>2. CASE v.received = <<>>
      <4>1. Len(v.received) = 0
        BY <3>2
      <4> QED
        BY <4>1
    <3> QED
      BY <2>1, <3>1, <3>2 DEF Body
  <2>3. Len(u.received) = 0
    OBVIOUS
  <2>4. \A i \in 1..Len(v.received) :
          v.received[i] = <<v.head.src, v.head.start + i - 1>>
    BY <1>1, <2>1, <2>2
  <2>5. Len(v.received) >= Len(u.received)
    BY <2>2, <2>3
  <2>6. /\ ~u.cancelled /\ u.ended = "none" /\ v.open /\ v.head # NoHead
        /\ u.head \in {NoHead, v.head}
        /\ v.ended \in {"none", "complete", "error"}
        /\ v.cancelled => v.ended # "complete"
    BY <1>1, <1>4, <2>1
  <2>7. Contract(r)!Deliver
    BY <2>1, <2>4, <2>5, <2>6 DEF Contract!Deliver, Contract!Unit
  <2> QED
    BY <2>7 DEF Contract!Next
<1> QED
  BY <1>2, <1>3, <1>4

LEMMA ServeKeepsContract ==
  ASSUME NEW r, user[r] \in User, user[r].ended = "none", user[r].head = NoHead,
         user[r].received = <<>>, NEW e, SoundEntry(e), user'[r] \in Serve(user[r], e)
  PROVE  Contract(r)!Next
<1>1. e.head \in Reps \cup {NoRep} /\ e.body \in {NoRep, e.head}
  BY DEF SoundEntry, Entry
<1> QED
  BY <1>1, LocalKeepsContract DEF Serve

LEMMA ToldContract ==
  ASSUME CacheInv, NEW r \in Requests, NEW u, Tell(r, u),
         ~ex[r].background => (user'[r] = u => Contract(r)!Next \/ u = user[r])
  PROVE  \A q \in Requests : Contracted(q)
<1>1. CASE ex[r].background
  BY <1>1, QuietContract DEF Tell
<1>2. CASE ~ex[r].background
  <2>1. user' = [user EXCEPT ![r] = u] /\ user'[r] = u
    BY <1>2 DEF Tell, CacheInv, Kinds
  <2>2. Contracted(r)
    BY <1>2, <2>1, QuietContract DEF Contracted
  <2> QED
    BY <2>1, <2>2, OthersQuiet
<1> QED
  BY <1>1, <1>2

(* Before its headers a handler has seen nothing.                          *)
LEMMA Untold ==
  ASSUME CacheInv, NEW r \in Requests, ~ex[r].background, ex[r].mode # "stale",
         \/ ex[r].phase = "sent"
         \/ ex[r].phase = "open" /\ ~ex[r].cut
         \/ ex[r].mode = "validated"
  PROVE  /\ user[r] \in User /\ user[r].ended = "none" /\ user[r].head = NoHead
         /\ user[r].received = <<>>
         /\ ex[r].phase # "sent" /\ ~ex[r].cut => user[r].open /\ ~user[r].cancelled
BY DEF CacheInv, Kinds, ExchangeInv, Progress, Telling, Running

LEMMA StartContract ==
  ASSUME CacheInv, NEW r \in Requests, NEW a \in Asks[world], NEW e \in Candidates(a),
         \/ Fetch(r, a, e) \/ Hit(r, a, e) \/ GatewayTimeout(r, a, e)
         \/ Revalidate(r, a, e) \/ ServeWhileRevalidate(r, a, e)
  PROVE  \A q \in Requests : Contracted(q)
<1>1. /\ user[r] = NewUser /\ user[r] \in User /\ user[r].ended = "none"
      /\ user[r].head = NoHead /\ user[r].received = <<>>
  <2>1. Asked(r, a)
    BY DEF Fetch, Hit, GatewayTimeout, Revalidate, ServeWhileRevalidate
  <2>2. user[r] = NewUser
    BY <2>1, AskedGives DEF CacheInv, ExchangeInv
  <2> QED
    BY <2>2, NewUserKind DEF NewUser
<1>2. ASSUME NEW u, user' = [user EXCEPT ![r] = u],
             NEW head \in Reps \cup {NoRep}, NEW body \in {NoRep, head},
             u \in Local(user[r], head, body)
      PROVE  \A q \in Requests : Contracted(q)
  <2>1. user'[r] = u
    BY <1>2 DEF CacheInv, Kinds
  <2>2. Contract(r)!Next
    BY <1>1, <1>2, <2>1, LocalKeepsContract
  <2>3. Contracted(r)
    BY <2>2, QuietContract DEF Contracted
  <2> QED
    BY <1>2, <2>3, OthersQuiet
<1>3. CASE Fetch(r, a, e) \/ Revalidate(r, a, e)
  BY <1>3, QuietContract DEF Fetch, Revalidate
<1>4. CASE GatewayTimeout(r, a, e)
  BY <1>2, <1>4 DEF GatewayTimeout
<1>5. CASE Hit(r, a, e) \/ ServeWhileRevalidate(r, a, e)
  <2>1. SoundEntry(e)
    BY <1>5, RouteSound, CandidateSound DEF Hit, ServeWhileRevalidate, CacheInv
  <2>2. e.head \in Reps \cup {NoRep} /\ e.body \in {NoRep, e.head}
    BY <2>1 DEF SoundEntry, Entry
  <2>3. PICK u \in Local(user[r], e.head, e.body) \cup Local(user[r], e.head, NoRep) :
          user' = [user EXCEPT ![r] = u]
    BY <1>5 DEF Hit, ServeWhileRevalidate, Serve
  <2>4. CASE u \in Local(user[r], e.head, e.body)
    BY <1>2, <2>2, <2>3, <2>4
  <2>5. CASE u \in Local(user[r], e.head, NoRep)
    BY <1>2, <2>2, <2>3, <2>5
  <2> QED
    BY <2>3, <2>4, <2>5
<1> QED
  BY <1>3, <1>4, <1>5

LEMMA OnConnectContract ==
  ASSUME CacheInv, NEW r \in Requests, OnConnect(r)
  PROVE  \A q \in Requests : Contracted(q)
<1> DEFINE u == [user[r] EXCEPT !.open = TRUE]
<1>1. Tell(r, u) /\ ex[r].phase = "sent"
  BY DEF OnConnect
<1>2. ASSUME ~ex[r].background, user'[r] = u
      PROVE  Contract(r)!Next
  <2>1. /\ user[r] \in User /\ user[r].ended = "none" /\ user[r].head = NoHead
    BY <1>1, <1>2, Untold DEF CacheInv, ExchangeInv, Progress
  <2>2. /\ u.open = TRUE /\ u.cancelled = user[r].cancelled /\ u.head = user[r].head
        /\ u.received = user[r].received /\ u.ended = user[r].ended
    BY <2>1 DEF User
  <2> HIDE DEF u
  <2> QED
    BY <1>2, <2>1, <2>2 DEF Contract!Next, Contract!Connect
<1> HIDE DEF u
<1> QED
  BY <1>1, <1>2, ToldContract

(* Headers, and nothing of the body yet.                                   *)
LEMMA HeadersContract ==
  ASSUME CacheInv, NEW r \in Requests, ex[r].phase = "open", ~ex[r].cut,
         NEW rep \in Reps \cup {NoRep},
         Tell(r, [user[r] EXCEPT !.head = HeadOf(rep)])
  PROVE  \A q \in Requests : Contracted(q)
<1> DEFINE head == HeadOf(rep)
           u == [user[r] EXCEPT !.head = head]
<1>1. Tell(r, u)
  OBVIOUS
<1>2. head # NoHead
  BY BodyKind
<1> HIDE DEF head
<1>3. ASSUME ~ex[r].background, user'[r] = u
      PROVE  Contract(r)!Next
  <2>1. /\ user[r] \in User /\ user[r].ended = "none" /\ user[r].head = NoHead
        /\ user[r].received = <<>> /\ user[r].open /\ ~user[r].cancelled
    BY <1>3, Untold DEF CacheInv, ExchangeInv, Progress
  <2>2. /\ u.open = user[r].open /\ u.cancelled = user[r].cancelled /\ u.head = head
        /\ u.received = <<>> /\ u.ended = "none"
    BY <2>1 DEF User
  <2>3. Len(<<>>) = 0
    OBVIOUS
  <2> HIDE DEF u
  <2>4. /\ Len(u.received) >= Len(user[r].received)
        /\ \A i \in 1..Len(u.received) : u.received[i] = Contract(r)!Unit(u.head, i)
    BY <2>1, <2>2, <2>3
  <2>5. u.cancelled = FALSE
    BY <2>1, <2>2 DEF User
  <2>6. Contract(r)!Deliver
    BY <1>2, <1>3, <2>1, <2>2, <2>4, <2>5 DEF Contract!Deliver
  <2> QED
    BY <2>6 DEF Contract!Next
<1> HIDE DEF u
<1> QED
  BY <1>1, <1>3, ToldContract

LEMMA OnDataContract ==
  ASSUME CacheInv, NEW r \in Requests, OnData(r)
  PROVE  \A q \in Requests : Contracted(q)
<1> DEFINE body == Body(user[r].head.src)
           u == [user[r] EXCEPT !.received = body]
<1>1. Tell(r, u) /\ ex[r].phase = "head" /\ ~ex[r].cut /\ ex[r].kind \in {"raw", "cache"}
  BY DEF OnData
<1>2. ex[r].mode \notin {"stale", "validated"}
  BY <1>1 DEF CacheInv, ExchangeInv, Progress, SoundValue
<1>3. ASSUME ~ex[r].background, user'[r] = u
      PROVE  Contract(r)!Next
  <2>1. /\ user[r] \in User /\ user[r].ended = "none" /\ user[r].head # NoHead
        /\ user[r].received = <<>> /\ user[r].open /\ ~user[r].cancelled
    BY <1>1, <1>2, <1>3 DEF CacheInv, Kinds, ExchangeInv, Telling, Running
  <2>2. /\ user[r].head.src \in Reps \cup {NoRep} /\ user[r].head.start = 1
    BY <2>1 DEF User, Heads
  <2>3. /\ Len(body) \in {0, 1}
        /\ \A i \in 1..Len(body) : body[i] = <<user[r].head.src, 1 + i - 1>>
    BY <2>2, BodyIsRun
  <2> HIDE DEF body
  <2>4. /\ u.open = user[r].open /\ u.cancelled = user[r].cancelled
        /\ u.head = user[r].head /\ u.received = body /\ u.ended = "none"
    BY <2>1 DEF User
  <2>5. Len(<<>>) = 0
    OBVIOUS
  <2> HIDE DEF u
  <2>6. /\ Len(u.received) >= Len(user[r].received)
        /\ \A i \in 1..Len(u.received) :
             u.received[i] = <<u.head.src, u.head.start + i - 1>>
    BY <2>1, <2>2, <2>3, <2>4, <2>5
  <2>7. u.cancelled = FALSE
    BY <2>1, <2>4 DEF User
  <2>8. Contract(r)!Deliver
    BY <1>3, <2>1, <2>4, <2>6, <2>7 DEF Contract!Deliver, Contract!Unit
  <2> QED
    BY <2>8 DEF Contract!Next
<1> HIDE DEF u
<1> QED
  BY <1>1, <1>3, ToldContract

LEMMA OnCompleteContract ==
  ASSUME CacheInv, NEW r \in Requests, OnComplete(r)
  PROVE  \A q \in Requests : Contracted(q)
<1> DEFINE u == [user[r] EXCEPT !.ended = "complete"]
<1>1. Tell(r, u) /\ ex[r].phase = "body" /\ ~ex[r].cut
  BY DEF OnComplete
<1>2. ex[r].mode # "stale"
  BY <1>1 DEF CacheInv, ExchangeInv, Progress
<1>3. ASSUME ~ex[r].background, user'[r] = u
      PROVE  Contract(r)!Next
  <2>1. /\ user[r] \in User /\ user[r].ended = "none" /\ user[r].head # NoHead
        /\ user[r].received \in {<<>>, Body(user[r].head.src)}
        /\ user[r].open /\ ~user[r].cancelled
    BY <1>1, <1>2, <1>3 DEF CacheInv, Kinds, ExchangeInv, Telling, Running
  <2>2. /\ user[r].head.src \in Reps \cup {NoRep} /\ user[r].head.start = 1
    BY <2>1 DEF User, Heads
  <2>3. /\ Len(user[r].received) \in {0, 1}
        /\ \A i \in 1..Len(user[r].received) :
             user[r].received[i] = <<user[r].head.src, 1 + i - 1>>
    <3>1. CASE user[r].received = <<>>
      <4>1. Len(user[r].received) = 0
        BY <3>1
      <4> QED
        BY <4>1
    <3>2. CASE user[r].received = Body(user[r].head.src)
      BY <2>2, <3>2, BodyIsRun
    <3> QED
      BY <2>1, <3>1, <3>2
  <2>4. /\ u.open = user[r].open /\ u.cancelled = user[r].cancelled
        /\ u.head = user[r].head /\ u.received = user[r].received
        /\ u.ended = "complete"
    BY <2>1 DEF User
  <2> HIDE DEF u
  <2>5. /\ Len(u.received) >= Len(user[r].received)
        /\ \A i \in 1..Len(u.received) :
             u.received[i] = <<u.head.src, u.head.start + i - 1>>
    BY <2>2, <2>3, <2>4
  <2>6. u.cancelled = FALSE
    BY <2>1, <2>4 DEF User
  <2>7. Contract(r)!Deliver
    BY <1>3, <2>1, <2>4, <2>5, <2>6 DEF Contract!Deliver, Contract!Unit
  <2> QED
    BY <2>7 DEF Contract!Next
<1> HIDE DEF u
<1> QED
  BY <1>1, <1>3, ToldContract

(* A stale or validated entry is served to a handler that has seen nothing.*)
LEMMA ServedContract ==
  ASSUME CacheInv, NEW r \in Requests, NEW e, SoundEntry(e),
         NEW u \in Serve(user[r], e), Tell(r, u), ex[r].mode # "stale",
         \/ ex[r].phase = "sent"
         \/ ex[r].phase = "open" /\ ~ex[r].cut
         \/ ex[r].mode = "validated"
  PROVE  \A q \in Requests : Contracted(q)
<1>1. ASSUME ~ex[r].background, user'[r] = u
      PROVE  Contract(r)!Next
  <2>1. /\ user[r] \in User /\ user[r].ended = "none" /\ user[r].head = NoHead
        /\ user[r].received = <<>>
    BY <1>1, Untold
  <2> QED
    BY <1>1, <2>1, ServeKeepsContract
<1> QED
  BY <1>1, ToldContract

LEMMA RespondContract ==
  ASSUME CacheInv, NEW r \in Requests, NEW ans \in Answers[world],
         \/ OnHeaders(r, ans) \/ OnUnsafeHeaders(r, ans) \/ OnNotModified(r, ans)
         \/ OnStaleError(r, ans) \/ OnReplacement(r, ans)
  PROVE  \A q \in Requests : Contracted(q)
<1>1. ex[r].phase = "open" /\ ~ex[r].cut
  BY DEF OnHeaders, OnUnsafeHeaders, OnNotModified, OnStaleError, OnReplacement, Answered
<1>2. ask[r] \in Asks[world] /\ ask[r].path \in Paths /\ ask[r].sel \in Sels
  BY <1>1, AskOfRunning DEF Ask
<1>3. CASE OnHeaders(r, ans) \/ OnReplacement(r, ans)
  <2> DEFINE rep == Rep(ask[r].path, origin[ask[r].path], ask[r].sel)
             given == IF ans.status \in Bodiless THEN NoRep ELSE rep
  <2>1. Tell(r, [user[r] EXCEPT !.head = HeadOf(given)])
    BY <1>3 DEF OnHeaders, OnReplacement, Forwarded
  <2>2. rep \in Reps
    BY <1>2, RepKind DEF CacheInv, Kinds
  <2> HIDE DEF rep
  <2>3. given \in Reps \cup {NoRep}
    BY <2>2
  <2> HIDE DEF given
  <2> QED
    BY <1>1, <2>1, <2>3, HeadersContract
<1>4. CASE OnUnsafeHeaders(r, ans)
  BY <1>1, <1>4, HeadersContract DEF OnUnsafeHeaders
<1>5. CASE OnNotModified(r, ans)
  BY <1>5, QuietContract DEF OnNotModified
<1>6. CASE OnStaleError(r, ans)
  <2>1. /\ ex[r].kind = "reval" /\ ex[r].failover
        /\ \E u \in Serve(user[r], ex[r].entry) : user' = [user EXCEPT ![r] = u]
    BY <1>6 DEF OnStaleError
  <2>2. ~ex[r].aborted /\ ~ex[r].background /\ ex[r].mode # "stale"
    BY <1>1, <2>1 DEF CacheInv, ExchangeInv, Progress
  <2>3. SoundEntry(ex[r].entry)
    BY <2>1, <2>2 DEF CacheInv, ExchangeInv, SoundChoice
  <2>4. PICK u \in Serve(user[r], ex[r].entry) : Tell(r, u)
    BY <2>1, <2>2 DEF Tell
  <2> QED
    BY <1>1, <2>2, <2>3, <2>4, ServedContract
<1> QED
  BY <1>3, <1>4, <1>5, <1>6

LEMMA EndContract ==
  ASSUME CacheInv, NEW r \in Requests, End(r)
  PROVE  \A q \in Requests : Contracted(q)
<1>1. CASE OnComplete(r)
  BY <1>1, OnCompleteContract
<1>2. CASE OnValidated(r)
  <2>1. PICK u \in Serve(user[r], Validated(ex[r], ask[r])) : Tell(r, u)
    BY <1>2 DEF OnValidated
  <2>2. ex[r].mode = "validated" /\ SoundEntry(Validated(ex[r], ask[r]))
    BY <1>2, ValidatedGives DEF OnValidated
  <2> QED
    BY <2>1, <2>2, ServedContract
<1>3. CASE OnMismatch(r) \/ OnErrorAfterStale(r)
  BY <1>3, QuietContract DEF OnMismatch, OnErrorAfterStale
<1>4. CASE OnErrorFailover(r)
  <2>1. PICK u \in Serve(user[r], ex[r].entry) : Tell(r, u)
    BY <1>4 DEF OnErrorFailover
  <2>2. ex[r].kind = "reval" /\ ~ex[r].aborted /\ ex[r].mode = "none"
    BY <1>4 DEF OnErrorFailover
  <2>3. SoundEntry(ex[r].entry)
    BY <2>2 DEF CacheInv, ExchangeInv, SoundChoice
  <2>4. ex[r].phase = "sent" \/ (ex[r].phase = "open" /\ ~ex[r].cut)
    BY <2>2 DEF CacheInv, ExchangeInv, Progress
  <2> QED
    BY <2>1, <2>2, <2>3, <2>4, ServedContract
<1>5. CASE OnError(r)
  <2> DEFINE u == Failed(user[r])
  <2>1. Tell(r, u)
    BY <1>5 DEF OnError
  <2>2. ASSUME user'[r] = u
        PROVE  Contract(r)!Next \/ u = user[r]
    <3>1. CASE user[r].ended # "none"
      BY <3>1 DEF Failed
    <3>2. CASE user[r].ended = "none"
      <4>1. user[r] \in User /\ u = [user[r] EXCEPT !.ended = "error"]
        BY <3>2 DEF Failed, CacheInv, Kinds
      <4>2. /\ u.open = user[r].open /\ u.cancelled = user[r].cancelled
            /\ u.head = user[r].head /\ u.received = user[r].received
            /\ u.ended = "error"
        BY <4>1 DEF User
      <4> HIDE DEF u
      <4> QED
        BY <2>2, <3>2, <4>2 DEF Contract!Next, Contract!Fail
    <3> QED
      BY <3>1, <3>2
  <2> HIDE DEF u
  <2> QED
    BY <2>1, <2>2, ToldContract
<1> QED
  BY <1>1, <1>2, <1>3, <1>4, <1>5 DEF End

LEMMA AbortContract ==
  ASSUME CacheInv, NEW r \in Requests, Abort(r)
  PROVE  \A q \in Requests : Contracted(q)
<1> DEFINE u == [user[r] EXCEPT !.cancelled = TRUE]
<1>1. /\ user[r].open /\ user[r].ended = "none"
      /\ user' = [user EXCEPT ![r].cancelled = TRUE]
      /\ user \in [Requests -> User] /\ user[r] \in User
  BY DEF Abort, CacheInv, Kinds
<1>2. /\ u.open = user[r].open /\ u.cancelled = TRUE /\ u.head = user[r].head
      /\ u.received = user[r].received /\ u.ended = user[r].ended
  BY <1>1 DEF User
<1>3. user' = [user EXCEPT ![r] = u] /\ user'[r] = u
  BY <1>1
<1> HIDE DEF u
<1>4. Contracted(r)
  BY <1>1, <1>2, <1>3, QuietContract DEF Contracted, Contract!Next, Contract!Cancel
<1> QED
  BY <1>3, <1>4, OthersQuiet

LEMMA NextContract == CacheInv /\ Next => \A q \in Requests : Contracted(q)
<1> SUFFICES ASSUME CacheInv, Next
             PROVE  \A q \in Requests : Contracted(q)
  OBVIOUS
<1>1. ASSUME NEW r \in Requests, Renew(r)
      PROVE  \A q \in Requests : Contracted(q)
  <2>1. Contracted(r)
    BY <1>1, QuietContract DEF Renew
  <2> QED
    BY <1>1, <2>1, OthersQuiet DEF Renew
<1>2. CASE UNCHANGED user
  BY <1>2, QuietContract
<1>3. ASSUME NEW r \in Requests, NEW a, NEW e, Bypass(r, a, e)
      PROVE  UNCHANGED user
  BY <1>3 DEF Bypass
<1>4. Tick => UNCHANGED user
  BY DEF Tick
<1> QED
  BY <1>1, <1>2, <1>3, <1>4, StepIs, StartContract, OnConnectContract, OnDataContract,
     RespondContract, EndContract, AbortContract

(* The handler of every request sees one exchange: headers once, a body of *)
(* those headers, one end, and nothing but an error after it has aborted,  *)
(* whether its response comes from the store, the origin or both in turn.  *)
THEOREM HandlersSeeOneExchange == Spec => KeepsContract
<1>1. Init => \A r \in Requests : Contract(r)!Init
  BY DEF Init, NewUser, Contract!Init
<1>2. CacheInv /\ [Next]_vars =>
        [\A r \in Requests :
           IF ex[r].phase = "over" THEN user[r].ended # "none"
           ELSE Contract(r)!Next \/ UNCHANGED user[r]]_vars
  BY NextContract DEF Contracted
<1> QED
  BY <1>1, <1>2, CacheInvariance, PTL DEF Spec, KeepsContract
=============================================================================
