-------------------------------- MODULE Cache --------------------------------
(***************************************************************************)
(* The cache interceptor of lib/interceptor/cache: what a request is       *)
(* answered from (index.js), what a response leaves in the store           *)
(* (cache-handler.js), the validation of a stale entry and its background  *)
(* form (revalidation.js), and invalidation (invalidation-handler.js).     *)
(*                                                                         *)
(* The store is what StoreMap promises: a set of rows, one for each URL    *)
(* and selecting value, any of which a lookup may fail to find.  The       *)
(* dispatcher below is a HandlerContract transport, and the handler above  *)
(* is one of this library's: it repeats its abort when it is connected     *)
(* again.  Every action is one callback, run to its end.                   *)
(*                                                                         *)
(* A representation is a URL, the number of the version the origin holds   *)
(* of it and the selecting value it was made for; an entity-tag names one. *)
(* A body is one unit.  A member of Requests stands for one request after  *)
(* another, each with at most one exchange with the origin at a time: its  *)
(* own, or the background refresh it has started.  A request that is over  *)
(* is replaced before anything else happens, so that no state keeps it.    *)
(***************************************************************************)
EXTENDS CacheFreshness, Sequences, FiniteSets

CONSTANTS
  Requests,      \* the requests that may be under way at once
  Paths,         \* the URLs of one origin
  Worlds,        \* a behaviour is one of these, which says
  Asks,          \* what its requests ask for, see Ask,
  Answers,       \* what the origin may answer, see Answer,
  MaxStarts,     \* and, as a bound, how many requests start
  MaxNow,        \* bound: the clock stops there
  MaxVersion,    \* bound: the versions of a URL
  NoEntry, NoRep, NoSel, NoPath, NoHead, Keep

Sels == {a.sel : a \in UNION {Asks[w] : w \in Worlds}}

(* A request.  cond is its precondition: If-None-Match or If-Modified-Since*)
(* that the current entry satisfies ("same") or not ("other"), If-Range    *)
(* ("range") or If-Match ("match").                                        *)
Ask ==
  [path : Paths, sel : Sels, unsafe : BOOLEAN, auth : BOOLEAN,
   nostore : BOOLEAN, nocache : BOOLEAN, onlyif : BOOLEAN,
   maxage : Nat \cup {None}, minfresh : Nat \cup {None},
   maxstale : Nat \cup {None}, sie : Nat \cup {None},
   cond : {"none", "same", "other", "range", "match"}]

(* A response.  d is Keep when a 304 has no Cache-Control; vary is "keep"  *)
(* when a 304 has no Vary; odd stands for what keeps a response out of the *)
(* cache whatever its directives (Set-Cookie, a trailer field, a           *)
(* Content-Range or Content-Length it cannot use); size says whether a     *)
(* body fits ("small"), is declared too large or turns out to be.  age and *)
(* date are the Age header and how long ago Date is; expires is relative   *)
(* to Date; location is a Location or Content-Location of the same origin. *)
(* A 206 holds the one range that the requests for its URL ask for.        *)
Answer ==
  [status : {200, 204, 206, 304, 404, 500, 503},
   d : Directives \cup {Keep}, vary : {"none", "sel", "star", "keep"},
   tagged : BOOLEAN, modified : BOOLEAN, age : Nat, date : Nat,
   expires : Nat \cup {None}, odd : BOOLEAN, trailers : BOOLEAN,
   size : {"small", "declared", "grows"}, location : Paths \cup {NoPath}]

(* The representations there can be, and the headers that describe one, or *)
(* no body at all.                                                         *)
Reps == Paths \X (1..MaxVersion) \X Sels
Heads == [src : Reps \cup {NoRep}, start : {1}]

ASSUME CacheAssumption ==
  /\ \A w \in Worlds : /\ Asks[w] \subseteq Ask /\ NoEntry \notin Asks[w]
                       /\ Answers[w] \subseteq Answer
                       /\ MaxStarts[w] \in Nat
  /\ \A w \in Worlds : \A ans \in Answers[w] :
       ans.status # 304 => ans.d \in Directives
  /\ MaxNow \in Nat /\ MaxVersion \in Nat \ {0}
  /\ NoPath \notin Paths /\ NoSel \notin Sels
  /\ NoRep \notin Reps /\ NoHead \notin Heads

VARIABLES
  now,        \* Date.now()
  store,      \* the rows of the cache store
  inflight,   \* backgroundRefreshes of the store: the slots taken
  origin,     \* the version the origin holds of each URL
  ask,        \* what each request asks for
  ex,         \* the exchange of each request, with its handler's fields
  user,       \* what the handler of each request has seen and done
  reuse,      \* what this step has answered from the store, NoEntry for nothing
  world,      \* the world of this behaviour
  started,    \* how many requests have started
  withdrawn   \* the rows a 304 has withdrawn, until one replaces them

vars == <<world, now, store, inflight, origin, ask, ex, user, reuse, started,
          withdrawn>>

CacheableStatus == {200, 206, 404}
StaleIfErrorStatus == {500, 503}

NoExchange ==
  [kind |-> "none",        \* the handler below: "raw", "unsafe", "cache", "reval"
   phase |-> "none",       \* the transport: "sent", "open", "head", "body", "over"
   cut |-> FALSE,          \* the transport was aborted
   background |-> FALSE,   \* its handler is the silent one of a refresh
   entry |-> NoEntry,      \* the entry being validated
   failover |-> FALSE,     \* allowStaleOnError
   mode |-> "none",        \* #mode, "none" before the headers
   aborted |-> FALSE,      \* #userAborted
   value |-> NoEntry,      \* #value: what is to be stored
   answer |-> NoEntry,     \* the 304, with the representation it was sent for
   known |-> 0,            \* the version of its URL when it was sent
   sentAt |-> 0]           \* #requestTime

NewUser ==
  [open |-> FALSE, head |-> NoHead, received |-> <<>>, cancelled |-> FALSE,
   ended |-> "none"]

Init ==
  /\ world \in Worlds
  /\ now = 0
  /\ store = {}
  /\ inflight = {}
  /\ origin = [p \in Paths |-> 1]
  /\ ask = [r \in Requests |-> NoEntry]
  /\ ex = [r \in Requests |-> NoExchange]
  /\ user = [r \in Requests |-> NewUser]
  /\ reuse = NoEntry
  /\ started = 0
  /\ withdrawn = {}

-----------------------------------------------------------------------------
(* The store.                                                              *)

RowKey(e) == <<e.path, e.sel>>

(* store.set(): the row replaces the one of its URL and selecting value,   *)
(* and is never found once its time is up.                                 *)
Put_Adds(rows, e) == rows \cup (IF e.deleteAt > now THEN {e} ELSE {})
Put(rows, e) ==
  {f \in rows : RowKey(f) # RowKey(e)} \cup (IF e.deleteAt > now THEN {e} ELSE {})

(* store.get(): the matching row of the latest Date.                       *)
Newest(a) ==
  LET rows == {e \in store : e.path = a.path /\ e.sel \in {NoSel, a.sel}}
  IN {e \in rows : \A f \in rows : f.date <= e.date}

-----------------------------------------------------------------------------
(* The read path.                                                          *)

(* A response to a request with Authorization, or for one, needs the       *)
(* origin's permission as the entry holds it now.                          *)
MayShare(a, e) == (e.auth \/ a.auth) => AllowsAuthenticatedCaching(e.d)

Age(e) == Larger(0, now - e.cachedAt)

RequestAccepts(a, e) ==
  /\ a.maxage # None => a.maxage > 0 /\ Age(e) <= a.maxage
  /\ a.minfresh # None => e.staleAt - now >= a.minfresh

MustRevalidate(a, e) == a.nocache \/ e.d.nocache

Usable(a, e) ==
  /\ e # NoEntry
  /\ now < e.staleAt
  /\ RequestAccepts(a, e)
  /\ ~MustRevalidate(a, e)

Conditional(a) == a.cond \in {"same", "other"}
ConditionApplies(e) == e.status \in {200, 206}
HasValidator(e) == e.tag # NoRep \/ e.modified

(* The entries a lookup may come back with.  It may find none or fail; an  *)
(* entry that may not be shared is none; and one that would have to be     *)
(* validated leaves a conditional request to its own precondition.         *)
Candidates(a) ==
  {NoEntry} \cup
  {e \in Newest(a) : /\ MayShare(a, e)
                     /\ Conditional(a) /\ ConditionApplies(e) => Usable(a, e)}

MaxStaleAllows(a, e) ==
  /\ a.maxstale # None /\ now <= e.staleAt + a.maxstale
  /\ ~MustRevalidate(a, e) /\ RequestAccepts(a, e)
  /\ ~ForbidsRequestDrivenStale(e.d)

SwrAllows(a, e) ==
  /\ e.d.swr # None /\ now <= e.staleAt + e.d.swr
  /\ ~MustRevalidate(a, e) /\ RequestAccepts(a, e)
  /\ ~ForbidsServingStale(e.d)

(* The stale-if-error of the response, or else of the request.             *)
StaleIfError(a, e) ==
  IF e.d.sie # None THEN e.d.sie
  ELSE IF ForbidsRequestDrivenStale(e.d) THEN None ELSE a.sie

StaleOnErrorAllows(a, e) ==
  /\ StaleIfError(a, e) > 0 /\ now <= e.staleAt + StaleIfError(a, e)
  /\ ~MustRevalidate(a, e) /\ RequestAccepts(a, e)
  /\ ~ForbidsServingStale(e.d)

(* What becomes of a GET whose lookup came back with e: the early returns  *)
(* of the interceptor, in their order.                                     *)
Route(a, e) ==
  IF a.cond = "same" /\ Usable(a, e) /\ ConditionApplies(e) /\ HasValidator(e)
    THEN "notmodified"
  ELSE IF a.cond = "match" THEN "bypass"
  ELSE IF a.cond = "range" THEN
    IF ~a.onlyif THEN "fetch"
    ELSE IF Usable(a, e) /\ e.status # 206 THEN "hit" ELSE "gateway"
  ELSE IF e = NoEntry THEN IF a.onlyif THEN "gateway" ELSE "fetch"
  ELSE IF Usable(a, e) \/ MaxStaleAllows(a, e) THEN "hit"
  ELSE IF a.onlyif THEN "gateway"
  ELSE IF e.status = 206 THEN "fetch"
  ELSE IF SwrAllows(a, e) THEN "refresh"
  ELSE "revalidate"

-----------------------------------------------------------------------------
(* What the handler above sees.  head.src is the representation its        *)
(* headers describe, and its body a sequence of units of one.              *)

HeadOf(rep) == [src |-> rep, start |-> 1]
Body(rep) == IF rep = NoRep THEN <<>> ELSE << <<rep, 1>> >>

(* serveFromCache(): the whole response in one run, which the handler may  *)
(* abort when connected or on any callback.                                *)
Local(u, head, body) ==
  LET connected == [u EXCEPT !.open = TRUE]
      headed    == [connected EXCEPT !.head = HeadOf(head)]
      whole     == [headed EXCEPT !.received = Body(body)]
      Abort(v)  == [v EXCEPT !.cancelled = TRUE, !.ended = "error"]
  IN IF u.cancelled THEN {Abort(connected)}
     ELSE {[whole EXCEPT !.ended = "complete"], Abort(connected), Abort(headed),
           Abort(whole)}

Serve(u, e) == Local(u, e.head, e.body)

Failed(u) == IF u.ended = "none" THEN [u EXCEPT !.ended = "error"] ELSE u

Reuse(e, a, at, how) ==
  reuse' = [entry |-> e, ask |-> a, at |-> at, how |-> how,
            out |-> RowKey(e) \in withdrawn]
NoReuse == reuse' = NoEntry

-----------------------------------------------------------------------------
(* A new request.                                                          *)

(* A request that is over makes room for the next one.                     *)
Renew(r) ==
  /\ ex[r].phase = "over"
  /\ ask' = [ask EXCEPT ![r] = NoEntry]
  /\ ex' = [ex EXCEPT ![r] = NoExchange]
  /\ user' = [user EXCEPT ![r] = NewUser]
  /\ NoReuse
  /\ UNCHANGED <<now, store, inflight, origin, world, started, withdrawn>>

Running(r) == ex[r].phase \in {"sent", "open", "head", "body"}

Sent(kind, r, a) ==
  [NoExchange EXCEPT !.kind = kind, !.phase = "sent",
                     !.known = IF kind \in {"cache", "reval"} THEN origin[a.path] ELSE @,
                     !.sentAt = IF kind \in {"cache", "reval"} THEN now ELSE @]

Asked(r, a) ==
  /\ ask[r] = NoEntry /\ started < MaxStarts[world]
  /\ ask' = [ask EXCEPT ![r] = a]
  /\ started' = started + 1
  /\ UNCHANGED <<world, now, store, origin, withdrawn>>

(* An unsafe request, or one the cache passes on untouched.                *)
Bypass(r, a, e) ==
  /\ Asked(r, a)
  /\ a.unsafe \/ Route(a, e) = "bypass"
  /\ ex' = [ex EXCEPT ![r] = Sent(IF a.unsafe THEN "unsafe" ELSE "raw", r, a)]
  /\ UNCHANGED <<inflight, user>>
  /\ NoReuse

(* A response is forwarded, and stored unless the request forbids it.      *)
Fetch(r, a, e) ==
  /\ Asked(r, a)
  /\ ~a.unsafe /\ Route(a, e) = "fetch"
  /\ ex' = [ex EXCEPT ![r] = Sent(IF a.nostore THEN "raw" ELSE "cache", r, a)]
  /\ UNCHANGED <<inflight, user>>
  /\ NoReuse

Hit(r, a, e) ==
  /\ Asked(r, a)
  /\ ~a.unsafe /\ Route(a, e) \in {"hit", "notmodified"}
  /\ \E u \in IF Route(a, e) = "hit" THEN Serve(user[r], e)
              ELSE Local(user[r], e.head, NoRep) :
       user' = [user EXCEPT ![r] = u]
  /\ Reuse(e, a, now, "hit")
  /\ ex' = [ex EXCEPT ![r].phase = "over"]
  /\ UNCHANGED inflight

(* only-if-cached without a response to use: a 504 of the cache's own.     *)
GatewayTimeout(r, a, e) ==
  /\ Asked(r, a)
  /\ ~a.unsafe /\ Route(a, e) = "gateway"
  /\ \E u \in Local(user[r], NoRep, NoRep) : user' = [user EXCEPT ![r] = u]
  /\ ex' = [ex EXCEPT ![r].phase = "over"]
  /\ UNCHANGED inflight
  /\ NoReuse

Validation(r, a, e) ==
  [Sent("reval", r, a) EXCEPT !.entry = e, !.failover = StaleOnErrorAllows(a, e)]

Revalidate(r, a, e) ==
  /\ Asked(r, a)
  /\ ~a.unsafe /\ Route(a, e) = "revalidate"
  /\ ex' = [ex EXCEPT ![r] = Validation(r, a, e)]
  /\ UNCHANGED <<inflight, user>>
  /\ NoReuse

(* backgroundRefresh(): one for each slot at a time.                       *)
BackgroundRefresh(r, a, e) ==
  IF RowKey(e) \in inflight
  THEN /\ ex' = [ex EXCEPT ![r].phase = "over"]
       /\ UNCHANGED inflight
  ELSE /\ ex' = [ex EXCEPT ![r] = [Validation(r, a, e) EXCEPT
                                     !.background = TRUE, !.failover = FALSE]]
       /\ inflight' = inflight \cup {RowKey(e)}

(* stale-while-revalidate: the stale entry is served, then refreshed,      *)
(* unless nothing of the refresh could be stored.                          *)
ServeWhileRevalidate(r, a, e) ==
  /\ Asked(r, a)
  /\ ~a.unsafe /\ Route(a, e) = "refresh"
  /\ \E u \in Serve(user[r], e) : user' = [user EXCEPT ![r] = u]
  /\ Reuse(e, a, now, "hit")
  /\ IF a.nostore THEN /\ ex' = [ex EXCEPT ![r].phase = "over"]
                       /\ UNCHANGED inflight
     ELSE BackgroundRefresh(r, a, e)

-----------------------------------------------------------------------------
(* CacheHandler: the entry a response leaves, NoEntry when it leaves none. *)

Storable(a, ans) ==
  /\ ans.status \in CacheableStatus
  /\ ~ans.odd /\ ans.vary # "star"
  /\ a.auth => AllowsAuthenticatedCaching(ans.d)
  /\ ~ForbidsStoring(ans.d)
  /\ ans.size # "declared"

(* parseVary(): the selecting value a row is filed under.                  *)
Selector(vary, a) == IF vary = "sel" THEN a.sel ELSE NoSel

Rep(p, v, s) == <<p, v, s>>

NewValue(a, ans, sentAt) ==
  LET date  == now - ans.date
      exp   == IF ans.expires = None THEN None ELSE date + ans.expires
      life  == StorableLifetime(ans.status, ans.d, exp, date, ans.modified)
      times == ComputeEntryTimes(life, DetermineAge(ans.age, date, now, sentAt), ans.d,
                                 ans.tagged \/ ans.modified, now)
      rep   == Rep(a.path, origin[a.path], a.sel)
  IN IF ~Storable(a, ans) \/ life = NoLifetime \/ times = NoTimes THEN NoEntry
     ELSE [path |-> a.path, sel |-> Selector(ans.vary, a), status |-> ans.status,
           body |-> rep, head |-> rep, tag |-> IF ans.tagged THEN rep ELSE NoRep,
           modified |-> ans.modified, auth |-> a.auth, d |-> ans.d,
           date |-> date, expires |-> exp,
           cachedAt |-> times.cachedAt, staleAt |-> times.staleAt,
           deleteAt |-> times.deleteAt,
           size |-> ans.size, trailers |-> ans.trailers,
           made |-> sentAt - ans.age, by |-> a.auth, epoch |-> 0, known |-> 0]

-----------------------------------------------------------------------------
(* The exchange of one request, as its transport drives it.                *)

(* The silent handler of a refresh, and the end of its exchange: done().   *)
Over_KeepsSlot(r) ==
  /\ ex' = [ex EXCEPT ![r] = [NoExchange EXCEPT !.phase = "over"]]
  /\ inflight' = inflight
Over(r) ==
  /\ ex' = [ex EXCEPT ![r] = [NoExchange EXCEPT !.phase = "over"]]
  /\ inflight' = IF ex[r].background THEN inflight \ {RowKey(ex[r].entry)}
                 ELSE inflight

(* Only the handler of a foreground exchange hears of it.                  *)
Tell(r, u) == user' = IF ex[r].background THEN user ELSE [user EXCEPT ![r] = u]

(* The handler above repeats the abort of an earlier connection.           *)
Again_Never(r) == FALSE
Again(r) == ~ex[r].background /\ user[r].cancelled

OnConnect(r) ==
  LET again == Again(r) IN
  /\ ex[r].phase = "sent"
  /\ ex' = [ex EXCEPT ![r].phase = "open", ![r].cut = again,
                      ![r].aborted = again, ![r].value = NoEntry]
  /\ Tell(r, [user[r] EXCEPT !.open = TRUE])
  /\ UNCHANGED <<now, store, inflight, origin, ask, world, started, withdrawn>>
  /\ NoReuse

Answered(r, ans) ==
  /\ ex[r].phase = "open" /\ ~ex[r].cut
  /\ ans \in Answers[world]
  /\ UNCHANGED <<now, ask>>

(* A response has a body to come unless its status says otherwise.         *)
Bodiless == {204, 304}
Reading(ans) == IF ans.status \in Bodiless THEN "body" ELSE "head"

Forwarded(r, ans) ==
  LET rep == Rep(ask[r].path, origin[ask[r].path], ask[r].sel)
  IN [user[r] EXCEPT !.head = HeadOf(IF ans.status \in Bodiless THEN NoRep ELSE rep)]

(* CacheHandler.onHeaders(), or a handler that stores nothing.  The origin *)
(* answers 304 only to the caller's own precondition.                      *)
OnHeaders(r, ans) ==
  /\ Answered(r, ans)
  /\ ex[r].kind \in {"raw", "cache"}
  /\ ans.status = 304 => Conditional(ask[r])
  /\ Tell(r, Forwarded(r, ans))
  /\ ex' = [ex EXCEPT ![r].phase = Reading(ans),
                      ![r].value = IF ex[r].kind = "raw" THEN NoEntry
                                   ELSE NewValue(ask[r], ans, ex[r].sentAt)]
  /\ UNCHANGED <<store, inflight, origin, world, started, withdrawn>>
  /\ NoReuse

(* InvalidationHandler.onHeaders(): an unsafe request that succeeds has    *)
(* changed its URL and the ones it names, whose rows are deleted.          *)
Changed(r, ans) == {ask[r].path, ans.location} \ {NoPath}
Invalidated_OwnOnly(r, ans) == {ask[r].path}
Invalidated(r, ans) == {ask[r].path, ans.location} \ {NoPath}

OnUnsafeHeaders(r, ans) ==
  LET good == ans.status <= 399
      changed == IF good THEN Changed(r, ans) ELSE {} IN
  /\ Answered(r, ans)
  /\ ex[r].kind = "unsafe"
  /\ ans.status # 304
  /\ \A p \in changed : origin[p] < MaxVersion
  /\ origin' = [p \in Paths |-> IF p \in changed THEN origin[p] + 1 ELSE origin[p]]
  /\ store' = {e \in store : good => e.path \notin Invalidated(r, ans)}
  /\ Tell(r, [user[r] EXCEPT !.head = HeadOf(NoRep)])
  /\ ex' = [ex EXCEPT ![r].phase = "body"]
  /\ UNCHANGED <<inflight, world, started, withdrawn>>
  /\ NoReuse

(* RevalidationHandler.onHeaders().  A 304 identifies the representation   *)
(* the origin holds by its entity-tag; without one, the origin sends it    *)
(* only while the stored body is that representation.                      *)
OnNotModified(r, ans) ==
  LET e == ex[r].entry
      rep == Rep(e.path, origin[e.path], ask[r].sel) IN
  /\ Answered(r, ans)
  /\ ex[r].kind = "reval" /\ ans.status = 304
  /\ ~ans.tagged => e.body[2] = origin[e.path]
  /\ ex' = [ex EXCEPT ![r].phase = "head", ![r].mode = "validated",
                      ![r].answer = [ans |-> ans, rep |-> rep, at |-> now]]
  /\ UNCHANGED <<store, inflight, origin, user, world, started, withdrawn>>
  /\ NoReuse

(* An origin error within the stale-if-error window: the stale entry is    *)
(* delivered at once and the exchange aborted.                             *)
OnStaleError(r, ans) ==
  /\ Answered(r, ans)
  /\ ex[r].kind = "reval" /\ ex[r].failover /\ ans.status \in StaleIfErrorStatus
  /\ \E u \in Serve(user[r], ex[r].entry) : user' = [user EXCEPT ![r] = u]
  /\ Reuse(ex[r].entry, ask[r], ex[r].sentAt, "error")
  /\ ex' = [ex EXCEPT ![r].phase = "head", ![r].mode = "stale", ![r].cut = TRUE]
  /\ UNCHANGED <<store, inflight, origin, world, started, withdrawn>>

(* Anything else replaces the entry: the handler above is connected again, *)
(* through a CacheHandler unless the request forbids storing.              *)
OnReplacement(r, ans) ==
  /\ Answered(r, ans)
  /\ ex[r].kind = "reval" /\ ans.status # 304
  /\ ~(ex[r].failover /\ ans.status \in StaleIfErrorStatus)
  /\ Tell(r, Forwarded(r, ans))
  /\ ex' = [ex EXCEPT ![r].phase = Reading(ans), ![r].mode = "pass",
                      ![r].kind = IF ask[r].nostore THEN "raw" ELSE "cache",
                      ![r].value = IF ask[r].nostore THEN NoEntry
                                   ELSE NewValue(ask[r], ans, ex[r].sentAt)]
  /\ UNCHANGED <<store, inflight, origin, world, started, withdrawn>>
  /\ NoReuse

(* A forwarded body, whose entry is dropped when it outgrows the limit.    *)
OnData(r) ==
  /\ ex[r].phase = "head" /\ ~ex[r].cut
  /\ ex[r].kind \in {"raw", "cache"}
  /\ Tell(r, [user[r] EXCEPT !.received = Body(user[r].head.src)])
  /\ ex' = [ex EXCEPT ![r].phase = "body",
                      ![r].value = IF @ # NoEntry /\ @.size = "grows" THEN NoEntry ELSE @]
  /\ UNCHANGED <<now, store, inflight, origin, ask, world, started, withdrawn>>
  /\ NoReuse

(* store.set() of an entry: what a row holds besides it tells the          *)
(* properties who wrote it, and when.                                      *)
Row(r, e) == [e EXCEPT !.size = "small", !.trailers = FALSE,
                       !.epoch = origin[e.path], !.known = ex[r].known]

(* The end of a forwarded response: CacheHandler.onComplete() stores it    *)
(* unless it came with trailers.                                           *)
OnComplete(r) ==
  LET stored == ex[r].kind = "cache" /\ ex[r].value # NoEntry /\ ~ex[r].value.trailers IN
  /\ ex[r].kind \in {"raw", "cache", "unsafe"} /\ ~ex[r].cut
  /\ ex[r].phase = "body"
  /\ IF stored
     THEN /\ store' = Put(store, Row(r, ex[r].value))
          /\ withdrawn' = withdrawn \ {RowKey(ex[r].value)}
     ELSE UNCHANGED <<store, withdrawn>>
  /\ Tell(r, [user[r] EXCEPT !.ended = "complete"])
  /\ Over(r)
  /\ UNCHANGED <<now, origin, ask, world, started>>
  /\ NoReuse

-----------------------------------------------------------------------------
(* #freshen(): a 304 updates the headers of the entry and resets its       *)
(* clock.  x is the exchange.                                              *)

MergedDirectives(x) == IF x.answer.ans.d = Keep THEN x.entry.d ELSE x.answer.ans.d

(* RFC 9111 4.3.4: the entity-tag of a 304 must be the one of the entry.   *)
Identified_Always(x) == TRUE
Identified(x) == x.answer.ans.tagged => x.entry.tag = x.answer.rep

(* The origin withdraws its permission to keep the entry.                  *)
Withdraws(x) ==
  LET d == MergedDirectives(x) IN
  \/ ForbidsStoring(d)
  \/ x.entry.auth /\ ~AllowsAuthenticatedCaching(d)

MergedSelector(x, a) ==
  IF x.answer.ans.vary = "keep" THEN x.entry.sel ELSE Selector(x.answer.ans.vary, a)

FreshTimes(x) ==
  LET ans == x.answer.ans
      at == x.answer.at
      d == MergedDirectives(x)
      date == at - ans.date
      exp == IF ans.expires = None THEN x.entry.expires ELSE date + ans.expires
      life == StorableLifetime(x.entry.status, d, exp, date,
                               x.entry.modified \/ ans.modified)
      previousAge == Larger(0, at - x.entry.cachedAt)
      age == Larger(Smaller(ans.date, previousAge), ans.age + (at - x.sentAt))
      validated == HasValidator(x.entry) \/ ans.modified \/ ans.tagged
  IN IF life = NoLifetime THEN NoTimes
     ELSE ComputeEntryTimes(life, age, d, validated, at)

Freshened(x, a) ==
  LET ans == x.answer.ans
      date == x.answer.at - ans.date
      times == FreshTimes(x) IN
  [x.entry EXCEPT !.sel = MergedSelector(x, a), !.d = MergedDirectives(x),
                  !.head = IF ans.tagged THEN x.answer.rep ELSE @,
                  !.tag = IF ans.tagged THEN x.answer.rep ELSE @,
                  !.modified = @ \/ ans.modified,
                  !.date = date,
                  !.expires = IF ans.expires = None THEN @ ELSE date + ans.expires,
                  !.cachedAt = times.cachedAt, !.staleAt = times.staleAt,
                  !.deleteAt = times.deleteAt,
                  !.made = x.sentAt - ans.age]

(* #expireSelected(): the selected row, under the selector it was found    *)
(* by, is stored with times that have passed.                              *)
Expire_Nothing(rows, e) == rows
Expire(rows, e) == {f \in rows : RowKey(f) # RowKey(e)}

(* What the end of a validation answers: the entry under the headers of    *)
(* the 304, with a new clock when it may be kept.                          *)
Kept(x) ==
  ~Withdraws(x) /\ FreshTimes(x) # NoTimes /\ x.answer.ans.vary # "star"

Validated(x, a) == IF Kept(x) THEN Freshened(x, a) ELSE x.entry

(* The entry stops being selectable when the origin withdraws it, and when *)
(* it is to be kept under another selector, or under none that can match.  *)
Retires(x, a) ==
  \/ Withdraws(x)
  \/ FreshTimes(x) # NoTimes /\ (x.answer.ans.vary = "star" \/ MergedSelector(x, a) # x.entry.sel)

StoreAfter(r) ==
  LET x == ex[r]
      rows == IF Retires(x, ask[r]) THEN Expire(store, x.entry) ELSE store
  IN IF ask[r].nostore THEN store
     ELSE IF Kept(x) THEN Put(rows, Row(r, Freshened(x, ask[r]))) ELSE rows

WithdrawnAfter(r) ==
  LET x == ex[r]
      out == IF Retires(x, ask[r]) THEN withdrawn \cup {RowKey(x.entry)} ELSE withdrawn
  IN IF ask[r].nostore THEN withdrawn
     ELSE IF Kept(x) THEN out \ {RowKey(Freshened(x, ask[r]))} ELSE out

(* The 304 has ended, well or not: the entry is freshened and delivered.   *)
OnValidated(r) ==
  /\ ex[r].mode = "validated" /\ ex[r].phase = "head" /\ ~ex[r].cut
  /\ Identified(ex[r])
  /\ store' = StoreAfter(r)
  /\ withdrawn' = WithdrawnAfter(r)
  /\ \E u \in Serve(user[r], Validated(ex[r], ask[r])) : Tell(r, u)
  /\ Reuse(Validated(ex[r], ask[r]), ask[r], now, "validated")
  /\ Over(r)
  /\ UNCHANGED <<now, origin, ask, world, started>>

(* #retryUnconditional(): the 304 was for another representation.  The     *)
(* request goes out again as it came, and its answer is a replacement.     *)
OnMismatch(r) ==
  /\ ex[r].mode = "validated" /\ ex[r].phase = "head" /\ ~ex[r].cut
  /\ ~Identified(ex[r])
  /\ ex' = [ex EXCEPT ![r] = [Sent(IF ask[r].nostore THEN "raw" ELSE "cache", r, ask[r])
                              EXCEPT !.background = ex[r].background,
                                     !.entry = ex[r].entry]]
  /\ NoReuse
  /\ UNCHANGED <<now, store, inflight, origin, ask, user, world, started, withdrawn>>

(* The end of an exchange whose stale entry has been delivered.            *)
OnErrorAfterStale(r) ==
  /\ Running(r) /\ ex[r].mode = "stale"
  /\ Over(r)
  /\ NoReuse
  /\ UNCHANGED <<now, store, origin, ask, user, world, started, withdrawn>>

(* A failure before any answer, within the stale-if-error window.          *)
OnErrorFailover(r) ==
  /\ Running(r) /\ ex[r].kind = "reval" /\ ex[r].mode = "none"
  /\ ex[r].failover /\ ~ex[r].aborted
  /\ \E u \in Serve(user[r], ex[r].entry) : Tell(r, u)
  /\ Reuse(ex[r].entry, ask[r], ex[r].sentAt, "error")
  /\ Over(r)
  /\ UNCHANGED <<now, store, origin, ask, world, started, withdrawn>>

(* Any other failure, or the end an abort brings, is the handler's.        *)
OnError(r) ==
  /\ Running(r)
  /\ ex[r].mode # "stale"
  /\ ex[r].kind = "reval" /\ ~ex[r].aborted =>
       ex[r].mode = "none" /\ ~ex[r].failover
  /\ Tell(r, Failed(user[r]))
  /\ Over(r)
  /\ NoReuse
  /\ UNCHANGED <<now, store, origin, ask, world, started, withdrawn>>

-----------------------------------------------------------------------------
(* The handler aborts; a transport that is not connected hears of it when  *)
(* it connects.  Nothing is left to an aborted exchange but to end, and    *)
(* what its handler holds is forgotten here.                               *)
Abort(r) ==
  /\ user[r].open /\ user[r].ended = "none" /\ ~user[r].cancelled
  /\ user' = [user EXCEPT ![r].cancelled = TRUE]
  /\ ex' = IF ex[r].phase = "sent" THEN ex
           ELSE [ex EXCEPT ![r] = [NoExchange EXCEPT
                  !.kind = ex[r].kind, !.phase = "open", !.cut = TRUE, !.aborted = TRUE]]
  /\ NoReuse
  /\ UNCHANGED <<now, store, inflight, origin, ask, world, started, withdrawn>>

Tick ==
  /\ now < MaxNow
  /\ now' = now + 1
  /\ store' = {e \in store : e.deleteAt > now'}
  /\ NoReuse
  /\ UNCHANGED <<inflight, origin, ask, ex, user, world, started, withdrawn>>

Start(r) ==
  \E a \in Asks[world] : \E e \in IF a.unsafe THEN {NoEntry} ELSE Candidates(a) :
    \/ Bypass(r, a, e) \/ Fetch(r, a, e) \/ Hit(r, a, e)
    \/ GatewayTimeout(r, a, e) \/ Revalidate(r, a, e)
    \/ ServeWhileRevalidate(r, a, e)

Respond(r) ==
  \E ans \in Answers[world] :
    \/ OnHeaders(r, ans) \/ OnUnsafeHeaders(r, ans) \/ OnNotModified(r, ans)
    \/ OnStaleError(r, ans) \/ OnReplacement(r, ans)

End(r) ==
  \/ OnComplete(r) \/ OnValidated(r) \/ OnMismatch(r)
  \/ OnErrorAfterStale(r) \/ OnErrorFailover(r) \/ OnError(r)

AllRenewed == \A r \in Requests : ex[r].phase # "over"

Next ==
  \/ \E r \in Requests : Renew(r)
  \/ AllRenewed /\ \E r \in Requests : \/ Start(r) \/ OnConnect(r) \/ Respond(r)
                                       \/ OnData(r) \/ End(r) \/ Abort(r)
  \/ AllRenewed /\ Tick

Spec == Init /\ [][Next]_vars

-----------------------------------------------------------------------------
(* Every variable is of its kind.                                          *)
TypeOK ==
  /\ world \in Worlds /\ started \in 0..MaxStarts[world] /\ now \in 0..MaxNow
  /\ \A e \in store : /\ RowKey(e) \in Paths \X (Sels \cup {NoSel})
                       /\ e.cachedAt <= now /\ now < e.deleteAt /\ e.d \in Directives
  /\ \A e, f \in store : RowKey(e) = RowKey(f) => e = f
  /\ inflight \subseteq Paths \X (Sels \cup {NoSel})
  /\ withdrawn \subseteq Paths \X (Sels \cup {NoSel})
  /\ origin \in [Paths -> 1..MaxVersion]
  /\ ask \in [Requests -> Asks[world] \cup {NoEntry}]
  /\ \A r \in Requests :
       /\ ex[r].kind \in {"none", "raw", "unsafe", "cache", "reval"}
       /\ ex[r].phase \in {"none", "sent", "open", "head", "body", "over"}
       /\ ex[r].mode \in {"none", "pass", "validated", "stale"}
       /\ user[r].ended \in {"none", "complete", "error"}

(* The handler of every request is told of one exchange, whether its       *)
(* response comes from the store, from the origin or from both in turn.    *)
Contract(r) ==
  INSTANCE HandlerContract WITH
    open <- user[r].open, head <- user[r].head, received <- user[r].received,
    cancelled <- user[r].cancelled, ended <- user[r].ended

KeepsContract ==
  /\ \A r \in Requests : Contract(r)!Init
  /\ [][\A r \in Requests :
          IF ex[r].phase = "over" THEN user[r].ended # "none"
          ELSE Contract(r)!Next \/ UNCHANGED user[r]]_vars

(* A slot is taken exactly as long as the one refresh that took it runs,   *)
(* however it ends, and no exchange ends without ending its request.       *)
Refreshing == {r \in Requests : ex[r].background}

Settled ==
  /\ inflight = {RowKey(ex[r].entry) : r \in Refreshing}
  /\ \A q, r \in Refreshing : RowKey(ex[q].entry) = RowKey(ex[r].entry) => q = r
  /\ \A r \in Requests : ex[r].phase = "over" => user[r].ended # "none"

(* The headers and the entity-tag of a stored response are those of its    *)
(* body, whatever 304 has updated them.                                    *)
TagNamesBody ==
  \A e \in store : e.head = e.body /\ e.tag \in {NoRep, e.body}

(* What was stored before the last successful change of its URL is gone.   *)
(* A response in flight meanwhile may still be stored, and is then no older*)
(* than what the origin held when its request was sent.                    *)
InvalidatedIsGone ==
  \A e \in store : e.epoch = origin[e.path] /\ e.body[2] >= e.known

(* Until when an entry is fresh, counted from the earliest moment the      *)
(* origin can have made or validated it.                                   *)
FreshUntil(e) ==
  e.made + Smaller(MaxEntryTTL,
    DetermineLifetime(e.status, e.d, e.expires, e.date, e.modified).lifetime)

(* How long after that the request and the response allow its use.         *)
Grace(how, a, e) ==
  IF how = "error" THEN StaleIfError(a, e)
  ELSE Larger(e.d.swr, IF e.d.smaxage = None THEN a.maxstale ELSE None)

Timely(e, a, t, how) ==
  /\ ~a.nocache /\ ~e.d.nocache
  /\ a.maxage # None => a.maxage > 0 /\ t - e.made <= a.maxage
  /\ a.minfresh # None => FreshUntil(e) - t >= a.minfresh
  /\ \/ t < FreshUntil(e)
     \/ ~e.d.mustreval /\ ~e.d.proxyreval /\ t <= FreshUntil(e) + Grace(how, a, e)

(* A response is answered without the origin only within the time limits   *)
(* of the response and of the request, counted on the true age of the      *)
(* response and not on what the cache has recorded of it.                  *)
ReuseIsTimely ==
  reuse # NoEntry /\ reuse.how # "validated" =>
    Timely(reuse.entry, reuse.ask, reuse.at, reuse.how)

(* What permits a shared cache to keep a response made for a request with  *)
(* Authorization: only a directive that says so in so many words.          *)
Permits(d) == d.public \/ d.mustreval \/ d.smaxage \in Nat

(* A stored response answers only requests of its selecting value; when it *)
(* was made for a request with Authorization, or is used for one, only     *)
(* while the origin's last word permits that; and never from a row that a  *)
(* 304 has withdrawn or filed under another selector.                      *)
ReuseIsShareable ==
  reuse # NoEntry =>
    LET e == reuse.entry
        a == reuse.ask IN
    /\ e.sel \in {NoSel, a.sel}
    /\ reuse.how # "validated" =>
         (e.by \/ a.auth => Permits(e.d))
    /\ reuse.how = "hit" => ~reuse.out

=============================================================================
