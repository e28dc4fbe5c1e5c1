# nxt-undici: a TLA+ development

`@nxtedition/nxt-undici` is an HTTP client library: a chain of *interceptors*
around an undici dispatcher, a `request()` promise on top, and a cache store in
SQLite below one of the interceptors. Everything runs on one JavaScript thread.
What makes it hard is not parallelism but the order of callbacks: transports,
timers, abort signals, promises, `setImmediate` and user callbacks interleave
freely, and each interceptor has to keep one contract upwards whatever happens
below it and beside it.

This directory holds TLA+ models of the interceptors and of the cache store,
TLC configurations that check them on small instances, and TLAPS proofs.
Line numbers are those of the files under `src/lib`.

    tlc -workers 2 -config retry_safety.cfg MCResponseRetry
    tlapm PriorityProofs.tla
    tlapm DnsProofs.tla
    tlapm InFlightProofs.tla
    tlapm StoreProofs.tla
    tlapm RetryProofs.tla
    tlapm CacheProofs.tla
    tlapm PressureProofs.tla
    tlapm ExchangeProofs.tla

## 1. The system

### 1.1 The chain

`lib/index.js` composes the interceptors around a dispatcher (innermost first):
dispatcher, invalidation of normalised headers, **priority**, **dns**, request
body factory, proxy (request side), **response-retry**, response-verify,
pressure, proxy (response side), **cache**, redirect, log, lookup, request-id,
response-error, query, proxy target, defaults. A call goes down the chain as
`dispatch(opts, handler)`; callbacks come up as `onConnect(abort)`,
`onHeaders(status, headers, resume)`, `onData(chunk)`, `onComplete`, `onError`.
`onHeaders` and `onData` may return `false`, which pauses the source until
`resume` is called; `abort(reason)` asks the source to stop, and an `onError`
is owed in return. `dispatch` may also return a promise, and a rejection stands
for an error that no callback reported.

Every interceptor's handler extends `DecoratorHandler` (`lib/utils.js`
712-772), whose three flags keep the contract towards the next handler: nothing
but an error after an abort, one terminal event.

### 1.2 Components

| component | state | operations | what is hard | what makes it correct |
|---|---|---|---|---|
| `DecoratorHandler` | aborted, errored, completed | the callbacks | re-entrance: a callback may abort | callback order, one end |
| response-retry | attempt, resume position, strong validator, buffered error body, replay, pause, pending decision, statistics | callbacks of the attempt, settlement of a retry decision, downstream abort and resume | attempts follow one another under one handler; aborts during a backoff; rejections of earlier attempts; splicing a resumed response | the consumer sees one piece of one response, in order, and one end |
| priority | a scheduler per origin, slot, queue, tombstones | submit, connect, end, abort in the queue, eviction | synchronous re-entrant admission, tombstones, replaced schedulers | one dispatch per origin at a time, no lost slot, no orphaned queue |
| sqlite cache store | rows, pending batch, scheduled flush, transaction | set, get, delete, clear, gc, flush, close, open | reads between set and flush, partial and failed flushes, failed ROLLBACK, restart | a map that may forget but never answers what was replaced or invalidated |
| cache | in-flight background refreshes, entry being collected | lookup, freshness, conditional request, stale answers, store, invalidate | invalidation racing a store, refresh deduplication, stale on error | what was stored is gone after an invalidation, no non-reusable response is served |
| dns | records and their load, negative cache, promises in flight | resolve, select, settle, sweep | sharing of lookups, clock read before an await, records replaced under a request | one lookup at a time per policy, gauges return to zero, an expired record is not used |
| pressure | gauges and latches per origin | connect, end, sample, evict, close | retried connects, upgrade, record replaced by close | gauges equal the requests in flight |
| request promise | promise, response stream, abort listener | connect, headers, data, ends, abort | abort in each phase | one settlement, body and listener cleaned up |
| lookup | one resolution | callback, promise, throw, abort | several channels race | one settlement, one dispatch or one error |
| redirect | location, history, abort of the hop | headers, end of hop, next dispatch | abort between hops | one exchange upwards, bounded hops |
| log | global in-flight registry | create, end | swap removal | the registry holds exactly the requests in flight |
| request body factory | factory, its stream, abort controller | construct, read, destroy | destroy before construct | a pending factory is cancelled, a body is destroyed |
| response-error, response-verify | body, digest | callbacks | pause of a collected body | an error carries its response; a wrong body does not complete |
| proxy, query, request-id, trace, parsers | none | pure | - | value-level, covered by tests |

The components meet in three ways: through the handler contract (every pair of
neighbours), through the cache store interface (cache and store), and through
the abort signal, which `request`, `lookup`, `priority`, `response-retry` and
the body factory each watch on their own.

## 2. What is modelled

One action is one callback or method. JavaScript runs it to its end, so nothing
interleaves inside it; what it calls synchronously - the downstream handler's
answer, its abort in the middle of a burst, the callbacks of an admitted
request - is part of the action or, where the code re-enters itself, a step
that may follow at once.

### 2.1 `HandlerContract`

What a handler may rely on: connected (perhaps several times) before headers;
one set of headers; a body that is a run of units of the source those headers
describe; one end; nothing but an error after an abort. A step is any legal
burst of callbacks, since one callback below may cause several above.

### 2.2 `ResponseRetry`

`lib/interceptor/response-retry.js`, one retried request. Variables are the
handler's private fields, then the transport (the attempt's number, phase,
response, unsettled promises), then what the downstream handler saw and did.
A body is a sequence of units; unit `i` of representation `s` is `<<s, i>>`, so
that a splice of two representations, a lost unit or a repeated one shows in
what the consumer received. An error response is a source of its own.

| action | code |
|---|---|
| `OnConnect` | 359-394 |
| `OnInformational`, `OnTrackedHeaders`, `OnUntrackedHeaders`, `OnErrorHeaders` | 401-478 |
| `OnResumeHeaders`, `OnDeclinedHeaders` | 479-563 |
| `OnData` (forwarding, buffering, start of a live replay) | 565-651 |
| `OnComplete`, `OnError`, `OnRejection` | 592-620, 342-352 |
| `Backoff`, `TimerFires` (the wait of an open decision) | 192-222, 908-1016 |
| `RetrySettled` (dispatch, decline, throw) | 819-887 |
| `DownstreamAbort` with `CutsWait`, `DownstreamResume` | 370-386, 269-283 |

The transport is the environment and keeps undici's own contract. A server may
exchange the representation between attempts, may drop or send a strong entity
tag, and equal strong tags mean equal bytes. The retry strategy may agree,
decline or throw, and may wait before it does: the built-in one begins its wait
at once, one of the options may call it at any time while the decision is open
(`Backoff`), and an abort may come before, during or after that wait. A strategy
given as an object, and the built-in one, are held
to `MaxRetries` by the code (778-783, 951); a bare function is not, and for it
`MaxRetries` is a bound of the model. Delays, the list of retryable codes and
the decoration of errors are data.

### 2.3 `Priority`

`lib/interceptor/priority.js`. A scheduler is named after the request it was
created for, so that schedulers of one origin in succession are told apart. The
external `Scheduler` is modelled from its use: `acquire` runs its callback at
once when the slot is free and queues it otherwise; `release` admits queued
callbacks synchronously, in any order. A release runs the callbacks of the
requests it admits before it comes back to its own eviction check, and those may
submit further requests: the outstanding checks are a set, and each is a step.

### 2.4 `SqliteCacheStore` and `StoreMap`

`lib/sqlite-cache-store.js`. `db` is the table as this connection sees it,
`batch` the pending entries as a set whose order is that of their `set`
numbers (`First` and `Rest` of an entry are the slice that ends with it and
what a COMMIT of that slice leaves), `scheduled` the number of `setImmediate(#flush)`
calls to come, `saved` the committed rows while a transaction is left open. An
entry is its URL, method, selector, window, Date, expiry and the number of the
`set` that brought it. `get` has no effect and is the operator `Found`. A flush
either commits a slice of the batch (with up to three evictions when the file
is full) or fails at `BEGIN` or at an entry, with or without a working
ROLLBACK. `Open` is a new store on the same file, after `close` or a crash.
`latest`, `lost` and `deleted` are history variables: which `set` is current,
whose write has failed, and the last acknowledged invalidation.

`StoreMap` is what a store promises while no write fails: a map from
representations to responses in which any response may be forgotten and none
ever returns.

### 2.5 `Dns`

`lib/interceptor/dns.js`, for one hostname under one TTL policy and one
resolver; the code keeps the state of other combinations apart. A record is an
object shared by the cache and by the requests that were given it, and it
outlives its place in the cache: it is named by the lookup that brought it, a
*generation*, and its address. `cache` is the generation the cache holds,
`inflight` the lookup whose promise is registered.

| action | code |
|---|---|
| `Arrive` (sweep, hit, remembered failure, join or start of a lookup) | 315-393, 145-185 |
| `Callback` (the first one counts), `Resolve` | 187-313 |
| `Continue`, `Hashed`, with `Select` (selection, refresh) | 393-500 |
| `OnConnect`, `Abort`, `OnComplete`, `OnError`, `OnRejection`, with `Settle` | 10-53, 502-594 |

The resolver may answer inside the call, later or twice, with any addresses,
with none or with an answer of the wrong shape. The choice among usable records
(hash or load order) is left open. A request takes two steps across each
`await`, and other requests, answers and the clock come between them.

### 2.6 `Cache` and `CacheFreshness`

`lib/interceptor/cache`. `CacheFreshness` is the arithmetic of `freshness.js` -
lifetime, age, stale windows, retention - as operators over small numbers;
`Malformed` is a directive that is there and no number, and `proxyreval` stands
for proxy-revalidate and for a must-revalidate that could not be read, which
forbid stale answers but, unlike must-revalidate, permit nothing. `Cache` is the
interceptor over a store that does what `StoreMap` promises: rows for a URL and
a selecting value, which a lookup may fail to find.

| action | code |
|---|---|
| `Start` with `Route` (bypass, hit, 304, 504, stale answer, validation, miss) | `index.js` 106-573 |
| `Respond` with `OnHeaders` (what may be stored, for how long) | `cache-handler.js` 128-396 |
| `Respond` with `OnNotModified`, `OnStaleError`, `OnReplacement` | `revalidation.js` 194-255 |
| `OnData`, `End` with `OnComplete` (the row is written) | `cache-handler.js` 398-456 |
| `End` with `OnValidated`, `Kept`, `Retires`, `StoreAfter`, `OnMismatch` (freshening by a 304) | `revalidation.js` 261-734 |
| `End` with `OnErrorFailover`, `OnError` | `revalidation.js` 274-369 |
| `Respond` with `OnUnsafeHeaders`, `Invalidated` | `invalidation-handler.js` 29-107 |
| `BackgroundRefresh`, `Tell`, `Over` | `revalidation.js` 761-828 |

The origin holds versions of each URL, an unsafe request that succeeds makes a
new one, and a response belongs to the version and the selecting value it was
sent for. An invalidation concerns what is stored when it runs: a response that
is in flight meanwhile is stored when it completes, by the code and by the
model, and `InvalidatedIsGone` says only that it is no older than what the
origin held when its request was sent. A 304 that brings Last-Modified gives the freshened entry its
heuristic lifetime, since revalidation.js 562 hands the merged headers to the
freshness arithmetic. What a row records of itself (`made`, `by`, `epoch`,
`known`) is history: the properties compare what the cache does with it, the actions do not
look at it. `reuse` holds what the last step answered from the store. A member
of `Requests` stands for one request after another.

### 2.7 `Exchange`, `Pressure` and `InFlight`

One request through the composed dispatcher: `request.js`, `response-error.js`,
`lookup.js`, `log.js`, `redirect.js`, `pressure.js`, `response-verify.js` and
`request-body-factory.js`, in the order of `index.js`. The layers between them
that have models of their own hand calls through, except that retry may connect
a request again before its headers. `InFlight` is the registry of log and
`Pressure` the monitor, both as values with operators that stand for their
methods; `Exchange` owns the variables and composes them, and a request that is
dispatched again by redirect enters `Pressure` again while it stays in
`InFlight`.

| action | code |
|---|---|
| `Start`, `Abort`, `Reject` | `request.js` 43-122, 173-205, 266-299 |
| `LookupSettles`, `AfterLookup` | `lookup.js` 73-219 |
| `Connect`, `Reconnect` | `pressure.js` 433-453, `redirect.js` 108-114, `request.js` 124-133, and for a repeated attempt `response-retry.js` 334-394 |
| `Answer` with `RedirectHeaders`, `UpHeaders` | `redirect.js` 127-280, `response-error.js` 52-66, `request.js` 135-163 |
| `Complete` with `RedirectComplete`, `UpComplete` | `redirect.js` 306-340, `pressure.js` 473-510, `log.js` 364-395 |
| `Overrun`, and the second disjunct of `Complete` | `response-verify.js` 104-146 |
| `Fail`, `LateRejection` | `pressure.js` 478-541, `log.js` 397-435 |
| `Upgrade`, `SocketCloses` | `pressure.js` 462-471, `log.js` 305-327 |
| `ConstructStream`, `FactorySettles`, `BodyEnds` | `request-body-factory.js` 56-219 |
| `Tick`, `CloseMonitor`, `InstallTracer` | `pressure.js` 187-308, 389-408 |

Several layers act in one callback, so an operator that stands for a layer's
callback takes the system `w` as one request sees it and returns it changed;
an action is the composition, from the layer where the callback enters to the
one where it ends. A smoothed signal of pressure is known by where it lies:
below the eviction threshold, below the release threshold, between the two,
or above the one that engages; a sample moves it some way towards what it saw.

## 3. What is checked

| run | instance | what it shows |
|---|---|---|
| `retry_safety` | 3 representations of 3, 1 and 0 units, error bodies up to `Cap + 1 = 3`, 2 retries, promises may reject, stream body (137,790 states) | `NoSplice`, `OneExchange`, `OutcomeMatchesEnd`, `PauseHolds`, `AbortReasonWins`, `ResumeIsSound`, and that the handler implements `HandlerContract` (`KeepsContract`): one end, nothing after it, nothing but an error after an abort |
| `retry_liveness` | the same without promises and stream bodies (13,627 states) | a retried request ends (`EveryRequestEnds`), an aborted one without the timer of a backoff |
| `retry_abort_in_replay` | the same, with aborts in a completed replay | **violation** of `AbortIsAnswered`, see 5 |
| `priority` | 4 requests, 2 origins, 2 watched signals (123,392 states) | `SlotIsExact` (`Serialised` and `NoLostSlot`), `TableIsExact` (`InUseIsListed` and `NoIdleScheduler`), `OneOutcome` (`EndsOnce` and `CancelledIsNotDispatched`), and that every submitted request ends |
| `store_safety` | one URL: full, `Vary` and two partial representations, 3 sets, 2 dates, a tombstone expiry, clock to 2, slices and evictions of one entry, failing statements, crashes (422,508 states) | one row and one pending entry for a representation (in `TypeOK`), `FlushIsInvisible`, `NeverOutdated` |
| `store_urls` | two URLs and two methods, 3 sets, failures and crashes (66,054 states) | `DeletedStaysDeleted`, and that every entry leaves the batch (`EntriesSettle`) |
| `store_contract` | as `store_safety` without failures and crashes (70,596 states) | `ImplementsMap`, `CloseDrains` |
| `dns` | 2 requests, 2 addresses, clock 1 to 3 with a TTL of 1, negative TTL of 1, sweep every 2 (97,873 states) | `LoadIsExact`, `OneLookup`, `LatestAnswerCounts`, `AnswerIsUsed`, and that every request ends |
| `dns_eviction` | the same | **violation** of `BrokenIsDropped`, see 5 |
| `cache` | 2 requests at a time, 2 URLs, 2 selecting values, 2 versions, clock to 2; world "depth": 3 requests over what decides validation, reuse and invalidation; world "breadth": 2 requests over one variant for each other branch (929,956 states, with symmetry) | slots of background refreshes are freed (`Settled`), a stored header names its body (`TagNamesBody`), `InvalidatedIsGone`, `ReuseIsTimely`, `ReuseIsShareable`, and each handler is told of one exchange (`KeepsContract`) |
| `exchange` | 2 hops, 2 origins; world "one": one request with every combination of lookup, signal, follow, verify and body; "many": three simple requests; "some", "full", "error": up to two requests under a monitor that samples that level (170,437 states) | `RegistryIsExact`, `GaugesAreExact`, `SamplingIsPaired`, `NothingIsLeft`, and that an aborted request comes to rest with everything released (`AbortReleases`) |
| `store_failed_rollback` | as `store_urls` with a ROLLBACK that may fail | **violation** of `DeletedStaysDeleted`, see 5 |

Every property of a passing run has a mutant: a change of one definition, kept
beside it under the comment *Faulty*, that makes TLC report exactly that
property (listed in `PROJECT.json`).

**Why the bounds are enough.** Two retries give a first attempt, a resumed one
and a resumed resume, which is where stale state of an earlier attempt could
surface; three units let a break fall before, inside and at the end of a body;
the one-unit and the empty representation cover a shorter and an empty
replacement. `Cap = 2` (256 KiB in the code) has error bodies below, at and
above it. With three requests on one origin a release finds a tombstone and a
live request behind it; the fourth makes a second origin. Three sets let an
entry be written, replaced in the batch and replaced in the table, and a slice
size of one (16 entries in the code) makes every prefix of the batch a possible
slice.
In `Dns` a TTL of
one over three readings makes a record fresh, due for a refresh, and expired;
two requests start up to four lookups, so that a failed lookup, an answer, its
refresh and a remembered failure follow one another, and a request can hold a
record of a replaced generation while the other selects.
In `Cache` a lifetime of one or two over three readings makes an entry fresh,
stale within its windows, and stale; two concurrent requests put an
invalidation, a second hit or a second validation between any two callbacks of
the first, and a third finds what they left. In `Exchange` two hops are the
first dispatch and a redirected one, which is where an abort between hops, a
body that cannot be sent again and a limit on redirects show. The worlds keep
what is independent apart: three requests exercise the registry's swap with a
first, a middle and a last leaver; the monitor's levels do not read one
another, so each is sampled in a world of its own.

**Fairness.** `ResponseRetry`: a transport answers what it accepted and answers
an abort, a retry strategy answers unless it waits for a backoff timer, and a
consumer that has not aborted resumes. The timer fires, but nothing is assumed of
it once the exchange is aborted: `EveryRequestEnds` then says that an abort ends
the wait (up to a minute in the code), and that no wait begins after it. A
strategy of the options that never answers, without waiting for the built-in
one, hangs its request also in the code. Nobody need abort, and a transport need not fail; an endless
series of 1xx responses is not progress. `Priority`: the dispatcher below ends
what it was given, and a release that was started reaches its check, which is
ordinary control flow. Nobody has to submit, abort or reject. `SqliteCacheStore`:
the event loop runs what `setImmediate` was given. `Dns`: a resolver answers a
lookup, promise continuations run, the hash function loads, and the dispatcher
below ends what it was given; the clock need not advance. `Exchange`: only of a
request whose signal has fired, that microtasks run, that a queued request is
connected or fails, that a transport which was cut says so, and that a factory
settles once its own signal has fired. Nothing is assumed of an origin, a lookup
or a factory that nobody has aborted. `Cache` has no fairness: that a slot is
freed however its refresh ends is an invariant.

`CHECK_DEADLOCK FALSE` stands in every configuration: a request that has ended,
or a store that has used up its `set` calls, legitimately stops.

## 4. What is proved

`PriorityProofs` proves, for any set of requests, origins and watched signals,
every safety invariant of the `priority` run: `TypeCorrect`, `SlotCorrect`,
`TableCorrect`, `OutcomeCorrect`, and each of their parts. The only assumption
is `PriorityAssumption` (typing of the constants).

None of the invariants is inductive alone. The argument rests on `Inv`, the
conjunction of

- `TypeOK`;
- `Slots`: a request holds a slot exactly while it is dispatched and
  unconnected, its scheduler then counts one, two holders of one scheduler are
  the same request, and a counted slot has a holder;
- `Queues`: a queued request has its scheduler and is not admitted, a queue
  implies a taken slot, what reached the dispatcher was admitted, and a
  cancelled request never reached it;
- `Names`: a scheduler was created by a request of the origin that uses it;
- `Listed`: whoever holds a slot or queues does so in the scheduler the table
  has for the origin, which gives serialisation across successive schedulers;
- `Watchers`: a drained scheduler in the table has an eviction check
  outstanding;
- `Terminals`: the flag of `DecoratorHandler` is up exactly after the one
  terminal event, and only for a request that was cancelled or is over.

`ReleaseCases` splits a release into its outcomes (no slot held; the slot
passed on over some tombstones; the queue consumed) and `ReleaseInv` shows that
each preserves `Slots`, `Queues`, `Listed` and `Watchers` once and for all, so
that the four actions that release only add what is their own. `NextInv` has one
step per action. `Invariance` combines it with `InitInv`, and each theorem
follows from `Inv`.

`DnsProofs` proves, for any finite sets of requests and addresses and any TTLs,
every invariant of the `dns` run (`TypeCorrect`, `LoadCorrect`,
`CachesAreCurrent`, `LookupsAreShared`) and its action property
(`AnswersAreUsed`). It assumes `DnsAssumption` (finite
sets, natural numbers). The inductive invariant `Inv` adds two parts:

- `Latest`: every lookup but the one in flight is answered, and the one in
  flight is the latest. Only so is an answer newer than what the caches hold,
  and `LatestAnswerCounts` follows;
- `Holds`: a request has a record exactly from its dispatch on, and has not
  settled exactly while it is in flight. So `DispatchInv` adds one request to
  the set counted by one record's load and `SettleInv` takes one away; that no
  load is negative (in `TypeOK`) follows from the count.

`ResolveInv` and `SelectInv` cover the synchronous calls that several actions
share; each action then adds its own guard.

`AnswersAreUsed` adds `Timely`: the records of a lookup expire together, save
those that a connection error has expired, and those a request waits with do
not expire before it arrived. `RecordsStep` and `WaitersStep` say what any step
does to records and to those who wait, and `Timely` follows from the two. That
the code reads the clock once, on arrival, is what the proof turns on.

`InFlightProofs` proves, without assumptions, that the registry of log stays
exact for any set of handlers: `EmptyIsExact`, `JoinIsExact`, `LeaveIsExact`.
The last is the one the swap makes delicate: the handler moved into the gap
takes its index along, everybody else keeps theirs, the handler that left is
listed nowhere even when it was the last one itself, and leaving again changes
nothing, which is why the end of a request counts once. Section 4.4 adds who is
in flight.

### 4.1 The store

`StoreProofs` takes any templates, lookups, dates, expiries and bounds
(`StoreAssumption`). Its inductive invariant `StoreInv` says that rows and
pending entries are one for each representation and, what the proofs turn on,
that whatever is written was set before whatever is pending, in the table as
this connection sees it and in the one a ROLLBACK would restore. It needs no
hypothesis about failures: `StoreInvariance`, `StoreTypeCorrect` and
`FlushesAreInvisible` hold though statements, ROLLBACKs and the process fail.

Three theorems have hypotheses that name a kind of failure, and they are the
ones under which TLC checks the property:

- `AnswersAreNeverOutdated` and `DeletionsAreFinal` take every ROLLBACK to
  succeed. Without that they are false, which is the second finding of section
  5. `RolledBackInv` adds that every row or pending entry is the last of its
  representation, or one whose successor is pending or failed, and that nothing
  from before a deletion is left.
- `CloseWritesEverything` takes no statement to fail, and `StoreIsAMap`, the
  refinement of `StoreMap`, takes in addition the process to stop only by
  `close()`. A pending entry is lost in a crash, and the map then answers what
  it had before; that is `NeverOutdated`'s business, not the map's. `MapStep`
  shows that a step of the store is a put, a forgetting or a stutter of the map.

### 4.2 The retry handler

`RetryProofs` takes any representations with any lengths, entity tags, cap,
retry count and kinds of dispatcher and request body (`ConstantsAssumption`), and
proves every safety and action property of `retry_safety` and the refinement of
`HandlerContract`. `RetryInv` is the types and two parts:

- `AttemptInv`: one attempt or one decision is under way, and the promise of an
  attempt is taken for its end only while that attempt has not ended. This is
  what the count a promise remembers is for.
- `ExchangeInv`: `EndInv`, what an end leaves behind (after it nothing runs but
  an attempt that was told to stop); `DeliveryInv`, what was delivered and what
  is buffered are runs of one body, the transport stands where they end, and the
  resume position is where the consumer stands; `PauseInv`, a consumer that has
  stopped holds the transport; `WholeInv`, a complete body of known length is
  whole.

`NextKeeps` has a lemma for each action. The action properties `ResumesAreSound`,
`PausesHold` and `AbortReasonsWin` and the refinement `RetryKeepsContract`
follow step by step from the invariant: each callback, the burst of a replay
included, is a legal burst of the contract or a stutter. The backoff wait tells
the rest of the handler only when a decision may settle, so its type (`WaitType`)
and `WaitInv` are invariants of their own beside `RetryInv`: no wait outlives an
abort and none begins after one (`AbortsCutWaits`), which is the safety half of
what `EveryRequestEnds` says of an abort during a backoff.

### 4.3 The cache

`CacheProofs` takes any number of requests under way at once, any URLs, any
asks and answers of their types and any configuration of the lifetimes
(`CacheAssumption`, `FreshnessAssumption`), and proves every property of the
`cache` run. `CacheInv` consists of

- `Kinds`, the types of all variables, entries and exchanges in full;
- `SoundStore`: every row is sound, current and not withdrawn. A sound entry
  has the headers and tag of its body, remembers that its request was
  authorized, and its clock (`cachedAt`) is no younger than the response, its
  freshness no longer than the response allows, counted from there;
- `Slots`: the slots taken are those of the refreshes that run, one each;
- for each request, `SoundChoice` (the entry under validation is one its
  request may have, and the permission to use it on an error was within its
  window), `SoundValue` (what is about to be stored is no older than the URL
  was when the request was sent), `Progress` and `Telling` (how the exchange
  and what its handler has seen go together, abort by abort).

TLC checks each of these parts on the `cache` instance. The arithmetic is in
lemmas of its own: `LifetimeKind` and `TimesKind` on what `freshness.js`
returns, `NewValueSound` and `FreshenedSound` on the entry a response or a 304
leaves, `HitIsTimely` and `ErrorIsTimely` on the windows. There is one lemma
for each action, and `NextKeeps` puts them together. `ReusesAreTimely` and
`ReusesAreShareable` follow from the invariant with a part about the last
answer, `ReuseSound`; `HandlersSeeOneExchange` is the refinement of
`HandlerContract` for each handler.

Stating `FreshenedSound` showed that the model first gave a freshened entry the
Last-Modified of the old entry alone; the code merges the headers, and the
model now does.

### 4.4 The exchange

The registry and the monitor are values with operators, so what is to be proved
of them alone is a theorem about operators; `Exchange` then has to show that
its callbacks reach them at the right times.

`PressureProofs` takes any finite set of handlers and any origins (`Countable`)
and shows that each method keeps a monitor `Sound`: its gauges count the
handlers in each state, its timer, table and documents agree, a latch is engaged
only while its signal has not fallen below the release threshold (`Hysteresis`),
a handler under way has a record (`Held`) and no two origins share one
(`Owned`). `NewMonitorSound` starts it; `EnterSound`, `ConnectedSound`,
`HeadersSound`, `ClientAbortsSound` and `SettleSound` are the callbacks of a
handler, `TicksSound`, `CloseSound` and `CollectSound` the timer, `close()` and
the garbage collector. Each also says what becomes of the states of the
handlers, which is all that `Exchange` needs to know. Records are reused in the
model, and `PlaceIsFree` shows that there is always one: requests inject into
their live attempts.

`ExchangeProofs` takes any finite sets of requests and origins, any bound on the
hops and any worlds of asks (`ExchangeAssumption`), with the timer, `close()` and
the trace writer running among them. Its inductive invariant `IInv` is

- the monitor is sound and the registry exact;
- `Begun` and `OnWire`, what the layers of a request know of each other: nothing
  is on the wire before the dispatch, a lookup under way has told nobody of an
  end, pressure has heard of an end when the layers above it have, a response
  that redirect holds back has hops left, and a transport that has headers and
  an end was cut;
- `Entry`, the request is in the registry from its dispatch to its end, or to
  that of its socket, and has then been counted once;
- `Gauge`, the monitor has an attempt of the request in the state which the
  transport of the current hop is in, and none of any other hop;
- the counter of lookup is the number of lookups under way.

An action is a composition of the callbacks of several layers, and so is its
proof. A callback that only hands on what it is told is `Mild`: it leaves alone
what these parts speak of, except that it may cut a transport, and mildness
composes. A callback that enters or leaves the registry or the monitor is proved
to keep `Own`, the parts about the request it serves, and `Others`, that it
disturbs no other request. `Continued` puts the two together. The abort is the
reason for much of this: it may run inside any callback, and reaches the
monitor only if the hop has not ended.

`RegistryStaysExact`, `GaugesStayExact`, `SamplingStaysPaired` and
`ExchangeTypeCorrect` follow.

`NothingStaysBehind` states `NothingIsLeft`, which speaks of what the caller
holds: its promise, its body, its listener, the bodies of factories. `AllKept`
adds to `IInv` what the fields of one request record know of each other:

- `Asked` and `Promising`: a caller with a handler of its own has no promise;
  a body was handed out exactly when the promise was resolved, and what was
  rejected has let go of its listener and of the caller's stream;
- `Handing`: the caller's stream has not been touched only until the transport
  has connected;
- `Reaching` and `Heeded`: whoever is on line has an abort that leads to the
  current hop, an abort that the caller asked for has gone down to the transport
  or found an end, and a transport whose request was aborted is cut;
- `Ending`, `Closing`, `Informed` and `Forwarded`: which ends imply which, and
  that whoever heard of an end, or whose headers went past redirect and
  response-error, has an answer. `Forwarded` is why an `onComplete` that does
  not touch the promise may not leave it waiting;
- `Streaming`: the body made for a hop is destroyed once the hop is over, and
  the factory is told in each of the states its construction may be in.

Here a callback is described by the fields it may change (`Frame`), and each
action by what its record fulfils before the last callback (`Poised` before a
dispatch, `Expectant` before the headers, `Failable` before an error, `Delivered`
before the end of a response). The places where the parts are needed together
are those of the code: a redirect that re-dispatches after an abort that came
too early (`Connected`), a rejected lookup (`AfterLookupKeeps`), an abort from
inside a callback (`OnAbortKeeps`).

### 4.5 What is left to TLC

Liveness (`EveryRequestEnds`, `EntriesSettle`, `AbortReleases`) needs fairness
and ENABLED, which the prover does not have. `NothingIsLeft` is the safety half
of `AbortReleases`: that a request comes to rest is model-checked, that nothing
is left when it has is proved.

## 5. Where the code disagrees with itself

- **An abort during a buffered replay is never answered**
  (`retry_abort_in_replay`). The attempt is over and its error body is being
  replayed; the abort clears the replay and calls the abort of a transport that
  has nothing left to say, and no terminal event follows. The comment at
  690-697 names exactly this hang as what must not happen. Interceptors outside
  retry (pressure, log, cache) keep the request in flight. The `retry_liveness`
  run excludes this abort (`AbortInReplay = FALSE`); the safety run keeps it.
- **A failed ROLLBACK undoes a later invalidation** (`store_failed_rollback`).
  A flush whose ROLLBACK fails leaves the connection in the transaction; the
  `delete` that follows succeeds inside it without an error, and the next
  flush's leading ROLLBACK undoes it: the invalidated response is answered
  again. `store_urls` shows that without a failing ROLLBACK the same property
  holds, so the guard of 740-748 is the cause.
- **An address that has just failed stays in rotation** (`dns_eviction`). A
  connection error is to drop the address "from rotation immediately" (dns.js
  523) by expiring its record, "forcing a re-resolve" (97). When a refresh has
  settled between the dispatch and the error, the cache holds new records and
  the expired one is no longer among them. The default TTL is 2 s and a refresh
  starts after 1 s, so this is the ordinary course of a connect timeout.

## 6. Limits

- Consistent servers: within one representation the units are the same whenever
  they are sent, and equal strong entity tags mean equal representations.
- A first 206 whose end is unknown is forwarded untracked, as in the code; the
  subset of a 206 a resumed server may choose is limited to what `Continues`
  accepts.
- The store has one process. The code documents cross-process invalidation as
  best-effort (688-694). Cached entries that start after 0 without being a 206
  are not produced by the cache and not modelled. A full disk combined with a
  failing ROLLBACK in the same transaction is left out.
- Upgrades are modelled in `Exchange` only (retry refuses them; priority has
  freed its slot by then), and there only for a handler of the caller's own.
- `Dns` leaves out the bypass for IP origins and requests without the option,
  the scores that order usable records, and duplicate addresses in one answer.
- `Cache` takes a store whose `set` does not fail, whatever `store_safety` shows
  of one that does. It leaves out the origins allow-list, counters, trace
  documents and header stripping; a request's window for stale answers on error
  is looked at when the entry is looked up, as in the code.
- `Exchange` leaves out informational responses, requests that log or pressure
  do not track, `error: false`, a `follow` that becomes falsy after a policy,
  and what `stats` and `shouldBackoff` read. A transport reports the error of an
  abort in a step of its own. A retry within a hop is limited to one, and to
  requests without a body. An `EPS` above a release threshold, which the options
  allow, is left out of `Pressure`.
- Not modelled: the proxy, query and request-id interceptors and the parsers of
  `utils.js` (pure functions over strings, better covered by tests), trace
  output, logging, statistics other than retry outcomes, and option validation.

## 7. Plan

1. *(done)* `ResponseRetry`, `HandlerContract`, `Priority`, `SqliteCacheStore`,
   `StoreMap`, `Dns`; proofs of `Priority` and `Dns`.
2. *(done)* `Cache` over what `StoreMap` promises.
3. *(done)* `Exchange` with `Pressure` and `InFlight`; lemmas of the registry.
4. *(done)* Proofs of the store, of `ResponseRetry` and of `Cache`, with the
   refinements of `StoreMap` and `HandlerContract`.
5. *(done)* Proofs of `Pressure` and of the registry, the gauges and the
   documents of `Exchange`.
6. *(done)* Proof of `NothingIsLeft` of `Exchange`.
7. `Exchange`: several retries within a hop, each with its own factory body.
