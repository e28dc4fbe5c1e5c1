--------------------------------- MODULE Dns ---------------------------------
(***************************************************************************)
(* The dns interceptor of lib/interceptor/dns.js, for one hostname, one    *)
(* TTL policy and one resolver (the code keeps those apart).  Requests     *)
(* that find no usable record share one lookup; a request that finds       *)
(* records uses one of them at once and, past half their TTL, starts a     *)
(* refresh; a failed lookup is remembered for a short while; a record      *)
(* whose connection fails expires at once.                                 *)
(*                                                                         *)
(* Records are objects that live on in the requests that were given them   *)
(* after the cache has replaced them.  They are therefore named by the     *)
(* lookup that brought them: a generation.                                 *)
(*                                                                         *)
(* The resolver and the dispatcher below are the environment.  A resolver  *)
(* may answer inside the call, later, or more than once.  Which of several *)
(* usable records a request takes (the balance) is left open.              *)
(***************************************************************************)
EXTENDS Integers, FiniteSets

CONSTANTS
  Requests,
  Addresses,      \* the addresses the hostname may resolve to
  Ttl,            \* opts.dns.ttl
  NegativeTtl,    \* opts.dns.negativeTTL
  SweepInterval,  \* SWEEP_INTERVAL
  MaxTime         \* bound on the clock

ASSUME DnsAssumption ==
  /\ IsFiniteSet(Requests) /\ IsFiniteSet(Addresses)
  /\ Ttl \in Nat /\ NegativeTtl \in Nat /\ SweepInterval \in Nat
  /\ MaxTime \in Nat \ {0}

VARIABLES
  now, lastSweep,
  \* The state of the resolver.
  cache,      \* the generation in the cache, 0 for none
  negative,   \* when the remembered failure expires, Never for none
  inflight,   \* promises: the lookup whose promise is registered, 0 for none
  started,    \* the lookups so far
  answer,     \* per settled lookup: its addresses, {} for a failure
  expires,    \* per generation and address
  pending,    \* per generation and address: requests in flight, as counted
  \* The requests.
  phase,      \* "idle", "waiting", "hashing", "dispatched", "connected", "over"
  asked,      \* the clock when the request arrived
  given,      \* the lookup whose promise, or the generation, it was given
  address,    \* the address it was sent to, a set of at most one
  settled,    \* onSettle has run
  aborted,    \* the caller has aborted since it was connected
  ended,      \* terminal events its handler has received
  hasher      \* whether xxhash has been loaded

lookupVars  == <<cache, negative, inflight, started, answer>>
requestVars == <<phase, asked, given, address, settled, aborted, ended>>
vars == <<now, lastSweep, lookupVars, expires, pending, requestVars, hasher>>

Never == -1

(* A request starts at most two lookups: its own and a refresh.            *)
Lookups == 1..(2 * Cardinality(Requests))

Init ==
  /\ now = 1 /\ lastSweep = 0   \* an evicted record, at 0, is always expired
  /\ cache = 0 /\ negative = Never /\ inflight = 0 /\ started = 0
  /\ answer = [l \in {} |-> {}]
  /\ expires = [l \in Lookups |-> [a \in Addresses |-> 0]]
  /\ pending = [l \in Lookups |-> [a \in Addresses |-> 0]]
  /\ phase = [r \in Requests |-> "idle"]
  /\ asked = [r \in Requests |-> 0]
  /\ given = [r \in Requests |-> 0]
  /\ address = [r \in Requests |-> {}]
  /\ settled = [r \in Requests |-> FALSE]
  /\ aborted = [r \in Requests |-> FALSE]
  /\ ended = [r \in Requests |-> 0]
  /\ hasher = FALSE

-----------------------------------------------------------------------------
(* Lookups.                                                                *)

Answered(l) == l \in DOMAIN answer

(* Faulty: a failure is remembered, but the promise is left unsettled.     *)
Answers_LeftOpen(l, A, malformed, c) ==
  IF A = {}
  THEN /\ negative' = IF ~malformed /\ NegativeTtl > 0 THEN now + NegativeTtl ELSE Never
       /\ cache' = c
       /\ UNCHANGED <<answer, expires>>
  ELSE /\ answer' = [k \in DOMAIN answer \cup {l} |-> IF k = l THEN A ELSE answer[k]]
       /\ negative' = Never
       /\ cache' = IF Ttl = 0 THEN 0 ELSE l
       /\ expires' = [expires EXCEPT ![l] =
                        [a \in Addresses |-> IF a \in A THEN now + Ttl ELSE 0]]

(* The first callback of lookup l, with addresses A or a failure, which is *)
(* remembered unless it was an answer of the wrong shape; c is the cache   *)
(* before it.                                                              *)
Answers(l, A, malformed, c) ==
  /\ answer' = [k \in DOMAIN answer \cup {l} |-> IF k = l THEN A ELSE answer[k]]
  /\ IF A = {}
     THEN /\ negative' = IF ~malformed /\ NegativeTtl > 0 THEN now + NegativeTtl ELSE Never
          /\ cache' = c
          /\ UNCHANGED expires
     ELSE /\ negative' = Never
          /\ cache' = IF Ttl = 0 THEN 0 ELSE l
          /\ expires' = [expires EXCEPT ![l] =
                           [a \in Addresses |-> IF a \in A THEN now + Ttl ELSE 0]]

(* Faulty: a promise that settled inside the call is registered as well.   *)
Registered_Always(l, early) == l

(* What is registered of a lookup that was answered inside the call or not.*)
Registered(l, early) == IF early THEN 0 ELSE l

(* resolve: join the lookup in flight, or start one, which a resolver may  *)
(* answer inside the call.  The caller is given lookup l.                  *)
Resolve(l, c, n) ==
  IF inflight # 0
  THEN /\ l = inflight
       /\ cache' = c /\ negative' = n
       /\ UNCHANGED <<inflight, started, answer, expires>>
  ELSE /\ l = started + 1
       /\ started' = l
       /\ \/ /\ inflight' = Registered(l, FALSE)
             /\ cache' = c /\ negative' = n
             /\ UNCHANGED <<answer, expires>>
          \/ /\ inflight' = Registered(l, TRUE)
             /\ \E A \in SUBSET Addresses, malformed \in BOOLEAN : Answers(l, A, malformed, c)

(* Faulty: a resolver that calls back twice is heard twice.                *)
Heard_Always(l) == l \in 1..started

(* Only the first callback of a lookup counts.                             *)
Heard(l) == l \in 1..started /\ ~Answered(l)

(* A callback of the resolver after the call; all but the first are void.  *)
Callback(l) ==
  /\ Heard(l)
  /\ inflight' = 0
  /\ \E A \in SUBSET Addresses, malformed \in BOOLEAN : Answers(l, A, malformed, cache)
  /\ UNCHANGED <<now, lastSweep, started, pending, requestVars, hasher>>

-----------------------------------------------------------------------------
(* Requests.                                                               *)

(* The one terminal event of the handler of request r.                    *)
Ends(r) ==
  /\ phase' = [phase EXCEPT ![r] = "over"]
  /\ ended' = [ended EXCEPT ![r] = @ + 1]

(* The records of generation g that were not expired at time t.            *)
Usable(g, t) ==
  IF g = 0 THEN {} ELSE {a \in answer[g] : expires[g][a] >= t}

(* A record past half its TTL.                                             *)
Ageing(g, t) ==
  \E a \in answer[g] : 2 * expires[g][a] < 2 * t + Ttl

(* Request r, which arrived at time t, takes a record of generation g.     *)
Select(r, g, t, c, n) ==
  IF Usable(g, t) = {}
  THEN /\ Ends(r)
       /\ cache' = c /\ negative' = n
       /\ UNCHANGED <<inflight, started, answer, expires, pending, address>>
  ELSE /\ \E a \in Usable(g, t) :
            /\ address' = [address EXCEPT ![r] = {a}]
            /\ pending' = [pending EXCEPT ![g][a] = @ + 1]
       /\ phase' = [phase EXCEPT ![r] = "dispatched"]
       /\ IF Ageing(g, t)
          THEN \E l \in Lookups : Resolve(l, c, n)
          ELSE cache' = c /\ negative' = n /\ UNCHANGED <<inflight, started, answer, expires>>
       /\ UNCHANGED ended

(* The records are at hand; the first requests that balance by hash wait   *)
(* for the hash function first.                                            *)
Proceed(r, g, t, c, n) ==
  /\ given' = [given EXCEPT ![r] = g]
  /\ \/ Select(r, g, t, c, n)
     \/ /\ ~hasher
        /\ phase' = [phase EXCEPT ![r] = "hashing"]
        /\ cache' = c /\ negative' = n
        /\ UNCHANGED <<inflight, started, answer, expires, pending, address, ended>>

(* The dispatch: sweep, then a hit, a remembered failure, or a lookup.     *)
Arrive(r) ==
  LET sweeps == now - lastSweep >= SweepInterval
      dead == /\ cache # 0
              /\ \A a \in answer[cache] : expires[cache][a] < now /\ pending[cache][a] = 0
      c == IF sweeps /\ dead THEN 0 ELSE cache
      n == IF sweeps /\ negative < now THEN Never ELSE negative
  IN /\ phase[r] = "idle"
     /\ asked' = [asked EXCEPT ![r] = now]
     /\ lastSweep' = IF sweeps THEN now ELSE lastSweep
     /\ IF Usable(c, now) # {}
        THEN Proceed(r, c, now, c, n)
        ELSE IF n # Never /\ n >= now
        THEN /\ Ends(r)
             /\ cache' = c /\ negative' = n
             /\ UNCHANGED <<inflight, started, answer, expires, pending, given, address>>
        ELSE /\ phase' = [phase EXCEPT ![r] = "waiting"]
             /\ \E l \in Lookups :
                  given' = [given EXCEPT ![r] = l] /\ Resolve(l, c, n)
             /\ UNCHANGED <<pending, address, ended>>
     /\ UNCHANGED <<now, settled, aborted, hasher>>

(* Faulty: the clock is read anew after a wait.                            *)
Clock_Anew(r) == now

(* The reading of the clock a request goes by: that of its arrival.        *)
Clock(r) == asked[r]

(* The awaited lookup has settled.                                         *)
Continue(r) ==
  /\ phase[r] = "waiting" /\ Answered(given[r])
  /\ IF answer[given[r]] = {}
     THEN Ends(r) /\ UNCHANGED <<lookupVars, expires, pending, given, address>>
     ELSE Proceed(r, given[r], Clock(r), cache, negative)
  /\ UNCHANGED <<now, lastSweep, asked, settled, aborted, hasher>>

(* The hash function is loaded.                                            *)
Hashed(r) ==
  /\ phase[r] = "hashing"
  /\ hasher' = TRUE
  /\ Select(r, given[r], Clock(r), cache, negative)
  /\ UNCHANGED <<now, lastSweep, asked, given, settled, aborted>>

-----------------------------------------------------------------------------
(* The dispatcher below calls the handler.                                 *)

(* Faulty: every terminal signal counts.                                   *)
Settle_Twice(r, evict) ==
  LET g == given[r] IN
  /\ settled' = [settled EXCEPT ![r] = TRUE]
  /\ pending' = [pending EXCEPT ![g] =
                   [a \in Addresses |-> IF a \in address[r] THEN @[a] - 1 ELSE @[a]]]
  /\ expires' = [expires EXCEPT ![g] =
                   [a \in Addresses |-> IF evict /\ a \in address[r] THEN 0 ELSE @[a]]]

(* onSettle: once, the record has one request less, and expires at once    *)
(* after a connection error.                                               *)
Settle(r, evict) ==
  LET g == given[r] IN
  IF settled[r] THEN UNCHANGED <<settled, pending, expires>>
  ELSE /\ settled' = [settled EXCEPT ![r] = TRUE]
       /\ pending' = [pending EXCEPT ![g] =
                        [a \in Addresses |-> IF a \in address[r] THEN @[a] - 1 ELSE @[a]]]
       /\ expires' = [expires EXCEPT ![g] =
                        [a \in Addresses |-> IF evict /\ a \in address[r] THEN 0 ELSE @[a]]]

environment == <<now, lastSweep, lookupVars, asked, given, address, hasher>>

OnConnect(r) ==
  /\ phase[r] = "dispatched"
  /\ phase' = [phase EXCEPT ![r] = "connected"]
  /\ aborted' = [aborted EXCEPT ![r] = FALSE]
  /\ UNCHANGED <<environment, expires, pending, settled, ended>>

(* The caller aborts what is connected.                                    *)
Abort(r) ==
  /\ phase[r] = "connected" /\ ~aborted[r]
  /\ aborted' = [aborted EXCEPT ![r] = TRUE]
  /\ UNCHANGED <<environment, expires, pending, phase, settled, ended>>

(* onComplete, or onUpgrade.                                               *)
OnComplete(r) ==
  /\ phase[r] = "connected" /\ ~aborted[r]
  /\ Settle(r, FALSE)
  /\ Ends(r)
  /\ UNCHANGED <<environment, aborted>>

(* onError, with the code of a connection error or without.                *)
OnError(r) ==
  /\ phase[r] \in {"dispatched", "connected"}
  /\ \E broken \in BOOLEAN : Settle(r, broken /\ ~aborted[r])
  /\ Ends(r)
  /\ UNCHANGED <<environment, aborted>>

(* The dispatch throws or its promise rejects: instead of a callback, or   *)
(* after the terminal one.                                                 *)
OnRejection(r) ==
  /\ phase[r] \in {"dispatched", "connected", "over"} /\ address[r] # {}
  /\ \E broken \in BOOLEAN : Settle(r, broken)
  /\ phase' = [phase EXCEPT ![r] = "over"]
  /\ ended' = [ended EXCEPT ![r] = IF @ = 0 THEN 1 ELSE @]
  /\ UNCHANGED <<environment, aborted>>

Tick ==
  /\ now < MaxTime
  /\ now' = now + 1
  /\ UNCHANGED <<lastSweep, lookupVars, expires, pending, requestVars, hasher>>

Next ==
  \/ \E l \in Lookups : Callback(l)
  \/ \E r \in Requests :
       \/ Arrive(r) \/ Continue(r) \/ Hashed(r)
       \/ OnConnect(r) \/ Abort(r) \/ OnComplete(r) \/ OnError(r) \/ OnRejection(r)
  \/ Tick

Spec == Init /\ [][Next]_vars

(* A resolver answers, a settled promise continues its waiters, the hash   *)
(* function loads, and the dispatcher ends what it was given.              *)
Fairness ==
  /\ WF_vars(\E l \in Lookups : Callback(l))
  /\ \A r \in Requests :
       /\ WF_vars(Continue(r) \/ Hashed(r))
       /\ WF_vars(OnConnect(r) \/ OnComplete(r) \/ OnError(r))

FairSpec == Spec /\ Fairness

-----------------------------------------------------------------------------
(* Properties.                                                             *)

LookupTypes ==
  /\ started \in 0..(2 * Cardinality(Requests))
  /\ cache \in {0} \cup Lookups /\ inflight \in {0} \cup Lookups
  /\ negative \in {Never} \cup Nat
  /\ DOMAIN answer \subseteq Lookups
  /\ \A l \in DOMAIN answer : answer[l] \subseteq Addresses
  /\ expires \in [Lookups -> [Addresses -> Nat]]

RequestTypes ==
  /\ phase \in [Requests -> {"idle", "waiting", "hashing", "dispatched", "connected", "over"}]
  /\ asked \in [Requests -> 0..MaxTime]
  /\ given \in [Requests -> {0} \cup Lookups]
  /\ address \in [Requests -> SUBSET Addresses]
  /\ settled \in [Requests -> BOOLEAN] /\ aborted \in [Requests -> BOOLEAN]
  /\ ended \in [Requests -> Nat]

(* The kinds of the fields; a load is never negative (499-511).            *)
TypeOK ==
  /\ now \in 1..MaxTime /\ lastSweep \in 0..MaxTime /\ hasher \in BOOLEAN
  /\ LookupTypes /\ RequestTypes
  /\ pending \in [Lookups -> [Addresses -> Nat]]

(* The load of a record is the number of requests it has in flight, in the *)
(* generation in the cache and in those it has replaced, however a request *)
(* ends: callback, upgrade, throw, rejection, or several of them (489-520).*)
LoadIsExact ==
  \A g \in Lookups, a \in Addresses :
    pending[g][a] = Cardinality({r \in Requests :
                                   /\ given[r] = g /\ address[r] = {a}
                                   /\ phase[r] \in {"dispatched", "connected"}})

(* At most one lookup is under way, and it is the registered one: a settled*)
(* lookup is never joined, and none is started beside another (187-291).   *)
OneLookup ==
  {l \in 1..started : ~Answered(l)} = {inflight} \ {0}

(* The caches say what the latest answer said: the records of the latest   *)
(* lookup that brought any, and a failure only if the latest one failed    *)
(* (205-265).                                                              *)
LatestAnswerCounts ==
  /\ cache # 0 => /\ answer[cache] # {}
                  /\ \A l \in DOMAIN answer : l > cache => answer[l] = {}
  /\ negative # Never => \A l \in DOMAIN answer :
                           (\A k \in DOMAIN answer : k <= l) => answer[l] = {}

(* A request that waited, for a lookup that succeeded or for the hash      *)
(* function, is sent to one of the records it waited with, however late it *)
(* goes on; only connection errors of others may have taken them all       *)
(* (393-451).                                                              *)
AnswerIsUsed ==
  [][\A r \in Requests :
       phase[r] \in {"waiting", "hashing"} /\ phase'[r] = "over"
       => \A a \in answer[given[r]] : expires[given[r]][a] = 0]_vars

(* A request that arrived ends, whatever the lookups of others do.         *)
EveryRequestEnds ==
  \A r \in Requests : phase[r] # "idle" ~> ended[r] = 1

(* "The IP is bad/unreachable - drop it from rotation immediately": after a*)
(* connection error to an address the records in the cache do not offer it *)
(* (517-524).                                                              *)
BrokenIsDropped ==
  [][\A r \in Requests, a \in Addresses :
       (/\ a \in address[r] /\ expires[given[r]][a] # 0
        /\ ~settled[r] /\ settled'[r] /\ expires'[given[r]][a] = 0)
       => a \notin Usable(cache, now)']_vars

=============================================================================
