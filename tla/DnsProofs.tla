------------------------------ MODULE DnsProofs ------------------------------
(***************************************************************************)
(* The safety of Dns, for any number of requests and addresses and any     *)
(* TTLs.                                                                   *)
(*                                                                         *)
(* The argument: lookups are answered in the order in which they started,  *)
(* since the one under way is the latest and is registered (Latest).  So   *)
(* an answer is newer than what the caches hold.  A request has a record   *)
(* to give back exactly while it is in flight (Holds); every step adds or  *)
(* removes at most one request of one record, and the load with it.        *)
(***************************************************************************)
EXTENDS Dns, FiniteSetTheorems, TLAPS

(* Every lookup but the one in flight is answered, and that is the latest. *)
Latest ==
  /\ DOMAIN answer = (1..started) \ {inflight}
  /\ inflight \in {0, started}
  /\ cache # 0 => cache \in DOMAIN answer

LookupsInv == LookupTypes /\ Latest /\ LatestAnswerCounts

(* A request in flight has one record and has not settled; a request that  *)
(* is over has none or has settled.                                        *)
Holds ==
  \A r \in Requests :
    /\ phase[r] \in {"idle", "waiting", "hashing"} => address[r] = {} /\ ~settled[r]
    /\ phase[r] = "hashing" => given[r] \in DOMAIN answer
    /\ phase[r] \in {"dispatched", "connected"} =>
         given[r] \in Lookups /\ ~settled[r] /\ \E a \in Addresses : address[r] = {a}
    /\ phase[r] = "over" => address[r] = {} \/ settled[r]

Inv == TypeOK /\ Latest /\ LatestAnswerCounts /\ Holds /\ LoadIsExact

(* The requests a record has in flight.                                    *)
InFlight(g, a) ==
  {r \in Requests : /\ given[r] = g /\ address[r] = {a}
                    /\ phase[r] \in {"dispatched", "connected"}}

-----------------------------------------------------------------------------
(* Lookups.                                                                *)

LEMMA RequestCount == Cardinality(Requests) \in Nat
  BY DnsAssumption, FS_CardinalityType

(* An answer to the latest lookup, when all others are answered.           *)
LEMMA AnswersInv ==
  ASSUME LookupsInv, now \in Nat, NEW l \in Lookups,
         NEW A \in SUBSET Addresses, NEW malformed \in BOOLEAN, NEW c \in {0, cache},
         Answers(l, A, malformed, c),
         started' = l, inflight' = 0, DOMAIN answer = 1..(l - 1)
  PROVE  /\ LookupsInv'
         /\ DOMAIN answer \subseteq DOMAIN answer'
  <1> USE DnsAssumption, RequestCount DEF Never, Lookups
  <1>1. /\ DOMAIN answer' = 1..l
        /\ \A k \in 1..l : answer'[k] = IF k = l THEN A ELSE answer[k]
    BY DEF Answers
  <1>2. LookupTypes'
    <2>1. expires' \in [Lookups -> [Addresses -> Nat]]
      <3>1. expires \in [Lookups -> [Addresses -> Nat]]
        BY DEF LookupsInv, LookupTypes
      <3>2. [a \in Addresses |-> IF a \in A THEN now + Ttl ELSE 0] \in [Addresses -> Nat]
        BY DEF DnsAssumption
      <3>3. CASE A = {}
        BY <3>1, <3>3 DEF Answers
      <3>4. CASE A # {}
        BY <3>1, <3>2, <3>4 DEF Answers
      <3> QED
        BY <3>3, <3>4
    <2>2. cache' \in {0} \cup Lookups /\ negative' \in {Never} \cup Nat
      BY DEF Answers, LookupsInv, LookupTypes
    <2>3. started' \in 0..(2 * Cardinality(Requests)) /\ inflight' \in {0} \cup Lookups
      OBVIOUS
    <2>4. /\ DOMAIN answer' \subseteq Lookups
          /\ \A k \in DOMAIN answer' : answer'[k] \subseteq Addresses
      <3>1. \A k \in 1..(l - 1) : answer[k] \subseteq Addresses
        BY DEF LookupsInv, LookupTypes
      <3>2. \A k \in 1..l : k = l \/ k \in 1..(l - 1)
        OBVIOUS
      <3>3. \A k \in 1..l : answer'[k] \subseteq Addresses
        BY <1>1, <3>1, <3>2
      <3>4. 1..l \subseteq Lookups
        OBVIOUS
      <3> QED
        BY <1>1, <3>3, <3>4
    <2> QED
      BY <2>1, <2>2, <2>3, <2>4 DEF LookupTypes
  <1>3. Latest'
    BY <1>1 DEF Answers, LookupsInv, Latest
  <1>4. LatestAnswerCounts'
    <2>1. CASE A = {}
      <3>1. cache' = c
        BY <2>1 DEF Answers
      <3>2. cache' # 0 => /\ cache' \in 1..(l - 1) /\ answer'[cache'] # {}
                          /\ \A k \in 1..l : k > cache' => answer'[k] = {}
        BY <1>1, <2>1, <3>1 DEF LookupsInv, Latest, LatestAnswerCounts
      <3>3. \A k \in 1..l : (\A m \in 1..l : m <= k) => answer'[k] = {}
        BY <1>1, <2>1
      <3> QED
        BY <1>1, <3>2, <3>3 DEF LatestAnswerCounts
    <2>2. CASE A # {}
      <3>1. cache' \in {0, l} /\ negative' = Never
        BY <2>2 DEF Answers
      <3> QED
        BY <1>1, <2>2, <3>1 DEF LatestAnswerCounts
    <2> QED
      BY <2>1, <2>2
  <1> QED
    BY <1>1, <1>2, <1>3, <1>4 DEF LookupsInv

(* Joining or starting a lookup, after a sweep that may have emptied the   *)
(* caches.                                                                 *)
LEMMA ResolveInv ==
  ASSUME LookupsInv, now \in Nat, NEW l \in Lookups,
         NEW c \in {0, cache}, NEW n \in {Never, negative}, Resolve(l, c, n)
  PROVE  /\ LookupsInv'
         /\ DOMAIN answer \subseteq DOMAIN answer'
  <1> USE DnsAssumption, RequestCount DEF Never, Lookups
  <1>1. CASE inflight # 0
    <2>1. cache' = c /\ negative' = n /\ UNCHANGED <<inflight, started, answer, expires>>
      BY <1>1 DEF Resolve
    <2> QED
      BY <2>1 DEF LookupsInv, LookupTypes, Latest, LatestAnswerCounts
  <1>2. CASE inflight = 0
    <2>1. started' = l /\ l = started + 1 /\ DOMAIN answer = 1..(l - 1)
      BY <1>2 DEF Resolve, LookupsInv, LookupTypes, Latest
    <2>2. CASE inflight' = l /\ cache' = c /\ negative' = n /\ UNCHANGED <<answer, expires>>
      <3>1. LookupTypes'
        BY <2>1, <2>2 DEF LookupsInv, LookupTypes
      <3>2. Latest'
        BY <2>1, <2>2 DEF LookupsInv, Latest
      <3>3. LatestAnswerCounts'
        BY <2>2 DEF LookupsInv, LatestAnswerCounts
      <3> QED
        BY <2>2, <3>1, <3>2, <3>3 DEF LookupsInv
    <2>3. CASE inflight' = 0 /\ \E A \in SUBSET Addresses, malformed \in BOOLEAN :
                                  Answers(l, A, malformed, c)
      <3>1. PICK A \in SUBSET Addresses, malformed \in BOOLEAN : Answers(l, A, malformed, c)
        BY <2>3
      <3> QED
        BY <2>1, <2>3, <3>1, AnswersInv
    <2> QED
      BY <1>2, <2>2, <2>3 DEF Resolve, Registered
  <1> QED
    BY <1>1, <1>2

(* The caches may be swept without a lookup.                               *)
LEMMA SweptInv ==
  ASSUME LookupsInv, NEW c \in {0, cache}, NEW n \in {Never, negative},
         cache' = c, negative' = n, UNCHANGED <<inflight, started, answer, expires>>
  PROVE  LookupsInv'
  BY DEF LookupsInv, LookupTypes, Latest, LatestAnswerCounts, Never

(* A callback answers the lookup in flight.                                *)
LEMMA CallbackInv ==
  ASSUME LookupsInv, now \in Nat, NEW l \in Lookups, Callback(l)
  PROVE  /\ LookupsInv'
         /\ DOMAIN answer \subseteq DOMAIN answer'
  <1> USE RequestCount DEF Lookups
  <1>1. l = inflight /\ l = started /\ l \notin DOMAIN answer /\ DOMAIN answer = 1..(l - 1)
    BY DEF Callback, Heard, Answered, LookupsInv, LookupTypes, Latest
  <1>2. /\ inflight' = 0 /\ started' = l
        /\ \E A \in SUBSET Addresses, malformed \in BOOLEAN : Answers(l, A, malformed, cache)
    BY <1>1 DEF Callback
  <1>3. PICK A \in SUBSET Addresses, malformed \in BOOLEAN : Answers(l, A, malformed, cache)
    BY <1>2
  <1> QED
    BY <1>1, <1>2, <1>3, AnswersInv

-----------------------------------------------------------------------------
(* The load of the records.                                                *)

LEMMA InFlightIsFinite == \A g \in Lookups, a \in Addresses : IsFiniteSet(InFlight(g, a))
  <1>1. \A g \in Lookups, a \in Addresses : InFlight(g, a) \subseteq Requests
    BY DEF InFlight
  <1> QED
    BY <1>1, DnsAssumption, FS_Subset DEF DnsAssumption

(* The load is kept by a step that keeps who is in flight.                 *)
LEMMA SameLoad ==
  ASSUME LoadIsExact, UNCHANGED pending,
         \A g \in Lookups, a \in Addresses : InFlight(g, a)' = InFlight(g, a)
  PROVE  LoadIsExact'
  <1>1. \A g \in Lookups, a \in Addresses : pending[g][a] = Cardinality(InFlight(g, a))
    BY DEF LoadIsExact, InFlight
  <1>2. \A g \in Lookups, a \in Addresses : pending'[g][a] = Cardinality(InFlight(g, a)')
    BY <1>1
  <1> QED
    BY <1>2 DEF LoadIsExact, InFlight

(* A request that is in flight neither before nor after a step.            *)
LEMMA AsideInv ==
  ASSUME RequestTypes, LoadIsExact, NEW r \in Requests, NEW g \in {0} \cup Lookups,
         phase[r] \in {"idle", "waiting", "hashing"}, NEW p \in {"waiting", "hashing", "over"},
         phase' = [phase EXCEPT ![r] = p], given' = [given EXCEPT ![r] = g],
         UNCHANGED <<pending, address>>
  PROVE  LoadIsExact'
  <1>1. ASSUME NEW k \in Lookups, NEW a \in Addresses
        PROVE  InFlight(k, a)' = InFlight(k, a)
    BY DEF InFlight, RequestTypes
  <1> QED
    BY <1>1, SameLoad

(* A request that is sent to a record adds one to its load.                *)
LEMMA DispatchInv ==
  ASSUME TypeOK, LoadIsExact, NEW r \in Requests, NEW g \in Lookups, NEW a \in Addresses,
         phase[r] \in {"idle", "waiting", "hashing"},
         phase' = [phase EXCEPT ![r] = "dispatched"], given' = [given EXCEPT ![r] = g],
         address' = [address EXCEPT ![r] = {a}],
         pending' = [pending EXCEPT ![g][a] = @ + 1]
  PROVE  LoadIsExact' /\ pending' \in [Lookups -> [Addresses -> Nat]]
  <1>1. InFlight(g, a)' = InFlight(g, a) \cup {r} /\ r \notin InFlight(g, a)
    BY DEF InFlight, TypeOK, RequestTypes
  <1>2. ASSUME NEW k \in Lookups, NEW b \in Addresses, k # g \/ b # a
        PROVE  InFlight(k, b)' = InFlight(k, b) /\ pending'[k][b] = pending[k][b]
    BY <1>2 DEF InFlight, TypeOK, RequestTypes
  <1>3. pending' \in [Lookups -> [Addresses -> Nat]] /\ pending'[g][a] = pending[g][a] + 1
    BY DEF TypeOK
  <1>4. Cardinality(InFlight(g, a)') = Cardinality(InFlight(g, a)) + 1
    BY <1>1, InFlightIsFinite, FS_AddElement
  <1>5. \A k \in Lookups, b \in Addresses : pending[k][b] = Cardinality(InFlight(k, b))
    BY DEF LoadIsExact, InFlight
  <1>6. ASSUME NEW k \in Lookups, NEW b \in Addresses
        PROVE  pending'[k][b] = Cardinality(InFlight(k, b)')
    <2>1. CASE k = g /\ b = a
      <3>1. pending'[g][a] = Cardinality(InFlight(g, a)')
        BY <1>3, <1>4, <1>5
      <3> QED
        BY <2>1, <3>1
    <2>2. CASE k # g \/ b # a
      <3>1. InFlight(k, b)' = InFlight(k, b) /\ pending'[k][b] = pending[k][b]
        BY <1>2, <2>2
      <3> QED
        BY <1>5, <3>1
    <2> QED
      BY <2>1, <2>2
  <1> QED
    BY <1>3, <1>6 DEF LoadIsExact, InFlight

(* A request that settles takes one from the load of its record.           *)
LEMMA SettleInv ==
  ASSUME TypeOK, LoadIsExact, Holds, NEW r \in Requests, NEW evict \in BOOLEAN,
         phase[r] \in {"dispatched", "connected"}, Settle(r, evict),
         phase' = [phase EXCEPT ![r] = "over"], UNCHANGED <<answer, given, address>>
  PROVE  /\ LoadIsExact' /\ Holds'
         /\ pending' \in [Lookups -> [Addresses -> Nat]]
         /\ expires' \in [Lookups -> [Addresses -> Nat]]
         /\ settled' \in [Requests -> BOOLEAN]
  <1>1. PICK a \in Addresses : address[r] = {a}
    BY DEF Holds
  <1>2. PICK g \in Lookups : given[r] = g /\ ~settled[r]
    BY DEF Holds
  <1>3. /\ settled' = [settled EXCEPT ![r] = TRUE]
        /\ pending' = [pending EXCEPT ![g] =
                         [b \in Addresses |-> IF b \in {a} THEN @[b] - 1 ELSE @[b]]]
        /\ expires' = [expires EXCEPT ![g] =
                         [b \in Addresses |-> IF evict /\ b \in {a} THEN 0 ELSE @[b]]]
    BY <1>1, <1>2 DEF Settle
  <1>4. InFlight(g, a)' = InFlight(g, a) \ {r} /\ r \in InFlight(g, a)
    BY <1>1, <1>2 DEF InFlight, TypeOK, RequestTypes
  <1>5. ASSUME NEW k \in Lookups, NEW b \in Addresses, k # g \/ b # a
        PROVE  InFlight(k, b)' = InFlight(k, b) /\ pending'[k][b] = pending[k][b]
    <2>1. pending'[k][b] = pending[k][b]
      BY <1>2, <1>3, <1>5 DEF TypeOK
    <2>2. InFlight(k, b)' = InFlight(k, b)
      <3>1. r \notin InFlight(k, b)
        BY <1>1, <1>2, <1>5 DEF InFlight
      <3>2. phase'[r] = "over" /\ \A q \in Requests \ {r} : phase'[q] = phase[q]
        BY DEF TypeOK, RequestTypes
      <3> QED
        BY <3>1, <3>2 DEF InFlight
    <2> QED
      BY <2>1, <2>2
  <1>6. /\ Cardinality(InFlight(g, a)') = Cardinality(InFlight(g, a)) - 1
        /\ Cardinality(InFlight(g, a)') \in Nat
    <2>1. IsFiniteSet(InFlight(g, a)) /\ IsFiniteSet(InFlight(g, a) \ {r})
      BY <1>2, InFlightIsFinite, FS_RemoveElement
    <2> QED
      BY <1>4, <2>1, FS_RemoveElement, FS_CardinalityType
  <1>7. \A k \in Lookups, b \in Addresses : pending[k][b] = Cardinality(InFlight(k, b))
    BY DEF LoadIsExact, InFlight
  <1>8. pending'[g][a] = pending[g][a] - 1
    BY <1>2, <1>3 DEF TypeOK
  <1>9. pending' \in [Lookups -> [Addresses -> Nat]]
    <2>1. [b \in Addresses |-> IF b \in {a} THEN pending[g][b] - 1 ELSE pending[g][b]]
            \in [Addresses -> Nat]
      <3>1. pending[g][a] - 1 \in Nat
        BY <1>2, <1>4, <1>6, <1>7, <1>8
      <3>2. pending[g] \in [Addresses -> Nat]
        BY <1>2 DEF TypeOK
      <3> QED
        BY <3>1, <3>2
    <2> QED
      BY <1>2, <1>3, <2>1 DEF TypeOK
  <1>10. expires' \in [Lookups -> [Addresses -> Nat]]
    <2>1. [b \in Addresses |-> IF evict /\ b \in {a} THEN 0 ELSE expires[g][b]]
            \in [Addresses -> Nat]
      BY <1>2 DEF TypeOK, LookupTypes
    <2> QED
      BY <1>2, <1>3, <2>1 DEF TypeOK, LookupTypes
  <1>11. settled' \in [Requests -> BOOLEAN]
    BY <1>3 DEF TypeOK, RequestTypes
  <1>12. LoadIsExact'
    <2>1. ASSUME NEW k \in Lookups, NEW b \in Addresses
          PROVE  pending'[k][b] = Cardinality(InFlight(k, b)')
      <3>1. CASE k = g /\ b = a
        <4>1. pending'[g][a] = Cardinality(InFlight(g, a)')
          BY <1>2, <1>6, <1>7, <1>8
        <4> QED
          BY <3>1, <4>1
      <3>2. CASE k # g \/ b # a
        <4>1. InFlight(k, b)' = InFlight(k, b) /\ pending'[k][b] = pending[k][b]
          BY <1>5, <3>2
        <4> QED
          BY <1>7, <4>1
      <3> QED
        BY <3>1, <3>2
    <2> QED
      BY <2>1 DEF LoadIsExact, InFlight
  <1>13. Holds'
    BY <1>3 DEF Holds, TypeOK, RequestTypes
  <1> QED
    BY <1>9, <1>10, <1>11, <1>12, <1>13

-----------------------------------------------------------------------------
(* Requests.                                                               *)

(* What a step of request r before its dispatch establishes.               *)
Kept ==
  /\ LookupTypes /\ Latest /\ LatestAnswerCounts /\ RequestTypes /\ Holds /\ LoadIsExact
  /\ pending \in [Lookups -> [Addresses -> Nat]]

(* A request that ends before its dispatch.                                *)
LEMMA EndsInv ==
  ASSUME Inv, NEW r \in Requests, phase[r] \in {"idle", "waiting", "hashing"}, Ends(r),
         NEW g \in {0} \cup Lookups, given' = [given EXCEPT ![r] = g],
         asked' \in [Requests -> 0..MaxTime], UNCHANGED <<address, settled, aborted>>
  PROVE  RequestTypes' /\ (DOMAIN answer \subseteq DOMAIN answer' => Holds')
         /\ (pending' = pending => LoadIsExact')
  <1>1. phase' = [phase EXCEPT ![r] = "over"] /\ ended' = [ended EXCEPT ![r] = @ + 1]
    BY DEF Ends
  <1>2. RequestTypes'
    BY <1>1 DEF Inv, TypeOK, RequestTypes
  <1>3. DOMAIN answer \subseteq DOMAIN answer' => Holds'
    BY <1>1 DEF Inv, TypeOK, RequestTypes, Holds
  <1>4. pending' = pending => LoadIsExact'
    <2>1. RequestTypes /\ LoadIsExact
      BY DEF Inv, TypeOK
    <2> QED
      BY <1>1, <2>1, AsideInv
  <1> QED
    BY <1>2, <1>3, <1>4

(* A request that waits.                                                   *)
LEMMA WaitsInv ==
  ASSUME Inv, NEW r \in Requests, phase[r] \in {"idle", "waiting", "hashing"},
         NEW p \in {"waiting", "hashing"}, phase' = [phase EXCEPT ![r] = p],
         NEW g \in {0} \cup Lookups, given' = [given EXCEPT ![r] = g],
         DOMAIN answer \subseteq DOMAIN answer', p = "hashing" => g \in DOMAIN answer,
         asked' \in [Requests -> 0..MaxTime],
         UNCHANGED <<pending, address, settled, aborted, ended>>
  PROVE  RequestTypes' /\ Holds' /\ LoadIsExact'
  <1>1. RequestTypes'
    BY DEF Inv, TypeOK, RequestTypes
  <1>2. Holds'
    BY DEF Inv, TypeOK, RequestTypes, Holds
  <1>3. LoadIsExact'
    <2>1. RequestTypes /\ LoadIsExact
      BY DEF Inv, TypeOK
    <2>2. p \in {"waiting", "hashing", "over"}
      OBVIOUS
    <2> QED
      BY <2>1, <2>2, AsideInv
  <1> QED
    BY <1>1, <1>2, <1>3

(* A request that selects among the records of generation g.               *)
LEMMA SelectInv ==
  ASSUME Inv, NEW r \in Requests, phase[r] \in {"idle", "waiting", "hashing"},
         NEW g \in DOMAIN answer, NEW t, NEW c \in {0, cache}, NEW n \in {Never, negative},
         Select(r, g, t, c, n), given' = [given EXCEPT ![r] = g],
         asked' \in [Requests -> 0..MaxTime], UNCHANGED <<settled, aborted>>
  PROVE  Kept'
  <1>1. g \in Lookups /\ answer[g] \subseteq Addresses
    BY DEF Inv, TypeOK, LookupTypes
  <1>2. LookupsInv /\ now \in Nat
    BY DEF Inv, TypeOK, LookupsInv
  <1>3. CASE Usable(g, t) = {}
    <2>1. /\ Ends(r) /\ cache' = c /\ negative' = n
          /\ UNCHANGED <<inflight, started, answer, expires, pending, address>>
      BY <1>3 DEF Select
    <2>2. LookupsInv'
      BY <1>2, <2>1, SweptInv
    <2>3. RequestTypes' /\ Holds' /\ LoadIsExact'
      BY <1>1, <2>1, EndsInv
    <2>4. pending' \in [Lookups -> [Addresses -> Nat]]
      BY <2>1 DEF Inv, TypeOK
    <2> QED
      BY <2>2, <2>3, <2>4 DEF Kept, LookupsInv
  <1>4. CASE Usable(g, t) # {}
    <2>1. PICK a \in Usable(g, t) :
            /\ address' = [address EXCEPT ![r] = {a}]
            /\ pending' = [pending EXCEPT ![g][a] = @ + 1]
      BY <1>4 DEF Select
    <2>2. phase' = [phase EXCEPT ![r] = "dispatched"] /\ ended' = ended
      BY <1>4 DEF Select
    <2>3. a \in Addresses
      BY <1>1 DEF Usable
    <2>4. LookupsInv' /\ DOMAIN answer \subseteq DOMAIN answer'
      <3>1. CASE Ageing(g, t)
        <4>1. PICK l \in Lookups : Resolve(l, c, n)
          BY <1>4, <3>1 DEF Select
        <4> QED
          BY <1>2, <4>1, ResolveInv
      <3>2. CASE ~Ageing(g, t)
        BY <1>2, <1>4, <3>2, SweptInv DEF Select
      <3> QED
        BY <3>1, <3>2
    <2>5. LoadIsExact' /\ pending' \in [Lookups -> [Addresses -> Nat]]
      BY <1>1, <2>1, <2>2, <2>3, DispatchInv DEF Inv
    <2>6. RequestTypes'
      BY <1>1, <2>1, <2>2, <2>3 DEF Inv, TypeOK, RequestTypes
    <2>7. Holds'
      BY <1>1, <2>1, <2>2, <2>3, <2>4 DEF Inv, TypeOK, RequestTypes, Holds
    <2> QED
      BY <2>4, <2>5, <2>6, <2>7 DEF Kept, LookupsInv
  <1> QED
    BY <1>3, <1>4

(* The records are at hand: the request selects or waits for the hash.     *)
LEMMA ProceedInv ==
  ASSUME Inv, NEW r \in Requests, phase[r] \in {"idle", "waiting"},
         NEW g \in DOMAIN answer, NEW t, NEW c \in {0, cache}, NEW n \in {Never, negative},
         Proceed(r, g, t, c, n),
         asked' \in [Requests -> 0..MaxTime], UNCHANGED <<settled, aborted>>
  PROVE  Kept'
  <1>1. given' = [given EXCEPT ![r] = g]
    BY DEF Proceed
  <1>2. CASE Select(r, g, t, c, n)
    BY <1>1, <1>2, SelectInv
  <1>3. CASE /\ phase' = [phase EXCEPT ![r] = "hashing"]
             /\ cache' = c /\ negative' = n
             /\ UNCHANGED <<inflight, started, answer, expires, pending, address, ended>>
    <2>1. LookupsInv'
      BY <1>3, SweptInv DEF Inv, TypeOK, LookupsInv
    <2>2. g \in Lookups
      BY DEF Inv, TypeOK, LookupTypes
    <2>3. RequestTypes' /\ Holds' /\ LoadIsExact'
      BY <1>1, <1>3, <2>2, WaitsInv
    <2>4. pending' \in [Lookups -> [Addresses -> Nat]]
      BY <1>3 DEF Inv, TypeOK
    <2> QED
      BY <2>1, <2>3, <2>4 DEF Kept, LookupsInv
  <1> QED
    BY <1>2, <1>3 DEF Proceed

-----------------------------------------------------------------------------
(* The dispatcher's callbacks.                                             *)

(* A request that leaves the dispatcher.                                   *)
LEMMA OverInv ==
  ASSUME Inv, NEW r \in Requests, NEW evict \in BOOLEAN,
         phase[r] \in {"dispatched", "connected"}, Settle(r, evict),
         phase' = [phase EXCEPT ![r] = "over"], UNCHANGED <<environment, aborted>>,
         ended' \in [Requests -> Nat]
  PROVE  Inv'
  <1>1. /\ LoadIsExact' /\ Holds'
        /\ pending' \in [Lookups -> [Addresses -> Nat]]
        /\ expires' \in [Lookups -> [Addresses -> Nat]]
        /\ settled' \in [Requests -> BOOLEAN]
    BY SettleInv DEF Inv, environment, lookupVars
  <1>2. LookupTypes' /\ Latest' /\ LatestAnswerCounts'
    BY <1>1 DEF Inv, TypeOK, LookupTypes, Latest, LatestAnswerCounts, environment, lookupVars
  <1>3. RequestTypes'
    BY <1>1 DEF Inv, TypeOK, RequestTypes, environment
  <1> QED
    BY <1>1, <1>2, <1>3 DEF Inv, TypeOK, environment

(* A step beside the lookups, the records and the progress of requests.    *)
LEMMA BesideInv ==
  ASSUME Inv,
         UNCHANGED <<lookupVars, expires, pending, phase, asked, given, address, settled>>,
         now' \in 1..MaxTime, lastSweep' \in 0..MaxTime, hasher' \in BOOLEAN,
         aborted' \in [Requests -> BOOLEAN], ended' \in [Requests -> Nat]
  PROVE  Inv'
  <1> USE DEF lookupVars
  <1>1. LookupTypes' /\ Latest' /\ LatestAnswerCounts'
    BY DEF Inv, TypeOK, LookupTypes, Latest, LatestAnswerCounts
  <1>2. RequestTypes' /\ pending' \in [Lookups -> [Addresses -> Nat]]
    BY DEF Inv, TypeOK, RequestTypes
  <1>3. Holds'
    BY DEF Inv, Holds
  <1>4. LoadIsExact'
    BY DEF Inv, LoadIsExact
  <1> QED
    BY <1>1, <1>2, <1>3, <1>4 DEF Inv, TypeOK

LEMMA OnConnectInv ==
  ASSUME Inv, NEW r \in Requests, OnConnect(r) PROVE Inv'
  <1> USE DEF OnConnect, environment, lookupVars
  <1>1. LookupTypes' /\ Latest' /\ LatestAnswerCounts'
    BY DEF Inv, TypeOK, LookupTypes, Latest, LatestAnswerCounts
  <1>2. RequestTypes'
    BY DEF Inv, TypeOK, RequestTypes
  <1>3. Holds'
    BY DEF Inv, TypeOK, RequestTypes, Holds
  <1>4. LoadIsExact'
    <2>1. ASSUME NEW g \in Lookups, NEW a \in Addresses
          PROVE  InFlight(g, a)' = InFlight(g, a)
      BY DEF InFlight, Inv, TypeOK, RequestTypes
    <2>2. LoadIsExact /\ UNCHANGED pending
      BY DEF Inv
    <2> QED
      BY <2>1, <2>2, SameLoad
  <1> QED
    BY <1>1, <1>2, <1>3, <1>4 DEF Inv, TypeOK

LEMMA OnRejectionInv ==
  ASSUME Inv, NEW r \in Requests, OnRejection(r) PROVE Inv'
  <1>1. PICK broken \in BOOLEAN : Settle(r, broken)
    BY DEF OnRejection
  <1>2. ended' \in [Requests -> Nat]
    BY DEF OnRejection, Inv, TypeOK, RequestTypes
  <1>3. CASE phase[r] \in {"dispatched", "connected"}
    BY <1>1, <1>2, <1>3, OverInv DEF OnRejection
  <1>4. CASE phase[r] = "over"
    <2>1. settled[r]
      BY <1>4 DEF OnRejection, Inv, Holds
    <2>2. phase' = phase
      BY <1>4 DEF OnRejection, Inv, TypeOK, RequestTypes
    <2>3. UNCHANGED <<environment, settled, pending, expires, phase, aborted>>
      BY <1>1, <2>1, <2>2 DEF OnRejection, Settle
    <2> QED
      BY <1>2, <2>3, BesideInv DEF Inv, TypeOK, RequestTypes, environment
  <1> QED
    BY <1>3, <1>4 DEF OnRejection

-----------------------------------------------------------------------------
(* The invariant.                                                          *)

LEMMA InitInv == Init => Inv
  <1> SUFFICES ASSUME Init PROVE Inv
    OBVIOUS
  <1> USE RequestCount DEF Init, Lookups
  <1>1. TypeOK
    <2>1. LookupTypes
      BY DEF LookupTypes
    <2>2. RequestTypes
      BY DnsAssumption DEF DnsAssumption, RequestTypes
    <2>3. pending \in [Lookups -> [Addresses -> Nat]]
      <3>1. [a \in Addresses |-> 0] \in [Addresses -> Nat]
        OBVIOUS
      <3> QED
        BY <3>1
    <2>4. now = 1 /\ lastSweep = 0 /\ hasher \in BOOLEAN
      OBVIOUS
    <2>5. 1 \in 1..MaxTime /\ 0 \in 0..MaxTime
      BY DnsAssumption DEF DnsAssumption
    <2> QED
      BY <2>1, <2>2, <2>3, <2>4, <2>5 DEF TypeOK
  <1>2. Latest /\ LatestAnswerCounts /\ Holds
    BY DEF Latest, LatestAnswerCounts, Holds, Never
  <1>3. LoadIsExact
    <2>1. \A g \in Lookups, a \in Addresses : InFlight(g, a) = {}
      BY DEF InFlight
    <2> QED
      BY <2>1, FS_EmptySet DEF LoadIsExact, InFlight
  <1> QED
    BY <1>1, <1>2, <1>3 DEF Inv

LEMMA ArriveInv ==
  ASSUME Inv, NEW r \in Requests, Arrive(r) PROVE Inv'
  <1> DEFINE sweeps == now - lastSweep >= SweepInterval
             dead == /\ cache # 0
                     /\ \A a \in answer[cache] : expires[cache][a] < now /\ pending[cache][a] = 0
  <1>1. PICK c \in {0, cache} : c = IF sweeps /\ dead THEN 0 ELSE cache
    OBVIOUS
  <1>2. PICK n \in {Never, negative} : n = IF sweeps /\ negative < now THEN Never ELSE negative
    OBVIOUS
  <1>3. /\ phase[r] = "idle" /\ asked' = [asked EXCEPT ![r] = now]
        /\ lastSweep' = IF sweeps THEN now ELSE lastSweep
        /\ UNCHANGED <<now, settled, aborted, hasher>>
        /\ IF Usable(c, now) # {}
           THEN Proceed(r, c, now, c, n)
           ELSE IF n # Never /\ n >= now
           THEN /\ Ends(r)
                /\ cache' = c /\ negative' = n
                /\ UNCHANGED <<inflight, started, answer, expires, pending, given, address>>
           ELSE /\ phase' = [phase EXCEPT ![r] = "waiting"]
                /\ \E l \in Lookups :
                     given' = [given EXCEPT ![r] = l] /\ Resolve(l, c, n)
                /\ UNCHANGED <<pending, address, ended>>
    BY <1>1, <1>2 DEF Arrive
  <1> HIDE DEF sweeps, dead
  <1>4. /\ now' \in 1..MaxTime /\ lastSweep' \in 0..MaxTime /\ hasher' \in BOOLEAN
        /\ asked' \in [Requests -> 0..MaxTime]
    BY <1>3, DnsAssumption DEF DnsAssumption, Inv, TypeOK, RequestTypes
  <1>5. LookupsInv /\ now \in Nat
    BY DnsAssumption DEF DnsAssumption, Inv, TypeOK, LookupsInv
  <1>6. CASE Usable(c, now) # {}
    <2>1. c \in DOMAIN answer
      BY <1>6 DEF Usable, Inv, Latest
    <2>2. Kept'
      BY <1>3, <1>4, <1>6, <2>1, ProceedInv
    <2> QED
      BY <1>4, <2>2 DEF Kept, Inv, TypeOK
  <1>7. CASE Usable(c, now) = {} /\ n # Never /\ n >= now
    <2>1. /\ Ends(r) /\ cache' = c /\ negative' = n
          /\ UNCHANGED <<inflight, started, answer, expires, pending, given, address>>
      BY <1>3, <1>7
    <2>2. LookupsInv'
      BY <1>5, <2>1, SweptInv
    <2>3. given[r] \in {0} \cup Lookups /\ given' = [given EXCEPT ![r] = given[r]]
      BY <2>1 DEF Inv, TypeOK, RequestTypes
    <2>4. RequestTypes' /\ Holds' /\ LoadIsExact'
      BY <1>3, <1>4, <2>1, <2>3, EndsInv
    <2> QED
      BY <1>4, <2>1, <2>2, <2>4 DEF LookupsInv, Inv, TypeOK
  <1>8. CASE Usable(c, now) = {} /\ ~(n # Never /\ n >= now)
    <2>1. PICK l \in Lookups : given' = [given EXCEPT ![r] = l] /\ Resolve(l, c, n)
      BY <1>3, <1>8
    <2>2. /\ phase' = [phase EXCEPT ![r] = "waiting"]
          /\ UNCHANGED <<pending, address, ended>>
      BY <1>3, <1>8
    <2>3. LookupsInv' /\ DOMAIN answer \subseteq DOMAIN answer'
      BY <1>5, <2>1, ResolveInv
    <2>4. RequestTypes' /\ Holds' /\ LoadIsExact'
      BY <1>3, <1>4, <2>1, <2>2, <2>3, WaitsInv
    <2> QED
      BY <1>4, <2>2, <2>3, <2>4 DEF LookupsInv, Inv, TypeOK
  <1> QED
    BY <1>6, <1>7, <1>8

LEMMA ContinueInv ==
  ASSUME Inv, NEW r \in Requests, Continue(r) PROVE Inv'
  <1>1. /\ phase[r] = "waiting" /\ given[r] \in DOMAIN answer
        /\ UNCHANGED <<now, lastSweep, asked, settled, aborted, hasher>>
    BY DEF Continue, Answered
  <1>2. asked' \in [Requests -> 0..MaxTime]
    BY <1>1 DEF Inv, TypeOK, RequestTypes
  <1>3. CASE answer[given[r]] = {}
    <2>1. Ends(r) /\ UNCHANGED <<lookupVars, expires, pending, given, address>>
      BY <1>3 DEF Continue
    <2>2. given[r] \in {0} \cup Lookups /\ given' = [given EXCEPT ![r] = given[r]]
      BY <2>1 DEF Inv, TypeOK, RequestTypes
    <2>3. RequestTypes' /\ Holds' /\ LoadIsExact'
      BY <1>1, <1>2, <2>1, <2>2, EndsInv DEF lookupVars
    <2> QED
      BY <1>1, <2>1, <2>3 DEF Inv, TypeOK, LookupTypes, Latest, LatestAnswerCounts, lookupVars
  <1>4. CASE answer[given[r]] # {}
    <2>1. Proceed(r, given[r], Clock(r), cache, negative)
      BY <1>4 DEF Continue
    <2>2. Kept'
      BY <1>1, <1>2, <2>1, ProceedInv
    <2> QED
      BY <1>1, <2>2 DEF Kept, Inv, TypeOK
  <1> QED
    BY <1>3, <1>4

LEMMA HashedInv ==
  ASSUME Inv, NEW r \in Requests, Hashed(r) PROVE Inv'
  <1>1. /\ phase[r] = "hashing" /\ hasher' = TRUE
        /\ Select(r, given[r], Clock(r), cache, negative)
        /\ UNCHANGED <<now, lastSweep, asked, given, settled, aborted>>
    BY DEF Hashed
  <1>2. given[r] \in DOMAIN answer
    BY <1>1 DEF Inv, Holds
  <1>3. asked' \in [Requests -> 0..MaxTime] /\ given' = [given EXCEPT ![r] = given[r]]
    BY <1>1 DEF Inv, TypeOK, RequestTypes
  <1>4. Kept'
    BY <1>1, <1>2, <1>3, SelectInv
  <1> QED
    BY <1>1, <1>4 DEF Kept, Inv, TypeOK

LEMMA NextInv == Inv /\ [Next]_vars => Inv'
  <1> SUFFICES ASSUME Inv, [Next]_vars PROVE Inv'
    OBVIOUS
  <1>1. ASSUME NEW l \in Lookups, Callback(l) PROVE Inv'
    <2>1. now \in Nat /\ LookupsInv
      BY DnsAssumption DEF DnsAssumption, Inv, TypeOK, LookupsInv
    <2>2. LookupsInv' /\ DOMAIN answer \subseteq DOMAIN answer'
      BY <1>1, <2>1, CallbackInv
    <2>3. UNCHANGED <<now, lastSweep, pending, requestVars, hasher>>
      BY <1>1 DEF Callback
    <2>4. Holds'
      BY <2>2, <2>3 DEF Inv, Holds, requestVars
    <2>5. RequestTypes' /\ pending' \in [Lookups -> [Addresses -> Nat]]
      BY <2>3 DEF Inv, TypeOK, RequestTypes, requestVars
    <2>6. LoadIsExact'
      BY <2>3 DEF Inv, LoadIsExact, requestVars
    <2> QED
      BY <2>2, <2>3, <2>4, <2>5, <2>6 DEF LookupsInv, Inv, TypeOK
  <1>2. ASSUME NEW r \in Requests, Abort(r) PROVE Inv'
    BY <1>2, BesideInv DEF Abort, Inv, TypeOK, RequestTypes, environment
  <1>3. ASSUME NEW r \in Requests, OnComplete(r) PROVE Inv'
    <2>1. ended' \in [Requests -> Nat]
      BY <1>3 DEF OnComplete, Ends, Inv, TypeOK, RequestTypes
    <2> QED
      BY <1>3, <2>1, OverInv DEF OnComplete, Ends
  <1>4. ASSUME NEW r \in Requests, OnError(r) PROVE Inv'
    <2>1. ended' \in [Requests -> Nat]
      BY <1>4 DEF OnError, Ends, Inv, TypeOK, RequestTypes
    <2>2. PICK broken \in BOOLEAN : Settle(r, broken /\ ~aborted[r])
      BY <1>4 DEF OnError
    <2>3. (broken /\ ~aborted[r]) \in BOOLEAN
      OBVIOUS
    <2> QED
      BY <1>4, <2>1, <2>2, <2>3, OverInv DEF OnError, Ends
  <1>5. CASE Tick
    <2>1. now' \in 1..MaxTime
      BY <1>5, DnsAssumption DEF DnsAssumption, Tick, Inv, TypeOK
    <2> QED
      BY <1>5, <2>1, BesideInv DEF Tick, Inv, TypeOK, RequestTypes, requestVars
  <1>6. CASE UNCHANGED vars
    BY <1>6, BesideInv DEF vars, Inv, TypeOK, RequestTypes, requestVars
  <1> QED
    BY <1>1, <1>2, <1>3, <1>4, <1>5, <1>6, ArriveInv, ContinueInv, HashedInv, OnConnectInv,
       OnRejectionInv DEF Next

(* In every reachable state the parts of Inv hold, for any requests,       *)
(* addresses and TTLs (dns.js 117-596).                                    *)
THEOREM Invariance == Spec => []Inv
  <1> QED
    BY InitInv, NextInv, PTL DEF Spec

(* The fields keep their kinds; in particular no load becomes negative,    *)
(* however a request ends (499-511, 559-594).                              *)
THEOREM TypeCorrect == Spec => []TypeOK
  <1>1. Inv => TypeOK
    BY DEF Inv
  <1> QED
    BY <1>1, Invariance, PTL

(* The load of every record, in the cache or replaced, is the number of    *)
(* requests in flight to it (499-511, 559-594).                            *)
THEOREM LoadCorrect == Spec => []LoadIsExact
  <1>1. Inv => LoadIsExact
    BY DEF Inv
  <1> QED
    BY <1>1, Invariance, PTL

(* The caches repeat the latest answer, though lookups are shared, are     *)
(* answered inside or outside the call, and are called back twice (187-313)*)
THEOREM CachesAreCurrent == Spec => []LatestAnswerCounts
  <1>1. Inv => LatestAnswerCounts
    BY DEF Inv
  <1> QED
    BY <1>1, Invariance, PTL

(* One lookup at a time, and only it is registered (187-313).              *)
THEOREM LookupsAreShared == Spec => []OneLookup
  <1>1. Inv => OneLookup
    <2> SUFFICES ASSUME Inv PROVE OneLookup
      OBVIOUS
    <2>1. started \in Nat
      BY RequestCount DEF Inv, TypeOK, LookupTypes
    <2> QED
      BY <2>1 DEF Inv, Latest, OneLookup, Answered
  <1> QED
    BY <1>1, Invariance, PTL

-----------------------------------------------------------------------------
(* Timeliness: what a request waited with is good for when it arrived.     *)

(* The records of one lookup expire together, unless a connection error    *)
(* has expired one at once, and those of a request that waits do not       *)
(* expire before it arrived.                                               *)
Timely ==
  /\ \A l \in DOMAIN answer : \A a, b \in answer[l] :
       expires[l][a] # 0 /\ expires[l][b] # 0 => expires[l][a] = expires[l][b]
  /\ \A r \in Requests : asked[r] <= now
  /\ \A r \in Requests :
       phase[r] \in {"waiting", "hashing"} /\ given[r] \in DOMAIN answer =>
         \A a \in answer[given[r]] : expires[given[r]][a] # 0 => expires[given[r]][a] >= asked[r]

(* What a step does to the records: a new lookup's are all good for as     *)
(* long, and those there were are left alone or expired at once.           *)
RecordsStep ==
  \A l \in DOMAIN answer' :
    \/ /\ l \in DOMAIN answer /\ answer'[l] = answer[l]
       /\ \A a \in Addresses : expires'[l][a] \in {expires[l][a], 0}
    \/ l \notin DOMAIN answer /\ \A a \in answer'[l] : expires'[l][a] = now + Ttl

LEMMA SameRecords == UNCHANGED <<answer, expires>> => RecordsStep
  BY DEF RecordsStep

LEMMA AnswersRecords ==
  ASSUME LookupTypes, NEW l \in Lookups, l \notin DOMAIN answer,
         NEW A \in SUBSET Addresses, NEW malformed \in BOOLEAN, NEW c,
         Answers(l, A, malformed, c)
  PROVE  RecordsStep
  <1>1. /\ DOMAIN answer' = DOMAIN answer \cup {l} /\ answer'[l] = A
        /\ \A k \in DOMAIN answer : answer'[k] = answer[k]
    BY DEF Answers
  <1>2. \A k \in DOMAIN answer : expires'[k] = expires[k]
    <2>1. CASE A = {}
      BY <2>1 DEF Answers
    <2>2. CASE A # {}
      BY <2>2 DEF Answers, LookupTypes
    <2> QED
      BY <2>1, <2>2
  <1>3. \A a \in A : expires'[l][a] = now + Ttl
    <2> SUFFICES ASSUME NEW a \in A PROVE expires'[l][a] = now + Ttl
      OBVIOUS
    <2>1. expires' = [expires EXCEPT ![l] = [b \in Addresses |-> IF b \in A THEN now + Ttl ELSE 0]]
      BY DEF Answers
    <2>2. expires'[l] = [b \in Addresses |-> IF b \in A THEN now + Ttl ELSE 0]
      BY <2>1 DEF LookupTypes
    <2>3. a \in Addresses /\ a \in A
      OBVIOUS
    <2> QED
      BY <2>2, <2>3
  <1> QED
    BY <1>1, <1>2, <1>3 DEF RecordsStep

LEMMA ResolveRecords ==
  ASSUME LookupsInv, NEW l \in Lookups, NEW c, NEW n, Resolve(l, c, n)
  PROVE  RecordsStep /\ l \notin DOMAIN answer
  <1>1. l \notin DOMAIN answer
    <2>1. DOMAIN answer = (1..started) \ {inflight} /\ started \in Nat
      BY RequestCount DEF LookupsInv, LookupTypes, Latest
    <2>2. l = inflight \/ l = started + 1
      BY DEF Resolve
    <2> QED
      BY <2>1, <2>2
  <1>2. CASE UNCHANGED <<answer, expires>>
    BY <1>1, <1>2, SameRecords
  <1>3. CASE \E A \in SUBSET Addresses, malformed \in BOOLEAN : Answers(l, A, malformed, c)
    BY <1>1, <1>3, AnswersRecords DEF LookupsInv
  <1> QED
    BY <1>2, <1>3 DEF Resolve

LEMMA CallbackRecords ==
  ASSUME LookupsInv, NEW l \in Lookups, Callback(l) PROVE RecordsStep
  <1>1. l \notin DOMAIN answer
    BY DEF Callback, Heard, Answered
  <1>2. PICK A \in SUBSET Addresses, malformed \in BOOLEAN : Answers(l, A, malformed, cache)
    BY DEF Callback
  <1> QED
    BY <1>1, <1>2, AnswersRecords DEF LookupsInv

LEMMA SettleRecords ==
  ASSUME LookupTypes, NEW r \in Requests, NEW evict \in BOOLEAN, Settle(r, evict),
         UNCHANGED answer
  PROVE  RecordsStep
  <1>1. CASE settled[r]
    BY <1>1, SameRecords DEF Settle
  <1>2. CASE ~settled[r]
    <2>1. expires' = [expires EXCEPT ![given[r]] =
                        [a \in Addresses |-> IF evict /\ a \in address[r] THEN 0 ELSE @[a]]]
      BY <1>2 DEF Settle
    <2>2. \A l \in Lookups : \A a \in Addresses : expires'[l][a] \in {expires[l][a], 0}
      BY <2>1 DEF LookupTypes
    <2> QED
      BY <2>2 DEF RecordsStep, LookupTypes
  <1> QED
    BY <1>1, <1>2

-----------------------------------------------------------------------------
(* Who waits, and with what.                                               *)

Phases == {"idle", "waiting", "hashing", "dispatched", "connected", "over"}

(* A request that waits did so before, or it has just arrived and was      *)
(* given a lookup that is not over, or records one of which is usable.     *)
WaitersStep ==
  \A r \in Requests :
    /\ asked'[r] <= now'
    /\ phase'[r] \in {"waiting", "hashing"} =>
         \/ /\ phase[r] \in {"waiting", "hashing"}
            /\ given'[r] = given[r] /\ asked'[r] = asked[r]
         \/ /\ phase[r] = "idle" /\ asked'[r] = now
            /\ \/ given'[r] \notin DOMAIN answer
               \/ \E a \in answer[given'[r]] : expires[given'[r]][a] >= now

(* What a request that waited and was sent nowhere had left.               *)
UsedStep ==
  \A r \in Requests :
    phase[r] \in {"waiting", "hashing"} /\ phase'[r] = "over"
    => \A a \in answer[given[r]] : expires[given[r]][a] = 0

(* A step of request q leaves the others where they are.                   *)
LEMMA OthersWait ==
  ASSUME Inv, Timely, NEW q \in Requests, now' = now,
         \A r \in Requests \ {q} :
           phase'[r] = phase[r] /\ given'[r] = given[r] /\ asked'[r] = asked[r],
         asked'[q] <= now,
         phase'[q] \in {"waiting", "hashing"} =>
           \/ /\ phase[q] \in {"waiting", "hashing"}
              /\ given'[q] = given[q] /\ asked'[q] = asked[q]
           \/ /\ phase[q] = "idle" /\ asked'[q] = now
              /\ \/ given'[q] \notin DOMAIN answer
                 \/ \E a \in answer[given'[q]] : expires[given'[q]][a] >= now,
         phase[q] \in {"waiting", "hashing"} /\ phase'[q] = "over"
           => \A a \in answer[given[q]] : expires[given[q]][a] = 0
  PROVE  WaitersStep /\ UsedStep
  <1>1. \A r \in Requests : asked[r] <= now
    BY DEF Timely
  <1>2. ASSUME NEW r \in Requests, r # q
        PROVE  /\ phase'[r] = phase[r] /\ given'[r] = given[r] /\ asked'[r] = asked[r]
               /\ asked'[r] <= now'
    BY <1>1, <1>2
  <1>3. \A r \in Requests : r = q \/ r # q
    OBVIOUS
  <1>4. WaitersStep
    BY <1>2, <1>3, Zenon DEF WaitersStep
  <1>5. UsedStep
    <2> SUFFICES ASSUME NEW r \in Requests, phase[r] \in {"waiting", "hashing"}, phase'[r] = "over"
                 PROVE  \A a \in answer[given[r]] : expires[given[r]][a] = 0
      BY DEF UsedStep
    <2>1. CASE r = q
      BY <2>1
    <2>2. CASE r # q
      BY <1>2, <2>2
    <2> QED
      BY <2>1, <2>2
  <1> QED
    BY <1>4, <1>5

(* Nobody begins or stops to wait.                                         *)
LEMMA NobodyMoves ==
  ASSUME Inv, Timely, now' >= now, now' \in Nat, UNCHANGED <<given, asked>>,
         \A r \in Requests : phase'[r] = phase[r] \/ phase[r] \in {"dispatched", "connected", "over"},
         \A r \in Requests : phase'[r] # phase[r] => phase'[r] \in {"connected", "over"}
  PROVE  WaitersStep /\ UsedStep
  <1>1. \A r \in Requests : asked[r] <= now' /\ asked[r] = asked'[r]
    <2> TAKE r \in Requests
    <2>1. asked[r] <= now /\ asked[r] \in Nat /\ now \in Nat
      BY DEF Timely, Inv, TypeOK, RequestTypes
    <2> QED
      BY <2>1
  <1>2. \A r \in Requests : asked'[r] <= now'
    BY <1>1
  <1> HIDE DEF UsedStep
  <1>3. WaitersStep
    BY <1>1, <1>2 DEF WaitersStep
  <1>4. UsedStep
    BY DEF UsedStep
  <1> QED
    BY <1>3, <1>4

(* A request that waited takes a record unless all were taken from it.     *)
LEMMA SelectUses ==
  ASSUME Inv, Timely, NEW r \in Requests, phase[r] \in {"waiting", "hashing"},
         given[r] \in DOMAIN answer, NEW c, NEW n,
         Select(r, given[r], Clock(r), c, n)
  PROVE  /\ phase' = [phase EXCEPT ![r] = phase'[r]]
         /\ phase'[r] \in {"dispatched", "over"}
         /\ phase'[r] = "over" => \A a \in answer[given[r]] : expires[given[r]][a] = 0
         /\ RecordsStep
  <1> DEFINE g == given[r]
  <1>1. g \in Lookups /\ g # 0 /\ phase \in [Requests -> Phases] /\ LookupTypes
    BY RequestCount DEF Inv, TypeOK, RequestTypes, Phases, LookupTypes, Lookups
  <1>2. CASE Usable(g, Clock(r)) = {}
    <2>1. phase' = [phase EXCEPT ![r] = "over"] /\ UNCHANGED <<answer, expires>>
      BY <1>2 DEF Select, Ends
    <2>2. \A a \in answer[g] : ~(expires[g][a] >= asked[r])
      BY <1>1, <1>2 DEF Usable, Clock
    <2>3. \A a \in answer[g] : expires[g][a] = 0
      BY <2>2 DEF Timely
    <2>4. RecordsStep
      BY <2>1, SameRecords
    <2> QED
      BY <1>1, <2>1, <2>3, <2>4
  <1>3. CASE Usable(g, Clock(r)) # {}
    <2>1. phase' = [phase EXCEPT ![r] = "dispatched"]
      BY <1>3 DEF Select
    <2>2. RecordsStep
      <3>1. CASE Ageing(g, Clock(r))
        <4>1. PICK l \in Lookups : Resolve(l, c, n)
          BY <1>3, <3>1 DEF Select
        <4> QED
          BY <4>1, ResolveRecords DEF Inv, TypeOK, LookupsInv
      <3>2. CASE ~Ageing(g, Clock(r))
        BY <1>3, <3>2, SameRecords DEF Select
      <3> QED
        BY <3>1, <3>2
    <2> QED
      BY <1>1, <2>1, <2>2
  <1> QED
    BY <1>2, <1>3

Waited == RecordsStep /\ WaitersStep /\ UsedStep

LEMMA ContinueWaits ==
  ASSUME Inv, Timely, NEW r \in Requests, Continue(r) PROVE Waited
  <1>1. /\ phase[r] = "waiting" /\ given[r] \in DOMAIN answer /\ now' = now /\ asked' = asked
        /\ phase \in [Requests -> Phases] /\ given \in [Requests -> {0} \cup Lookups]
        /\ asked[r] <= now
    BY DEF Continue, Answered, Inv, TypeOK, RequestTypes, Phases, Timely
  <1>2. CASE answer[given[r]] = {}
    <2>1. /\ phase' = [phase EXCEPT ![r] = "over"] /\ given' = given
          /\ UNCHANGED <<answer, expires>>
      BY <1>2 DEF Continue, Ends, lookupVars
    <2>2. WaitersStep /\ UsedStep
      BY <1>1, <1>2, <2>1, OthersWait
    <2> QED
      BY <2>1, <2>2, SameRecords DEF Waited
  <1>3. CASE answer[given[r]] # {}
    <2>1. Proceed(r, given[r], Clock(r), cache, negative)
      BY <1>3 DEF Continue
    <2>2. given' = given
      BY <1>1, <2>1 DEF Proceed
    <2>3. CASE Select(r, given[r], Clock(r), cache, negative)
      <3>1. /\ phase' = [phase EXCEPT ![r] = phase'[r]]
            /\ phase'[r] \in {"dispatched", "over"}
            /\ phase'[r] = "over" => \A a \in answer[given[r]] : expires[given[r]][a] = 0
            /\ RecordsStep
        BY <1>1, <2>3, SelectUses
      <3>2. \A q \in Requests \ {r} : phase'[q] = phase[q]
        BY <1>1, <3>1
      <3>3. WaitersStep /\ UsedStep
        BY <1>1, <2>2, <3>1, <3>2, OthersWait
      <3> QED
        BY <3>1, <3>3 DEF Waited
    <2>4. CASE phase' = [phase EXCEPT ![r] = "hashing"] /\ UNCHANGED <<answer, expires>>
      <3>1. phase'[r] = "hashing" /\ \A q \in Requests \ {r} : phase'[q] = phase[q]
        BY <1>1, <2>4
      <3>2. WaitersStep /\ UsedStep
        BY <1>1, <2>2, <3>1, OthersWait
      <3> QED
        BY <2>4, <3>2, SameRecords DEF Waited
    <2> QED
      BY <2>1, <2>3, <2>4 DEF Proceed
  <1> QED
    BY <1>2, <1>3

LEMMA HashedWaits ==
  ASSUME Inv, Timely, NEW r \in Requests, Hashed(r) PROVE Waited
  <1>1. /\ phase[r] = "hashing" /\ now' = now /\ asked' = asked /\ given' = given
        /\ Select(r, given[r], Clock(r), cache, negative)
    BY DEF Hashed
  <1>2. /\ given[r] \in DOMAIN answer
        /\ phase \in [Requests -> Phases] /\ asked[r] <= now
    BY <1>1 DEF Inv, Holds, TypeOK, RequestTypes, Phases, Timely
  <1>3. /\ phase' = [phase EXCEPT ![r] = phase'[r]]
        /\ phase'[r] \in {"dispatched", "over"}
        /\ phase'[r] = "over" => \A a \in answer[given[r]] : expires[given[r]][a] = 0
        /\ RecordsStep
    BY <1>1, <1>2, SelectUses
  <1>4. \A q \in Requests \ {r} : phase'[q] = phase[q]
    BY <1>2, <1>3
  <1>5. WaitersStep /\ UsedStep
    BY <1>1, <1>2, <1>3, <1>4, OthersWait
  <1> QED
    BY <1>3, <1>5 DEF Waited

LEMMA ArriveWaits ==
  ASSUME Inv, Timely, NEW r \in Requests, Arrive(r) PROVE Waited
  <1> DEFINE sweeps == now - lastSweep >= SweepInterval
             dead == /\ cache # 0
                     /\ \A a \in answer[cache] : expires[cache][a] < now /\ pending[cache][a] = 0
  <1>1. PICK c \in {0, cache} : c = IF sweeps /\ dead THEN 0 ELSE cache
    OBVIOUS
  <1>2. PICK n \in {Never, negative} : n = IF sweeps /\ negative < now THEN Never ELSE negative
    OBVIOUS
  <1>3. /\ phase[r] = "idle" /\ asked' = [asked EXCEPT ![r] = now] /\ now' = now
        /\ IF Usable(c, now) # {}
           THEN Proceed(r, c, now, c, n)
           ELSE IF n # Never /\ n >= now
           THEN Ends(r) /\ UNCHANGED <<answer, expires, given>>
           ELSE /\ phase' = [phase EXCEPT ![r] = "waiting"]
                /\ \E l \in Lookups :
                     given' = [given EXCEPT ![r] = l] /\ Resolve(l, c, n)
    BY <1>1, <1>2 DEF Arrive
  <1> HIDE DEF sweeps, dead
  <1>4. /\ phase \in [Requests -> Phases] /\ given \in [Requests -> {0} \cup Lookups]
        /\ asked \in [Requests -> 0..MaxTime] /\ now \in Nat
        /\ LookupTypes /\ LookupsInv
    BY DnsAssumption DEF DnsAssumption, Inv, TypeOK, RequestTypes, Phases, LookupsInv
  <1>5. asked'[r] = now /\ asked'[r] <= now /\ \A q \in Requests \ {r} : asked'[q] = asked[q]
    BY <1>3, <1>4
  <1>6. CASE Usable(c, now) # {}
    <2>1. Proceed(r, c, now, c, n)
      BY <1>3, <1>6
    <2>2. /\ given' = [given EXCEPT ![r] = c] /\ c \in Lookups
          /\ \E a \in answer[c] : expires[c][a] >= now
      BY <1>6, <2>1 DEF Proceed, Usable, Inv, TypeOK, LookupTypes
    <2>3. given'[r] = c /\ \A q \in Requests \ {r} : given'[q] = given[q]
      BY <1>4, <2>2
    <2>4. CASE Select(r, c, now, c, n)
      <3>1. phase' = [phase EXCEPT ![r] = "dispatched"]
        BY <1>6, <2>4 DEF Select
      <3>2. phase'[r] = "dispatched" /\ \A q \in Requests \ {r} : phase'[q] = phase[q]
        BY <1>4, <3>1
      <3>3. WaitersStep /\ UsedStep
        BY <1>3, <1>5, <2>3, <3>2, OthersWait
      <3>4. RecordsStep
        <4>1. CASE Ageing(c, now)
          <5>1. PICK l \in Lookups : Resolve(l, c, n)
            BY <1>6, <2>4, <4>1 DEF Select
          <5> QED
            BY <1>4, <5>1, ResolveRecords
        <4>2. CASE ~Ageing(c, now)
          BY <1>6, <2>4, <4>2, SameRecords DEF Select
        <4> QED
          BY <4>1, <4>2
      <3> QED
        BY <3>3, <3>4 DEF Waited
    <2>5. CASE phase' = [phase EXCEPT ![r] = "hashing"] /\ UNCHANGED <<answer, expires>>
      <3>1. phase'[r] = "hashing" /\ \A q \in Requests \ {r} : phase'[q] = phase[q]
        BY <1>4, <2>5
      <3>2. WaitersStep /\ UsedStep
        BY <1>3, <1>5, <2>2, <2>3, <3>1, OthersWait
      <3> QED
        BY <2>5, <3>2, SameRecords DEF Waited
    <2> QED
      BY <2>1, <2>4, <2>5 DEF Proceed
  <1>7. CASE Usable(c, now) = {} /\ n # Never /\ n >= now
    <2>1. phase' = [phase EXCEPT ![r] = "over"] /\ UNCHANGED <<answer, expires, given>>
      BY <1>3, <1>7 DEF Ends
    <2>2. phase'[r] = "over" /\ \A q \in Requests \ {r} : phase'[q] = phase[q]
      BY <1>4, <2>1
    <2>3. WaitersStep /\ UsedStep
      BY <1>3, <1>5, <2>1, <2>2, OthersWait
    <2> QED
      BY <2>1, <2>3, SameRecords DEF Waited
  <1>8. CASE Usable(c, now) = {} /\ ~(n # Never /\ n >= now)
    <2>1. PICK l \in Lookups : given' = [given EXCEPT ![r] = l] /\ Resolve(l, c, n)
      BY <1>3, <1>8
    <2>2. phase' = [phase EXCEPT ![r] = "waiting"]
      BY <1>3, <1>8
    <2>3. /\ phase'[r] = "waiting" /\ \A q \in Requests \ {r} : phase'[q] = phase[q]
          /\ given'[r] = l /\ \A q \in Requests \ {r} : given'[q] = given[q]
      BY <1>4, <2>1, <2>2
    <2>4. RecordsStep /\ l \notin DOMAIN answer
      BY <1>4, <2>1, ResolveRecords
    <2>5. WaitersStep /\ UsedStep
      BY <1>3, <1>5, <2>3, <2>4, OthersWait
    <2> QED
      BY <2>4, <2>5 DEF Waited
  <1> QED
    BY <1>6, <1>7, <1>8

LEMMA EveryStepWaits ==
  ASSUME Inv, Timely, [Next]_vars PROVE Waited
  <1>1. /\ now \in Nat /\ phase \in [Requests -> Phases]
        /\ LookupTypes /\ LookupsInv
    BY DnsAssumption DEF DnsAssumption, Inv, TypeOK, RequestTypes, Phases, LookupsInv
  <1> DEFINE Still == now' = now /\ UNCHANGED <<given, asked>>
  <1>2. ASSUME NEW l \in Lookups, Callback(l) PROVE Waited
    <2>1. Still /\ phase' = phase
      BY <1>2 DEF Callback, requestVars
    <2> QED
      BY <1>1, <1>2, <2>1, NobodyMoves, CallbackRecords DEF Waited
  <1>3. ASSUME NEW r \in Requests, NEW p \in {"connected", "over"},
               phase[r] \in {"dispatched", "connected", "over"},
               phase' = [phase EXCEPT ![r] = p], Still
        PROVE  WaitersStep /\ UsedStep
    <2>1. \A q \in Requests : phase'[q] = phase[q] \/ phase[q] \in {"dispatched", "connected", "over"}
      BY <1>1, <1>3
    <2>2. \A q \in Requests : phase'[q] # phase[q] => phase'[q] \in {"connected", "over"}
      BY <1>1, <1>3
    <2> QED
      BY <1>1, <1>3, <2>1, <2>2, NobodyMoves
  <1>4. ASSUME NEW r \in Requests, OnConnect(r) PROVE Waited
    <2>1. Still /\ UNCHANGED <<answer, expires>> /\ phase[r] = "dispatched"
          /\ phase' = [phase EXCEPT ![r] = "connected"]
      BY <1>4 DEF OnConnect, environment, lookupVars
    <2> QED
      BY <1>3, <2>1, SameRecords DEF Waited
  <1>5. ASSUME NEW r \in Requests, Abort(r) PROVE Waited
    <2>1. Still /\ UNCHANGED <<answer, expires, phase>>
      BY <1>5 DEF Abort, environment, lookupVars
    <2> QED
      BY <1>1, <2>1, NobodyMoves, SameRecords DEF Waited
  <1>6. ASSUME NEW r \in Requests, OnComplete(r) PROVE Waited
    <2>1. Still /\ answer' = answer /\ Settle(r, FALSE) /\ phase[r] = "connected"
          /\ phase' = [phase EXCEPT ![r] = "over"]
      BY <1>6 DEF OnComplete, Ends, environment, lookupVars
    <2> QED
      BY <1>1, <1>3, <2>1, SettleRecords DEF Waited
  <1>7. ASSUME NEW r \in Requests, OnError(r) PROVE Waited
    <2>1. Still /\ answer' = answer /\ phase[r] \in {"dispatched", "connected"}
          /\ phase' = [phase EXCEPT ![r] = "over"]
      BY <1>7 DEF OnError, Ends, environment, lookupVars
    <2>2. PICK broken \in BOOLEAN : Settle(r, broken /\ ~aborted[r])
      BY <1>7 DEF OnError
    <2>3. (broken /\ ~aborted[r]) \in BOOLEAN
      OBVIOUS
    <2> QED
      BY <1>1, <1>3, <2>1, <2>2, <2>3, SettleRecords DEF Waited
  <1>8. ASSUME NEW r \in Requests, OnRejection(r) PROVE Waited
    <2>1. Still /\ answer' = answer /\ phase[r] \in {"dispatched", "connected", "over"}
          /\ phase' = [phase EXCEPT ![r] = "over"]
      BY <1>8 DEF OnRejection, environment, lookupVars
    <2>2. PICK broken \in BOOLEAN : Settle(r, broken)
      BY <1>8 DEF OnRejection
    <2> QED
      BY <1>1, <1>3, <2>1, <2>2, SettleRecords DEF Waited
  <1>9. CASE Tick
    <2>1. now' = now + 1 /\ UNCHANGED <<given, asked, phase, answer, expires>>
      BY <1>9 DEF Tick, lookupVars, requestVars
    <2> QED
      BY <1>1, <2>1, NobodyMoves, SameRecords DEF Waited
  <1>10. CASE UNCHANGED vars
    <2>1. Still /\ UNCHANGED <<answer, expires, phase>>
      BY <1>10 DEF vars, lookupVars, requestVars
    <2> QED
      BY <1>1, <2>1, NobodyMoves, SameRecords DEF Waited
  <1> QED
    BY <1>2, <1>4, <1>5, <1>6, <1>7, <1>8, <1>9, <1>10, ArriveWaits, ContinueWaits, HashedWaits
    DEF Next

LEMMA TimelyStep ==
  ASSUME Inv, Timely, [Next]_vars PROVE Timely'
  <1>1. RecordsStep /\ WaitersStep
    BY EveryStepWaits DEF Waited
  <1>2. /\ now \in Nat /\ now >= 1 /\ Ttl \in Nat /\ LookupTypes /\ LookupTypes'
        /\ asked \in [Requests -> 0..MaxTime]
    BY NextInv, DnsAssumption DEF DnsAssumption, Inv, TypeOK, RequestTypes
  <1>3. ASSUME NEW l \in DOMAIN answer', NEW a \in answer'[l], NEW b \in answer'[l],
               expires'[l][a] # 0, expires'[l][b] # 0
        PROVE  expires'[l][a] = expires'[l][b]
    <2>1. a \in Addresses /\ b \in Addresses
      BY <1>2 DEF LookupTypes
    <2>2. CASE l \notin DOMAIN answer /\ \A x \in answer'[l] : expires'[l][x] = now + Ttl
      BY <2>2
    <2>3. CASE /\ l \in DOMAIN answer /\ answer'[l] = answer[l]
               /\ \A x \in Addresses : expires'[l][x] \in {expires[l][x], 0}
      <3>1. expires'[l][a] = expires[l][a] /\ expires'[l][b] = expires[l][b]
        BY <1>3, <2>1, <2>3
      <3>2. expires[l][a] = expires[l][b]
        BY <1>3, <2>3, <3>1 DEF Timely
      <3> QED
        BY <3>1, <3>2
    <2> QED
      BY <1>1, <2>2, <2>3 DEF RecordsStep
  <1>4. ASSUME NEW r \in Requests, phase'[r] \in {"waiting", "hashing"}, given'[r] \in DOMAIN answer',
               NEW a \in answer'[given'[r]], expires'[given'[r]][a] # 0
        PROVE  expires'[given'[r]][a] >= asked'[r]
    <2> DEFINE g == given'[r]
    <2>1. /\ asked[r] \in Nat /\ asked[r] <= now /\ a \in Addresses
          /\ g \in Lookups /\ expires[g] \in [Addresses -> Nat]
      BY <1>2, <1>4 DEF LookupTypes, Timely
    <2>2. \/ phase[r] \in {"waiting", "hashing"} /\ g = given[r] /\ asked'[r] = asked[r]
          \/ /\ phase[r] = "idle" /\ asked'[r] = now
             /\ (g \notin DOMAIN answer \/ \E x \in answer[g] : expires[g][x] >= now)
      BY <1>1, <1>4 DEF WaitersStep
    <2>3. CASE g \notin DOMAIN answer /\ \A x \in answer'[g] : expires'[g][x] = now + Ttl
      <3>1. expires'[g][a] = now + Ttl
        BY <2>3
      <3>2. asked'[r] \in Nat /\ asked'[r] <= now
        BY <1>2, <2>1, <2>2
      <3>3. \A k \in Nat : k <= now => now + Ttl >= k
        BY <1>2
      <3>4. now + Ttl >= asked'[r]
        BY <3>2, <3>3, Zenon
      <3> QED
        BY <3>1, <3>4, Zenon
    <2>4. CASE /\ g \in DOMAIN answer /\ answer'[g] = answer[g]
               /\ \A x \in Addresses : expires'[g][x] \in {expires[g][x], 0}
      <3>1. expires'[g][a] = expires[g][a] /\ expires[g][a] # 0 /\ a \in answer[g]
        BY <1>4, <2>1, <2>4
      <3>2. CASE phase[r] \in {"waiting", "hashing"} /\ g = given[r] /\ asked'[r] = asked[r]
        <4>1. expires[given[r]][a] >= asked[r]
          BY <2>4, <3>1, <3>2 DEF Timely
        <4> QED
          BY <3>1, <3>2, <4>1
      <3>3. CASE asked'[r] = now /\ \E x \in answer[g] : expires[g][x] >= now
        <4>1. PICK x \in answer[g] : expires[g][x] >= now
          BY <3>3
        <4>2. x \in Addresses
          BY <1>2, <2>4 DEF LookupTypes
        <4>3. expires[g][x] # 0
          BY <1>2, <4>1
        <4>4. expires[g][x] = expires[g][a]
          BY <2>4, <3>1, <4>3 DEF Timely
        <4> QED
          BY <3>1, <3>3, <4>1, <4>4
      <3> QED
        BY <2>2, <2>4, <3>2, <3>3
    <2>5. g \in DOMAIN answer'
      BY <1>4
    <2>6. \/ /\ g \in DOMAIN answer /\ answer'[g] = answer[g]
             /\ \A x \in Addresses : expires'[g][x] \in {expires[g][x], 0}
          \/ g \notin DOMAIN answer /\ \A x \in answer'[g] : expires'[g][x] = now + Ttl
      BY <1>1, <2>5, Zenon DEF RecordsStep
    <2> QED
      BY <2>3, <2>4, <2>6, Zenon
  <1>5. \A r \in Requests : asked'[r] <= now'
    BY <1>1 DEF WaitersStep
  <1> QED
    BY <1>3, <1>4, <1>5 DEF Timely

LEMMA TimelyInit == Init => Timely
  <1> SUFFICES ASSUME Init PROVE Timely
    OBVIOUS
  <1>1. DOMAIN answer = {} /\ now = 1 /\ asked = [r \in Requests |-> 0]
    BY DEF Init
  <1> QED
    BY <1>1 DEF Timely

(* A request that waited for a lookup or for the hash function uses what   *)
(* it waited for, for any number of requests and addresses, any TTLs and   *)
(* any delay: what it was given was good when it arrived, and only a       *)
(* connection error takes it away (dns.js 393-451).                        *)
THEOREM AnswersAreUsed == Spec => AnswerIsUsed
  <1>1. Inv /\ Timely /\ [Next]_vars => (Inv /\ Timely)'
    BY NextInv, TimelyStep
  <1>2. Inv /\ Timely /\ [Next]_vars => UsedStep
    BY EveryStepWaits DEF Waited
  <1>3. UsedStep <=> (\A r \in Requests :
          phase[r] \in {"waiting", "hashing"} /\ phase'[r] = "over"
          => \A a \in answer[given[r]] : expires[given[r]][a] = 0)
    BY DEF UsedStep
  <1> QED
    BY <1>1, <1>2, <1>3, InitInv, TimelyInit, PTL DEF Spec, AnswerIsUsed
=============================================================================
