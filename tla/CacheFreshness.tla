--------------------------- MODULE CacheFreshness ---------------------------
(***************************************************************************)
(* The freshness arithmetic of lib/interceptor/cache/freshness.js: how     *)
(* long a response is fresh, how old it arrived, and the times an entry is *)
(* stored with.  A second of the code is a tick here; an absent number is  *)
(* None, and the s-maxage that parseCacheControl could not read is         *)
(* Malformed.                                                              *)
(***************************************************************************)
EXTENDS Integers

CONSTANTS
  MaxEntryTTL,            \* the configured maxEntryTTL
  RevalidationRetention,  \* REVALIDATION_RETENTION
  HeuristicLifetime,      \* a tenth of the time since Last-Modified, or None when
                          \* the heuristic is not enabled
  DefaultTTL              \* the configured defaultTTL, or None

None == -1
Malformed == -2

ASSUME FreshnessAssumption ==
  /\ MaxEntryTTL \in Nat
  /\ RevalidationRetention \in Nat
  /\ HeuristicLifetime \in Nat \cup {None}
  /\ DefaultTTL \in (Nat \ {0}) \cup {None}

Larger(a, b) == IF a >= b THEN a ELSE b
Smaller(a, b) == IF a <= b THEN a ELSE b

(* The directives of a response; proxyreval stands for proxy-revalidate and*)
(* for a must-revalidate that could not be read, which restrict but do not *)
(* permit.                                                                 *)
Directives ==
  [smaxage : Nat \cup {None, Malformed}, maxage : Nat \cup {None},
   swr : Nat \cup {None}, sie : Nat \cup {None},
   nocache : BOOLEAN, nostore : BOOLEAN, private : BOOLEAN, public : BOOLEAN,
   mustreval : BOOLEAN, proxyreval : BOOLEAN, understand : BOOLEAN]

(* Faulty: only must-revalidate vetoes a stale response.                   *)
ForbidsServingStale_MustOnly(d) == d.mustreval
ForbidsServingStale(d) == d.mustreval \/ d.proxyreval

(* Faulty: a restriction that cannot be read is taken for a permission.    *)
AllowsAuthenticatedCaching_AnyForm(d) ==
  d.public \/ d.smaxage >= 0 \/ d.mustreval \/ d.proxyreval
AllowsAuthenticatedCaching(d) == d.public \/ d.smaxage >= 0 \/ d.mustreval

ForbidsRequestDrivenStale(d) == ForbidsServingStale(d) \/ d.smaxage # None

(* Whether the origin keeps the response out of a shared cache.            *)
ForbidsStoring(d) == (d.nostore /\ ~d.understand) \/ d.private

NoLifetime == [lifetime |-> None, explicit |-> FALSE]
Explicit(n) == [lifetime |-> n, explicit |-> TRUE]
Invented(n) == [lifetime |-> n, explicit |-> FALSE]

(* The lifetime of a response of that status whose Expires, unless None,   *)
(* and Date are the times given; modified says that it has Last-Modified.  *)
DetermineLifetime(status, d, expires, date, modified) ==
  IF d.smaxage # None THEN Explicit(Larger(d.smaxage, 0))
  ELSE IF d.maxage # None THEN Explicit(d.maxage)
  ELSE IF expires # None THEN Explicit(expires - date)
  ELSE IF status # 200 THEN NoLifetime
  ELSE IF modified /\ HeuristicLifetime # None THEN Invented(HeuristicLifetime)
  ELSE IF DefaultTTL # None THEN Invented(DefaultTTL)
  ELSE NoLifetime

(* Without expiration information an unqualified no-cache is stored, to be *)
(* validated at every use.                                                 *)
StorableLifetime(status, d, expires, date, modified) ==
  LET l == DetermineLifetime(status, d, expires, date, modified) IN
  IF l = NoLifetime /\ d.nocache THEN Explicit(0) ELSE l

(* The corrected initial age: the Age header plus the time the response    *)
(* took, and no less than its Date says.                                   *)
DetermineAge_NoDelay(age, date, responseTime, requestTime) ==
  Larger(age, responseTime - date)
DetermineAge(age, date, responseTime, requestTime) ==
  Larger(age + (responseTime - requestTime), responseTime - date)

(* The stale window the origin grants after the lifetime.                  *)
StaleWindow(d) == Larger(Larger(d.swr, d.sie), 0)

WorthStoring(l, age, d, hasValidator) ==
  LET freshness == Smaller(l.lifetime, MaxEntryTTL) IN
  \/ freshness > age
  \/ l.explicit /\ (hasValidator \/ freshness + StaleWindow(d) > age)

Retention(l, age, d, hasValidator) ==
  LET freshness == Smaller(l.lifetime, MaxEntryTTL)
      offset    == Larger(freshness, 0)
      windowed  == Larger(2 * offset, offset + StaleWindow(d))
      kept      == IF hasValidator /\ l.explicit
                   THEN Larger(windowed, age + RevalidationRetention) ELSE windowed
  IN Smaller(kept, MaxEntryTTL)

NoTimes == [cachedAt |-> None, staleAt |-> None, deleteAt |-> None]

(* The times of an entry that arrives at time now, NoTimes when it is not  *)
(* to be stored.                                                           *)
ComputeEntryTimes(l, age, d, hasValidator, now) ==
  LET cachedAt == now - age
      times == [cachedAt |-> cachedAt,
                staleAt  |-> cachedAt + Smaller(l.lifetime, MaxEntryTTL),
                deleteAt |-> cachedAt + Retention(l, age, d, hasValidator)]
  IN IF WorthStoring(l, age, d, hasValidator) /\ times.deleteAt > now
     THEN times ELSE NoTimes

=============================================================================
