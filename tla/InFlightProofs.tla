---------------------------- MODULE InFlightProofs ----------------------------
(***************************************************************************)
(* The registry of InFlight stays exact, for every number of handlers and  *)
(* every order in which they join and leave: swapping with the last one    *)
(* moves that one's index along, and nobody else's.                        *)
(***************************************************************************)
EXTENDS InFlight, TLAPS

(* A registry without handlers is exact (log.js 494-499).                  *)
THEOREM EmptyIsExact == NobodyInFlight \in Registry /\ IsExact(NobodyInFlight)
  <1>1. NobodyInFlight \in Registry
    BY DEF NobodyInFlight, Registry, NotListed
  <1>2. IsExact(NobodyInFlight)
    BY DEF NobodyInFlight, IsExact, NotListed
  <1> QED
    BY <1>1, <1>2

(* A handler that joins is listed, and moves nobody (log.js 256-288).      *)
THEOREM JoinIsExact ==
  ASSUME NEW g \in Registry, IsExact(g), NEW h \in Handlers, g.index[h] = NotListed
  PROVE  /\ Join(g, h) \in Registry
         /\ IsExact(Join(g, h))
         /\ \A k \in Handlers : Join(g, h).index[k] # NotListed <=>
                                  k = h \/ g.index[k] # NotListed
  <1> DEFINE n == Len(g.list)
             j == Join(g, h)
  <1>1. /\ g.list \in Seq(Handlers) /\ n \in Nat
        /\ g.index \in [Handlers -> Nat] /\ g.ends \in [Handlers -> Nat]
        /\ g = [list |-> g.list, index |-> g.index, ends |-> g.ends]
    BY DEF Registry
  <1>2. j = [list |-> Append(g.list, h), index |-> [g.index EXCEPT ![h] = n + 1], ends |-> g.ends]
    <2>1. j = [g EXCEPT !.list = Append(g.list, h), !.index[h] = n + 1]
      BY DEF Join
    <2> QED
      BY <1>1, <2>1
  <1>3. j \in Registry
    BY <1>1, <1>2 DEF Registry
  <1>4. Len(j.list) = n + 1 /\ j.list[n + 1] = h /\ \A i \in 1..n : j.list[i] = g.list[i]
    BY <1>1, <1>2
  <1>5. \A i \in 1..n : g.list[i] \in Handlers /\ g.index[g.list[i]] = i /\ g.list[i] # h
    BY <1>1 DEF IsExact, NotListed
  <1>6. \A i \in 1..Len(j.list) : j.index[j.list[i]] = i
    <2> SUFFICES ASSUME NEW i \in 1..(n + 1) PROVE j.index[j.list[i]] = i
      BY <1>4
    <2>1. CASE i = n + 1
      BY <2>1, <1>1, <1>2, <1>4
    <2>2. CASE i \in 1..n
      BY <2>2, <1>1, <1>2, <1>4, <1>5
    <2> QED
      BY <2>1, <2>2, <1>1
  <1>7. ASSUME NEW k \in Handlers, j.index[k] # NotListed
        PROVE  j.index[k] \in 1..Len(j.list) /\ j.list[j.index[k]] = k
    <2>1. CASE k = h
      BY <2>1, <1>1, <1>2, <1>4
    <2>2. CASE k # h
      <3>1. j.index[k] = g.index[k]
        BY <2>2, <1>1, <1>2
      <3>2. g.index[k] \in 1..n /\ g.list[g.index[k]] = k
        BY <3>1, <1>7 DEF IsExact
      <3> QED
        BY <3>1, <3>2, <1>1, <1>4
    <2> QED
      BY <2>1, <2>2
  <1>8. \A k \in Handlers : j.index[k] # NotListed <=> k = h \/ g.index[k] # NotListed
    BY <1>1, <1>2 DEF NotListed
  <1>9. IsExact(j)
    BY <1>6, <1>7 DEF IsExact
  <1> QED
    BY <1>3, <1>8, <1>9

(* A handler that leaves is not listed any more and has written its one    *)
(* end document; a second end changes nothing; nobody else is dropped or   *)
(* loses its place (log.js 442-466).                                       *)
THEOREM LeaveIsExact ==
  ASSUME NEW g \in Registry, IsExact(g), NEW h \in Handlers
  PROVE  /\ Leave(g, h) \in Registry
         /\ IsExact(Leave(g, h))
         /\ \A k \in Handlers : Leave(g, h).index[k] # NotListed <=>
                                  k # h /\ g.index[k] # NotListed
         /\ Leave(Leave(g, h), h) = Leave(g, h)
         /\ \A k \in Handlers : Leave(g, h).ends[k] =
              g.ends[k] + (IF k = h /\ g.index[h] # NotListed THEN 1 ELSE 0)
  <1> DEFINE n == Len(g.list)
             last == g.list[n]
             at == g.index[h]
             rest == SubSeq(g.list, 1, n - 1)
             j == Leave(g, h)
  <1>1. /\ g.list \in Seq(Handlers) /\ n \in Nat
        /\ g.index \in [Handlers -> Nat] /\ g.ends \in [Handlers -> Nat]
    BY DEF Registry
  <1>2. CASE at = NotListed
    <2>1. j = g
      BY <1>2 DEF Leave
    <2> QED
      BY <2>1, <1>1, <1>2
  <1>3. CASE at # NotListed
    <2>1. at \in 1..n /\ g.list[at] = h /\ n \in 1..n /\ last \in Handlers /\ g.index[last] = n
      <3>1. at \in 1..n /\ g.list[at] = h
        BY <1>3 DEF IsExact
      <3>2. n \in 1..n /\ last \in Handlers
        BY <1>1, <3>1
      <3>3. g.index[last] = n
        BY <3>2 DEF IsExact
      <3> QED
        BY <3>1, <3>2, <3>3
    <2>2. j = [list  |-> IF last = h THEN rest ELSE [rest EXCEPT ![at] = last],
               index |-> [g.index EXCEPT ![last] = at, ![h] = NotListed],
               ends  |-> [g.ends EXCEPT ![h] = @ + 1]]
      BY <1>3 DEF Leave
    <2>3. /\ rest \in Seq(Handlers) /\ Len(rest) = n - 1
          /\ \A i \in 1..(n - 1) : rest[i] = g.list[i]
      BY <1>1, <2>1
    <2>4. last # h => at \in 1..(n - 1)
      BY <1>1, <2>1
    <2>5. j.list \in Seq(Handlers) /\ Len(j.list) = n - 1
      BY <2>1, <2>2, <2>3, <2>4
    <2>6. \A i \in 1..(n - 1) : j.list[i] = IF i = at THEN last ELSE g.list[i]
      <3>1. CASE last = h
        <4>1. at = n /\ j.list = rest
          BY <3>1, <2>1, <2>2
        <4> QED
          BY <4>1, <1>1, <2>3
      <3>2. CASE last # h
        <4>1. j.list = [rest EXCEPT ![at] = last] /\ at \in 1..(n - 1)
          BY <3>2, <2>2, <2>4
        <4>2. DOMAIN rest = 1..(n - 1)
          BY <2>3
        <4>3. \A i \in 1..(n - 1) : j.list[i] = IF i = at THEN last ELSE rest[i]
          BY <4>1, <4>2
        <4> QED
          BY <4>3, <2>3
      <3> QED
        BY <3>1, <3>2
    <2>7. \A k \in Handlers :
            j.index[k] = IF k = h THEN NotListed ELSE IF k = last THEN at ELSE g.index[k]
      BY <1>1, <2>1, <2>2
    <2>8. j \in Registry
      <3>1. j.index \in [Handlers -> Nat]
        BY <1>1, <2>1, <2>2 DEF NotListed
      <3>2. j.ends \in [Handlers -> Nat]
        BY <1>1, <2>2
      <3>3. j = [list |-> j.list, index |-> j.index, ends |-> j.ends]
        BY <2>2
      <3> QED
        BY <2>5, <3>1, <3>2, <3>3 DEF Registry
    <2>9. \A i \in 1..n : g.list[i] \in Handlers /\ g.index[g.list[i]] = i
      BY <1>1 DEF IsExact
    <2>10. \A i \in 1..Len(j.list) : j.index[j.list[i]] = i
      <3> SUFFICES ASSUME NEW i \in 1..(n - 1) PROVE j.index[j.list[i]] = i
        BY <2>5
      <3>1. CASE i = at
        <4>1. last # h
          BY <3>1, <1>1, <2>1
        <4> QED
          BY <4>1, <3>1, <2>1, <2>6, <2>7
      <3>2. CASE i # at
        <4>1. i \in 1..n /\ g.index[g.list[i]] = i /\ g.list[i] \in Handlers
          BY <1>1, <2>9
        <4>2. g.list[i] # h
          <5> SUFFICES ASSUME g.list[i] = h PROVE FALSE
            OBVIOUS
          <5> QED
            BY <4>1, <3>2
        <4>3. g.list[i] # last
          <5> SUFFICES ASSUME g.list[i] = last PROVE FALSE
            OBVIOUS
          <5>1. i = n
            BY <4>1, <2>1
          <5> QED
            BY <5>1, <1>1
        <4> QED
          BY <4>1, <4>2, <4>3, <3>2, <2>6, <2>7
      <3> QED
        BY <3>1, <3>2
    <2>11. ASSUME NEW k \in Handlers, j.index[k] # NotListed
           PROVE  j.index[k] \in 1..Len(j.list) /\ j.list[j.index[k]] = k
      <3>1. k # h
        BY <2>7, <2>11
      <3>2. CASE k = last
        BY <3>1, <3>2, <2>4, <2>5, <2>6, <2>7
      <3>3. CASE k # last
        <4>1. j.index[k] = g.index[k]
          BY <3>1, <3>3, <2>7
        <4>2. g.index[k] \in 1..n /\ g.list[g.index[k]] = k
          BY <4>1, <2>11 DEF IsExact
        <4>3. g.index[k] # n /\ g.index[k] # at
          BY <4>2, <3>1, <3>3, <2>1
        <4>4. g.index[k] \in 1..(n - 1)
          BY <4>2, <4>3, <1>1
        <4> QED
          BY <4>1, <4>2, <4>3, <4>4, <2>5, <2>6
      <3> QED
        BY <3>2, <3>3
    <2>12. IsExact(j)
      BY <2>10, <2>11 DEF IsExact
    <2>13. \A k \in Handlers : j.index[k] # NotListed <=> k # h /\ g.index[k] # NotListed
      <3> SUFFICES ASSUME NEW k \in Handlers
                   PROVE  j.index[k] # NotListed <=> k # h /\ g.index[k] # NotListed
        OBVIOUS
      <3>1. at # 0 /\ n # 0
        BY <1>1, <2>1
      <3> QED
        BY <3>1, <2>1, <2>7 DEF NotListed
    <2>14. Leave(j, h) = j
      BY <2>13 DEF Leave
    <2>15. \A k \in Handlers :
             j.ends[k] = g.ends[k] + (IF k = h /\ at # NotListed THEN 1 ELSE 0)
      BY <1>1, <1>3, <2>2
    <2> QED
      BY <2>8, <2>12, <2>13, <2>14, <2>15
  <1> QED
    BY <1>2, <1>3

=============================================================================
