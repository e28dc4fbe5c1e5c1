------------------------------ MODULE StoreMap ------------------------------
(***************************************************************************)
(* What a cache store promises while no write fails: a map from            *)
(* representations to the set() that brought their response.  A set        *)
(* replaces the response of one representation, or withdraws it, and every *)
(* response may be forgotten at any time; none ever comes back.            *)
(***************************************************************************)
EXTENDS Naturals

CONSTANT Keys     \* the representations

VARIABLES
  map,            \* the number of the set() of each representation, 0 for none
  count           \* the number of sets so far

vars == <<map, count>>

Init ==
  /\ map = [k \in Keys |-> 0]
  /\ count = 0

Put(k) ==
  /\ count' = count + 1
  /\ \E n \in {0, count'} : map' = [map EXCEPT ![k] = n]

Forget(K) ==
  /\ map' = [k \in Keys |-> IF k \in K THEN 0 ELSE map[k]]
  /\ UNCHANGED count

Next ==
  \/ \E k \in Keys : Put(k)
  \/ \E K \in SUBSET Keys : Forget(K)

Spec == Init /\ [][Next]_vars

=============================================================================
