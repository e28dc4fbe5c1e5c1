----------------------------- MODULE MCExchange -----------------------------
(***************************************************************************)
(* The requests of Exchange for TLC, in worlds that TLC explores one by    *)
(* one: in "one" a request is anything it may be; in "many" three simple   *)
(* requests share the registry, the gauges and the counter; in "some",     *)
(* "full" and "error" the monitor runs and samples that level.             *)
(***************************************************************************)
EXTENDS Exchange, TLC

CONSTANTS r1, r2, r3, o1, o2

Plain ==
  [raw |-> FALSE, upgrade |-> FALSE, lookup |-> FALSE, signal |-> FALSE,
   follow |-> "off", verify |-> FALSE, retry |-> FALSE,
   body |-> "none", to |-> {o1}]

Promised ==
  [raw : {FALSE}, upgrade : {FALSE}, lookup : BOOLEAN, signal : {TRUE},
   follow : {"off", "limit", "policy"}, verify : BOOLEAN, retry : {TRUE},
   body : {"none", "stream", "factory"}, to : {{o1}}]

Raw ==
  {[Plain EXCEPT !.raw = TRUE, !.upgrade = TRUE, !.follow = f] : f \in {"off", "limit"}}
  \cup {[Plain EXCEPT !.raw = TRUE, !.lookup = TRUE, !.body = "factory"]}

Elsewhere == [Plain EXCEPT !.signal = TRUE, !.follow = "limit", !.to = {o1, o2}]

Handed == [Plain EXCEPT !.raw = TRUE]

MCAsks ==
  LET retried == [Handed EXCEPT !.retry = TRUE]
      upgrading == [retried EXCEPT !.upgrade = TRUE]
  IN "one" :> (r1 :> (Promised \cup Raw \cup {Elsewhere}) @@ r2 :> {} @@ r3 :> {})
     @@ "many" :> (r1 :> {[Plain EXCEPT !.lookup = TRUE, !.retry = TRUE]} @@ r2 :> {Handed} @@ r3 :> {Handed})
     @@ "some" :> (r1 :> {upgrading} @@ r2 :> {} @@ r3 :> {})
     @@ "full" :> (r1 :> {retried} @@ r2 :> {Handed} @@ r3 :> {})
     @@ "error" :> (r1 :> {upgrading} @@ r2 :> {Handed} @@ r3 :> {})

MCSampling ==
  "one" :> {} @@ "many" :> {}
  @@ "some" :> {"some"} @@ "full" :> {"full"} @@ "error" :> {"error"}
=============================================================================
