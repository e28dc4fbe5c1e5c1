------------------------------ MODULE InFlight ------------------------------
(***************************************************************************)
(* The registry of requests in flight of lib/interceptor/log.js: one array *)
(* for the whole process, in which each handler knows its own index, so    *)
(* that it can leave by swapping with the last one.  The index is also the *)
(* guard that makes the end of a request count once: the end document of   *)
(* its trace is written by the call that finds it listed.                  *)
(*                                                                         *)
(* A registry is a value, [list, index, ends]; ends counts end documents.  *)
(***************************************************************************)
EXTENDS Naturals, Sequences

CONSTANT Handlers

NotListed == 0

Registry ==
  [list : Seq(Handlers), index : [Handlers -> Nat], ends : [Handlers -> Nat]]

NobodyInFlight ==
  [list |-> <<>>, index |-> [h \in Handlers |-> NotListed],
   ends |-> [h \in Handlers |-> 0]]

(* The constructor of the handler.                                         *)
Join(g, h) ==
  [g EXCEPT !.list = Append(@, h), !.index[h] = Len(g.list) + 1]

(* onDone.                                                                 *)
Leave_KeepsIndex(g, h) ==
  LET rest == SubSeq(g.list, 1, Len(g.list) - 1)
      last == g.list[Len(g.list)]
  IN IF g.index[h] = NotListed THEN g
     ELSE [list  |-> IF last = h THEN rest ELSE [rest EXCEPT ![g.index[h]] = last],
           index |-> [g.index EXCEPT ![h] = NotListed],
           ends  |-> [g.ends EXCEPT ![h] = @ + 1]]

Leave(g, h) ==
  LET rest == SubSeq(g.list, 1, Len(g.list) - 1)
      last == g.list[Len(g.list)]
  IN IF g.index[h] = NotListed THEN g
     ELSE [list  |-> IF last = h THEN rest ELSE [rest EXCEPT ![g.index[h]] = last],
           index |-> [g.index EXCEPT ![last] = g.index[h], ![h] = NotListed],
           ends  |-> [g.ends EXCEPT ![h] = @ + 1]]

(* Every listed handler is where its index says, and the others are        *)
(* nowhere.                                                                *)
IsExact(g) ==
  /\ \A i \in 1..Len(g.list) : g.index[g.list[i]] = i
  /\ \A h \in Handlers : g.index[h] # NotListed =>
       g.index[h] \in 1..Len(g.list) /\ g.list[g.index[h]] = h

=============================================================================
