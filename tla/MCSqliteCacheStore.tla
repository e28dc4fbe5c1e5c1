------------------------- MODULE MCSqliteCacheStore -------------------------
(* Instances of SqliteCacheStore for TLC.                                  *)
EXTENDS SqliteCacheStore, TLC

CONSTANTS u1, u2, GET, HEAD, gzip, br

Full(u, m, v) == [url |-> u, method |-> m, vary |-> v, partial |-> FALSE, start |-> 0, end |-> 2]
Part(u, s, e) == [url |-> u, method |-> GET, vary |-> AnyVary, partial |-> TRUE, start |-> s, end |-> e]

(* A page with and without Vary and with two of its ranges, under one URL. *)
MCTemplates ==
  {Full(u1, GET, AnyVary), Full(u1, GET, gzip), Part(u1, 0, 1), Part(u1, 1, 2)}

(* The page, its HEAD, and another URL.                                    *)
MCTwoUrls == {Full(u1, GET, AnyVary), Full(u1, HEAD, AnyVary), Full(u2, GET, gzip)}

MCLookups ==
  [url : {u1, u2}, method : {GET, HEAD}, vary : {gzip, br},
   range : {<<>>, <<0, 1>>, <<1, 2>>, <<0, 2>>}]

=============================================================================
