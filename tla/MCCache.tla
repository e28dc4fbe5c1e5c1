------------------------------- MODULE MCCache -------------------------------
(***************************************************************************)
(* Requests and responses for TLC: plain ones and one variant for each     *)
(* branch of the read path, the write path and the validation.             *)
(***************************************************************************)
EXTENDS Cache, TLC

CONSTANTS p1, p2, s1, s2, q1, q2

Get ==
  [path |-> p1, sel |-> s1, unsafe |-> FALSE, auth |-> FALSE, nostore |-> FALSE,
   nocache |-> FALSE, onlyif |-> FALSE, maxage |-> None, minfresh |-> None,
   maxstale |-> None, sie |-> None, cond |-> "none"]

NoDirectives ==
  [smaxage |-> None, maxage |-> None, swr |-> None, sie |-> None,
   nocache |-> FALSE, nostore |-> FALSE, private |-> FALSE, public |-> FALSE,
   mustreval |-> FALSE, proxyreval |-> FALSE, understand |-> FALSE]

MaxAge(n) == [NoDirectives EXCEPT !.maxage = n]

Ok ==
  [status |-> 200, d |-> MaxAge(1), vary |-> "none", tagged |-> TRUE,
   modified |-> FALSE, age |-> 0, date |-> 0, expires |-> None, odd |-> FALSE,
   trailers |-> FALSE, size |-> "small", location |-> NoPath]

NotModified == [Ok EXCEPT !.status = 304, !.d = Keep, !.vary = "keep"]

(* Three requests over what decides validation, reuse and invalidation, or *)
(* two over everything else a request or a response may bring.             *)
MCAsks ==
  "depth" :>
    {[Get EXCEPT !.sie = 1],
     [Get EXCEPT !.sel = s2, !.auth = TRUE, !.maxage = 1, !.maxstale = 1],
     [Get EXCEPT !.unsafe = TRUE]}
  @@ "breadth" :>
    {Get, [Get EXCEPT !.sel = s2, !.maxage = 0], [Get EXCEPT !.minfresh = 0, !.nostore = TRUE],
     [Get EXCEPT !.cond = "other", !.maxstale = 1], [Get EXCEPT !.cond = "match"],
     [Get EXCEPT !.cond = "range"], [Get EXCEPT !.cond = "range", !.onlyif = TRUE],
     [Get EXCEPT !.nocache = TRUE],
     [Get EXCEPT !.cond = "same", !.auth = TRUE], [Get EXCEPT !.onlyif = TRUE],
     [Get EXCEPT !.path = p2, !.unsafe = TRUE]}

MCAnswers ==
  "depth" :>
    {Ok,
     [Ok EXCEPT !.d = [MaxAge(2) EXCEPT !.swr = 1, !.sie = 1, !.public = TRUE],
                !.age = 1, !.vary = "sel"],
     NotModified,
     [NotModified EXCEPT !.vary = "sel", !.d = [MaxAge(1) EXCEPT !.private = TRUE]],
     [Ok EXCEPT !.status = 503, !.tagged = FALSE]}
  @@ "breadth" :>
    {[Ok EXCEPT !.status = 206, !.date = 1],
     [Ok EXCEPT !.d = [NoDirectives EXCEPT !.nocache = TRUE], !.vary = "star"],
     [Ok EXCEPT !.d = [NoDirectives EXCEPT !.nocache = TRUE]],
     [Ok EXCEPT !.d = NoDirectives, !.modified = TRUE, !.tagged = FALSE],
     [Ok EXCEPT !.d = NoDirectives, !.expires = 1, !.size = "grows"],
     [Ok EXCEPT !.d = [NoDirectives EXCEPT !.smaxage = Malformed, !.swr = 2], !.status = 404],
     [Ok EXCEPT !.d = [MaxAge(1) EXCEPT !.mustreval = TRUE, !.swr = 2]],
     [Ok EXCEPT !.d = [MaxAge(1) EXCEPT !.proxyreval = TRUE, !.sie = 2]],
     [Ok EXCEPT !.trailers = TRUE],
     [Ok EXCEPT !.d = [MaxAge(1) EXCEPT !.nostore = TRUE, !.understand = TRUE], !.size = "declared"],
     [Ok EXCEPT !.d.swr = 2, !.location = p1], [Ok EXCEPT !.odd = TRUE],
     [Ok EXCEPT !.status = 204],
     [NotModified EXCEPT !.vary = "star"],
     [NotModified EXCEPT !.tagged = FALSE, !.date = 1, !.age = 2],
     [NotModified EXCEPT !.expires = 1, !.d = NoDirectives, !.modified = TRUE]}

MCStarts == "depth" :> 3 @@ "breadth" :> 2

NoTTL == None

Symmetry == Permutations(Requests)
=============================================================================
