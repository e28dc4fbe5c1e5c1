--------------------------- MODULE HandlerContract ---------------------------
(***************************************************************************)
(* What a handler of the dispatch chain may rely on, whatever interceptor  *)
(* is below it: the callback order DecoratorHandler of lib/utils.js keeps  *)
(* for one exchange.  It is connected, perhaps several times, before it    *)
(* sees headers; it sees one set of headers; its body is a run of units of *)
(* the one source those headers describe; it is told of one end; and after *)
(* it has aborted it is told of nothing but an error.                      *)
(*                                                                         *)
(* One step of an interceptor may call several callbacks, and a callback   *)
(* may abort, so a step here is any legal burst of callbacks.              *)
(***************************************************************************)
EXTENDS Naturals, Sequences

CONSTANT NoHead    \* before the headers

VARIABLES
  open,            \* onConnect was called
  head,            \* the headers seen: a record with the fields src and start
  received,        \* the units of the body seen
  cancelled,       \* the handler has aborted
  ended            \* "none", "complete" or "error"

vars == <<open, head, received, cancelled, ended>>

Init ==
  /\ open = FALSE /\ head = NoHead /\ received = <<>>
  /\ cancelled = FALSE /\ ended = "none"

(* Unit i of the body that belongs to the headers h.                       *)
Unit(h, i) == <<h.src, h.start + i - 1>>

Connect ==
  /\ ended = "none" /\ head = NoHead
  /\ open' = TRUE
  /\ cancelled' \in {cancelled, TRUE}
  /\ UNCHANGED <<head, received, ended>>

(* Headers if there were none, more of the body, and perhaps its end; a    *)
(* response that is at hand is delivered in the run that connects.         *)
Deliver ==
  /\ ~cancelled /\ ended = "none"
  /\ open'
  /\ head' # NoHead /\ head \in {NoHead, head'}
  /\ Len(received') >= Len(received)
  /\ \A i \in 1..Len(received') : received'[i] = Unit(head', i)
  /\ ended' \in {"none", "complete", "error"}
  /\ cancelled' \in BOOLEAN
  /\ cancelled' => ended' # "complete"

Fail ==
  /\ ended = "none" /\ ended' = "error"
  /\ open' \in {open, TRUE}
  /\ cancelled' \in {cancelled, TRUE}
  /\ UNCHANGED <<head, received>>

Cancel ==
  /\ open /\ ended = "none"
  /\ cancelled' = TRUE
  /\ UNCHANGED <<open, head, received, ended>>

Next == Connect \/ Deliver \/ Fail \/ Cancel

Spec == Init /\ [][Next]_vars

=============================================================================
