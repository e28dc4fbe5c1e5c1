------------------------------ MODULE Exchange ------------------------------
(***************************************************************************)
(* One request through the composed dispatcher of lib/index.js, from the   *)
(* promise of lib/request.js down to the transport: responseError, lookup, *)
(* log, redirect, pressure, responseVerify and requestBodyFactory, with    *)
(* what requests share: the registry of log (InFlight), the records of     *)
(* pressure (Pressure) and the counter of lookup.  The layers with models  *)
(* of their own (cache, retry, dns, priority) are taken as handing calls   *)
(* through, except that the ones below pressure may connect a request      *)
(* again before its headers.                                               *)
(*                                                                         *)
(* Every action is one callback, microtask or event of the caller, run to  *)
(* its end through all the layers it crosses.  The operators that stand    *)
(* for a layer's callback take and return the system w as one request sees *)
(* it: w.s is the request, w.reg, w.mon and w.lookups are shared.  The     *)
(* transport reports the error of an abort in a step of its own, and       *)
(* nothing else once it is cut.                                            *)
(***************************************************************************)
EXTENDS Naturals, Sequences, FiniteSets

CONSTANTS
  Requests,
  Origins,
  MaxHops,      \* bound: the dispatches of one request
  Worlds,       \* a behaviour is one of these, which says
  Asks,         \* what each of its requests may be, see Ask,
  Sampling,     \* and the levels of pressure its monitor samples: with none,
                \* it is not sampled, closed or traced at all
  NoRecord

(* A request.  raw has a handler of its caller's and no promise, and may   *)
(* ask for an upgrade; follow is "off", "limit" (as many as MaxHops has    *)
(* room for) or "policy" (a function); a "stream" is the caller's and can  *)
(* be sent once, a "factory" makes a body for every dispatch; to is where  *)
(* it and its redirects may lead, retry whether a layer below may connect  *)
(* it again.                                                               *)
Ask ==
  [raw : BOOLEAN, upgrade : BOOLEAN, lookup : BOOLEAN, signal : BOOLEAN,
   follow : {"off", "limit", "policy"}, verify : BOOLEAN, retry : BOOLEAN,
   body : {"none", "stream", "factory"}, to : SUBSET Origins]

Hops == 1..MaxHops
Attempts == Requests \X Hops

VARIABLES
  world,
  req,        \* the requests, see NewRequest
  reg,        \* the registry of log
  mon,        \* the monitor of pressure
  lookups,    \* stats.pending of lookup
  tracing     \* a trace writer is installed

vars == <<world, req, reg, mon, lookups, tracing>>

Log == INSTANCE InFlight WITH Handlers <- Requests
Pressure == INSTANCE Pressure WITH
  PressureHandlers <- Attempts,
  Records <- 1..(Cardinality(Requests) + Cardinality(Origins))

ASSUME ExchangeAssumption ==
  /\ IsFiniteSet(Requests) /\ IsFiniteSet(Origins) /\ MaxHops \in Nat \ {0}
  /\ NoRecord \notin 1..(Cardinality(Requests) + Cardinality(Origins))
  /\ \A w \in Worlds : Asks[w] \in [Requests -> SUBSET Ask] /\ Sampling[w] \subseteq Pressure!Levels
  /\ \A w \in Worlds, r \in Requests : \A a \in Asks[w][r] :
       (a.upgrade => a.raw /\ a.body = "none") /\ (a.raw => ~a.signal /\ a.body # "stream")

NoStream ==
  [state |-> "none",      \* "new", "calling", "open" and "closed"
   destroyed |-> FALSE,   \* destroy() was called
   signal |-> "none",     \* that of the factory: "none", "live" or "aborted"
   inner |-> "none",      \* the body it made: "alive", "read" or "destroyed"
   watching |-> FALSE]    \* listens to the signal of the request

NewRequest ==
  [ask |-> [raw |-> FALSE], started |-> FALSE,
   promise |-> "none",    \* "waiting", "resolved", "rejecting" and "rejected"
   res |-> "none",        \* the body given to the caller
   signal |-> "none", listening |-> FALSE, aborted |-> FALSE,
   chain |-> FALSE,       \* the handler above has an abort to call
   body |-> "none",       \* the caller's stream
   lookup |-> "none",
   target |-> 0,          \* the hop the abort of redirect leads to
   cancelled |-> FALSE,   \* the layers above pressure were aborted
   told |-> FALSE,        \* and were told of an end
   hidden |-> FALSE,      \* responseError keeps the response back
   location |-> FALSE, count |-> 0,
   sends |-> "none",      \* the body of the next dispatch
   hop |-> 0,
   wire |-> "none",       \* the transport of this hop
   cut |-> FALSE,         \* it was aborted, or has failed and not said so
   hopTold |-> FALSE,     \* pressure was told of an end
   again |-> FALSE,       \* the transport has connected twice
   stream |-> [k \in Hops |-> NoStream]]

Init ==
  /\ world \in Worlds
  /\ req = [r \in Requests |-> NewRequest]
  /\ reg = Log!NobodyInFlight
  /\ mon = Pressure!NewMonitor
  /\ lookups = 0
  /\ tracing \in (IF Sampling[world] # {} THEN BOOLEAN ELSE {TRUE})

System(r) == [r |-> r, s |-> req[r], reg |-> reg, mon |-> mon, lookups |-> lookups]

(* The step to w; the quantifier makes TLC evaluate w once.                *)
Becomes(w) ==
  \E v \in {w} :
    /\ req' = [req EXCEPT ![v.r] = v.s]
    /\ reg' = v.reg
    /\ mon' = Pressure!Collect(v.mon)
    /\ lookups' = v.lookups
    /\ UNCHANGED <<world, tracing>>

Attempt(w) == <<w.r, w.s.hop>>

-----------------------------------------------------------------------------
(* lib/interceptor/request-body-factory.js                                 *)

(* A stream that closes: what it made is destroyed with it, and its        *)
(* factory is aborted unless all of it was read.                           *)
CloseStream(b) ==
  [b EXCEPT !.state = "closed", !.destroyed = TRUE, !.watching = FALSE,
            !.signal = IF @ = "live" /\ b.inner # "read" THEN "aborted" ELSE @,
            !.inner = IF @ = "alive" THEN "destroyed" ELSE @]

(* destroy(): Node waits for the construction with the rest, but a factory *)
(* that is running learns of it at once.                                   *)
DestroyStream(b) ==
  CASE b.state = "open" -> CloseStream(b)
    [] b.state = "new" -> [b EXCEPT !.destroyed = TRUE, !.watching = FALSE]
    [] b.state = "calling" ->
         [b EXCEPT !.destroyed = TRUE, !.watching = FALSE, !.signal = "aborted"]
    [] OTHER -> b

DestroyBody(w) == [w EXCEPT !.s.stream[w.s.hop] = DestroyStream(@)]

(* The interceptor: a stream that watches the request's signal.            *)
NewStream(s) ==
  [NoStream EXCEPT !.state = "new", !.destroyed = s.signal = "aborted",
                   !.watching = s.signal = "live"]

(* _construct, which Node calls later, whatever happened to the stream.    *)
Construct_Unaware(b) == [b EXCEPT !.state = "calling", !.signal = "live"]
Construct(b) ==
  [b EXCEPT !.state = "calling", !.signal = IF b.destroyed THEN "aborted" ELSE "live"]

(* The body or the error of the factory.                                   *)
Made(b, ok) ==
  LET made == IF ok THEN [b EXCEPT !.state = "open", !.inner = "alive"] ELSE b
  IN IF ok /\ ~b.destroyed THEN made ELSE CloseStream(made)

-----------------------------------------------------------------------------
(* lib/request.js, RequestHandler.                                         *)

(* removeAbortListener, which is the body's business once there is one.    *)
Unlisten(s) == IF s.res = "none" THEN [s EXCEPT !.listening = FALSE] ELSE s

(* onError.                                                                *)
RequestError(w) ==
  LET s == w.s
  IN [w EXCEPT !.s = [Unlisten(s) EXCEPT
        !.promise = IF @ = "waiting" THEN "rejecting" ELSE @,
        !.res = IF @ \in {"open", "ended"} THEN "closing" ELSE @,
        !.body = IF @ = "none" THEN @ ELSE "destroyed"]]

(* onHeaders and onComplete.                                               *)
RequestHeaders(w) ==
  IF w.s.ask.raw THEN w
  ELSE [w EXCEPT !.s.promise = IF @ = "waiting" THEN "resolved" ELSE @,
                 !.s.res = "open"]

RequestComplete(w) == [w EXCEPT !.s.res = IF @ = "open" THEN "ended" ELSE @]

(* The abort that the transport gave with onConnect, as pressure wraps it. *)
HopAbort(w) ==
  IF w.s.hopTold THEN w
  ELSE [w EXCEPT !.s.cut = TRUE, !.mon = Pressure!ClientAborts(@, Attempt(w))]

(* The abort the handler above holds.  Each layer hands it on once, and    *)
(* redirect to the hop that has connected, which may be over.              *)
CallAbort(w) ==
  IF ~w.s.chain \/ w.s.cancelled \/ w.s.told THEN w
  ELSE LET marked == [w EXCEPT !.s.cancelled = TRUE]
       IN IF w.s.ask.follow # "off" /\ (w.s.target = 0 \/ w.s.target # w.s.hop)
          THEN marked ELSE HopAbort(marked)

(* onConnect.                                                              *)
RequestConnect(w) ==
  LET installed == [w EXCEPT !.s.chain = TRUE]
  IN IF w.s.aborted THEN CallAbort(installed) ELSE installed

-----------------------------------------------------------------------------
(* lib/interceptor/log.js and response-error.js: the ends and the headers  *)
(* as they leave redirect, or pressure when nothing is followed.           *)

LogDone(w) == [w EXCEPT !.reg = Log!Leave(@, w.r)]

UpHeaders(w, status) ==
  IF w.s.cancelled \/ w.s.told THEN w
  ELSE IF status = "overload" THEN [w EXCEPT !.s.hidden = TRUE]
  ELSE RequestHeaders(w)

UpComplete(w) ==
  IF w.s.cancelled \/ w.s.told THEN w
  ELSE LET done == LogDone([w EXCEPT !.s.told = TRUE])
       IN IF w.s.hidden THEN RequestError(done) ELSE RequestComplete(done)

UpError(w) ==
  IF w.s.told THEN w
  ELSE RequestError(LogDone([w EXCEPT !.s.told = TRUE]))

-----------------------------------------------------------------------------
(* lib/interceptor/pressure.js, and responseVerify right below it.         *)

PressureError(w, ofAbort) ==
  LET settled == [w EXCEPT !.mon = Pressure!Failed(@, Attempt(w), ofAbort)]
  IN IF w.s.hopTold THEN settled ELSE UpError([settled EXCEPT !.s.hopTold = TRUE])

-----------------------------------------------------------------------------
(* Dispatching a hop to the origin o, below redirect.                      *)

DispatchHop(w, o) ==
  LET s == w.s
      k == s.hop + 1
  IN [w EXCEPT
        !.mon = Pressure!Enter(@, <<w.r, k>>, o),
        !.s = [s EXCEPT !.hop = k, !.wire = "queued", !.cut = FALSE, !.hopTold = FALSE,
                        !.again = FALSE,
                        !.stream[k] = IF s.sends = "factory" THEN NewStream(s) ELSE @]]

(* Dispatching the request, from log downwards.  redirect connects the     *)
(* handlers above at once, with an abort of its own; pressure throws for   *)
(* an origin that is no URL, which log notes and hands on.                 *)
Dispatch(w, o) ==
  LET logged == [w EXCEPT !.reg = Log!Join(@, w.r)]
      bridged == IF w.s.ask.follow = "off" THEN logged ELSE RequestConnect(logged)
  IN DispatchHop(bridged, o)

DispatchThrows(w) ==
  LET logged == [w EXCEPT !.reg = Log!Join(@, w.r)]
      bridged == IF w.s.ask.follow = "off" THEN logged ELSE RequestConnect(logged)
  IN RequestError(LogDone([bridged EXCEPT !.s.told = TRUE]))

-----------------------------------------------------------------------------
(* lib/interceptor/redirect.js, Handler.                                   *)

(* onConnect: an abort that came before this hop connected is repeated.    *)
RedirectConnect_Anew(w) == [w EXCEPT !.s.target = w.s.hop]
RedirectConnect(w) ==
  IF w.s.cancelled THEN HopAbort(w) ELSE [w EXCEPT !.s.target = w.s.hop]

PassThrough(w, status) ==
  UpHeaders([w EXCEPT !.s.location = FALSE], status)

(* A layer that throws in a callback makes the transport fail.             *)
Throws(w) == [w EXCEPT !.s.cut = TRUE]

(* onHeaders of a redirect, with what the follow function says: a veto     *)
(* delivers the response, one too many and a body that cannot be sent      *)
(* again fail the request.                                                 *)
RedirectHeaders(w, seeOther, located, accepts) ==
  LET counted == [w EXCEPT !.s.location = TRUE, !.s.count = @ + 1]
  IN CASE ~located -> Throws(w)
       [] located /\ w.s.ask.follow = "policy" /\ ~accepts -> PassThrough(counted, "redirect")
       [] located /\ accepts /\ w.s.ask.follow = "limit" /\ counted.s.count >= MaxHops ->
            Throws(counted)
       [] located /\ accepts /\ ~seeOther /\ w.s.sends = "stream" /\ w.s.body = "disturbed" ->
            Throws(counted)
       [] OTHER -> IF seeOther THEN [counted EXCEPT !.s.sends = "none"] ELSE counted

(* onComplete: the response of a redirect is swallowed and the next hop    *)
(* dispatched.                                                             *)
RedirectComplete(w, o) ==
  IF w.s.location THEN DispatchHop([w EXCEPT !.s.location = FALSE], o) ELSE UpComplete(w)

-----------------------------------------------------------------------------
(* The caller.                                                             *)

(* request() or dispatch().  With a lookup, log and the rest come later.   *)
(* A request() whose signal has been aborted dispatches nothing.           *)
Start(r, a, early, o, good) ==
  LET s == [NewRequest EXCEPT
              !.ask = a, !.started = TRUE,
              !.promise = IF a.raw THEN "none" ELSE "waiting",
              !.signal = IF ~a.signal THEN "none" ELSE IF early THEN "aborted" ELSE "live",
              !.listening = a.signal /\ ~early, !.aborted = early,
              !.body = IF a.body = "stream" THEN "live" ELSE "none",
              !.sends = a.body]
      w == [System(r) EXCEPT !.s = s]
  IN /\ ~req[r].started
     /\ early => a.signal
     /\ Becomes(IF early THEN RequestError(w)
                ELSE IF a.lookup THEN [w EXCEPT !.s.lookup = "under way", !.lookups = @ + 1]
                ELSE IF good THEN Dispatch(w, o)
                ELSE DispatchThrows(w))

(* onAbort of RequestHandler: the body is destroyed, which calls the abort *)
(* of the chain; without one, the promise is not left to the chain.        *)
OnAbort(w) ==
  LET marked == [w EXCEPT !.s.aborted = TRUE]
  IN IF w.s.res \in {"open", "ended"}
     THEN CallAbort([marked EXCEPT !.s.res = "closed", !.s.listening = FALSE])
     ELSE LET called == CallAbort(marked)
          IN IF called.s.promise = "waiting" THEN RequestError(called) ELSE called

(* The listeners of the lookup and of the bodies.                          *)
RestHears(w) ==
  [w EXCEPT
     !.s.lookup = IF @ = "under way" THEN "rejected" ELSE @,
     !.s.stream = [k \in Hops |-> IF @[k].watching THEN DestroyStream(@[k]) ELSE @[k]],
     !.s.cut = @ \/ (\E k \in {w.s.hop} \cap Hops :
                       w.s.stream[k].watching /\ w.s.stream[k].state = "open")]

(* The signal fires: the listeners of the promise, of the lookup and of    *)
(* the body streams, in the order in which they were added.                *)
Abort(r) ==
  LET fired == [System(r) EXCEPT !.s.signal = "aborted"]
  IN /\ req[r].signal = "live"
     /\ Becomes(RestHears(IF req[r].listening THEN OnAbort(fired) ELSE fired))

(* The caller reads its body to the end, or destroys it, or a caller with  *)
(* a handler of its own calls abort.                                       *)
Read(r) ==
  /\ req[r].res = "ended"
  /\ Becomes([System(r) EXCEPT !.s.res = "closed", !.s.listening = FALSE])

Drop(r) ==
  \/ /\ req[r].res \in {"open", "ended"}
     /\ Becomes(CallAbort([System(r) EXCEPT !.s.res = "closed", !.s.listening = FALSE]))
  \/ /\ req[r].started /\ req[r].ask.raw /\ req[r].chain /\ ~req[r].cancelled
     /\ Becomes(CallAbort(System(r)))

(* The microtasks of RequestHandler.onError.                               *)
Reject(r) ==
  \/ /\ req[r].promise = "rejecting"
     /\ Becomes([System(r) EXCEPT !.s.promise = "rejected"])
  \/ /\ req[r].res = "closing"
     /\ Becomes([System(r) EXCEPT !.s.res = "closed", !.s.listening = FALSE])

-----------------------------------------------------------------------------
(* lib/interceptor/lookup.js                                               *)

(* The first of the callback, the promise, a throw and an abort decides.   *)
LookupSettles(r) ==
  /\ req[r].lookup = "under way"
  /\ \E outcome \in {"resolved", "rejected"} :
       Becomes([System(r) EXCEPT !.s.lookup = outcome])

(* What follows the await: finishLookup, then the dispatch, or the error.  *)
(* A resolution that is no origin at all is rejected before it.            *)
LookupFinishes(w) == [w EXCEPT !.s.lookup = "done", !.lookups = @ - 1]

AfterLookup(r, o, good) ==
  /\ req[r].lookup \in {"resolved", "rejected"}
  /\ LET w == LookupFinishes(System(r))
     IN Becomes(IF req[r].lookup = "rejected" THEN RequestError([w EXCEPT !.s.told = TRUE])
                ELSE IF good THEN Dispatch(w, o)
                ELSE DispatchThrows(w))

-----------------------------------------------------------------------------
(* The transport.                                                          *)

Connects(w) ==
  LET s == w.s
      met == [w EXCEPT
                !.mon = Pressure!Connected(@, Attempt(w)),
                !.s = [s EXCEPT !.wire = "connected", !.hopTold = FALSE,
                                !.body = IF @ = "live" /\ s.sends = "stream"
                                         THEN "disturbed" ELSE @]]
  IN IF s.ask.follow # "off" THEN RedirectConnect(met)
     ELSE RequestConnect([met EXCEPT !.s.cancelled = FALSE])

Connect(r) ==
  /\ req[r].wire = "queued" /\ ~req[r].cut
  /\ Becomes(Connects(System(r)))

(* retry tries again before there were headers.  A body that was handed    *)
(* over is not sent twice; a factory would make another, as for a new hop. *)
Reconnect(r) ==
  /\ req[r].wire = "connected" /\ ~req[r].cut
  /\ req[r].ask.retry /\ ~req[r].again /\ req[r].sends = "none"
  /\ Becomes(Connects([System(r) EXCEPT !.s.again = TRUE]))

Answer(r) ==
  /\ req[r].wire = "connected" /\ ~req[r].cut
  /\ \E status \in {"final", "overload", "redirect"} :
       LET w == [System(r) EXCEPT !.s.wire = "headers",
                                  !.mon = Pressure!Headers(@, <<r, req[r].hop>>, status)]
       IN IF req[r].ask.follow = "off" \/ status # "redirect"
          THEN Becomes(UpHeaders(w, status))
          ELSE \E seeOther, located, accepts \in BOOLEAN :
                 /\ accepts /\ req[r].ask.follow = "policy" => req[r].hop < MaxHops
                 /\ ~accepts => req[r].ask.follow = "policy"
                 /\ Becomes(RedirectHeaders(w, seeOther, located, accepts))

(* responseVerify, when the body is longer than it should be: the error    *)
(* goes up first, then the transport is aborted.                           *)
Overrun(r) ==
  /\ req[r].wire = "headers" /\ ~req[r].cut /\ req[r].ask.verify
  /\ Becomes([PressureError(System(r), FALSE) EXCEPT !.s.cut = TRUE])

(* An attempt is over, and with it the body that was made for it.          *)
Over(r) == DestroyBody([System(r) EXCEPT !.s.wire = "closed"])

(* The response ends.  A request body that was not read is dropped; a      *)
(* verification that fails turns the end into an error.                    *)
Complete(r) ==
  LET w == Over(r)
  IN /\ req[r].wire = "headers" /\ ~req[r].cut
     /\ \/ \E o \in req[r].ask.to :
             Becomes(RedirectComplete(
                  [w EXCEPT !.s.hopTold = TRUE,
                            !.mon = Pressure!Completed(@, Attempt(w))], o))
        \/ /\ req[r].ask.verify
           /\ Becomes(PressureError(w, FALSE))

(* The transport fails, of itself or because it was aborted, in the queue  *)
(* or later; or its dispatch throws or rejects.  Pressure does not count   *)
(* an error with the name of an abort, as the reason of the signal may     *)
(* have, or with the status of a client error, as retry may give it.       *)
Fail(r) ==
  /\ req[r].wire \in {"queued", "connected", "headers"}
  /\ \E ofAbort \in {FALSE, req[r].signal = "aborted" \/ req[r].ask.retry} :
       Becomes(PressureError(Over(r), ofAbort))

(* A dispatch may still reject when it has reported its error.             *)
LateRejection(r) ==
  /\ req[r].wire = "closed" /\ req[r].hopTold
  /\ Becomes(PressureError(DestroyBody(System(r)), FALSE))

(* The connection becomes a socket of the caller's: the end of the attempt *)
(* for pressure, but for log only when that socket closes.                 *)
Upgrade(r) ==
  LET w == [System(r) EXCEPT !.s.wire = "upgraded", !.s.hopTold = TRUE, !.s.told = TRUE]
  IN /\ req[r].wire = "connected" /\ ~req[r].cut /\ req[r].ask.upgrade
     /\ Becomes([w EXCEPT !.mon = Pressure!Settle(@, Attempt(w), FALSE)])

SocketCloses(r) ==
  /\ req[r].wire = "upgraded"
  /\ Becomes(LogDone([System(r) EXCEPT !.s.wire = "closed"]))

-----------------------------------------------------------------------------
(* The bodies of factories, as Node and the transport drive them.          *)

ConstructStream(r, k) ==
  /\ req[r].stream[k].state = "new"
  /\ Becomes([System(r) EXCEPT !.s.stream[k] = Construct(@)])

(* A stream that breaks while the transport has it makes it fail.          *)
WithStream(r, k, b) ==
  [System(r) EXCEPT !.s.stream[k] = b,
     !.s.cut = @ \/ (k = req[r].hop /\ b.state = "closed" /\ b.inner # "read")]

FactorySettles(r, k) ==
  /\ req[r].stream[k].state = "calling"
  /\ \E ok \in BOOLEAN : Becomes(WithStream(r, k, Made(req[r].stream[k], ok)))

(* The body is read to its end, or breaks off.                             *)
BodyEnds(r, k) ==
  LET b == req[r].stream[k]
  IN /\ b.state = "open"
     /\ \/ /\ k = req[r].hop /\ req[r].wire \in {"connected", "headers"}
           /\ Becomes(WithStream(r, k, CloseStream([b EXCEPT !.inner = "read"])))
        \/ Becomes(WithStream(r, k, CloseStream(b)))

-----------------------------------------------------------------------------
(* The timer of the monitor, close() and the trace writer.                 *)

Shared(m) == mon' = Pressure!Collect(m) /\ UNCHANGED <<world, req, reg, lookups, tracing>>

Tick ==
  /\ Sampling[world] # {} /\ mon.timer
  /\ \E m \in Pressure!Ticks(mon, tracing, Sampling[world]) : Shared(m)

CloseMonitor == Sampling[world] # {} /\ Shared(Pressure!Close(mon))

InstallTracer ==
  /\ Sampling[world] # {}
  /\ tracing' = ~tracing
  /\ UNCHANGED <<world, req, reg, mon, lookups>>

-----------------------------------------------------------------------------
Caller(r) ==
  \/ \E a \in Asks[world][r] : \E early, good \in BOOLEAN, o \in a.to :
       Start(r, a, early, o, good)
  \/ Abort(r) \/ Read(r) \/ Drop(r)

Continues(r) ==
  Reject(r) \/ (req[r].started /\ \E o \in req[r].ask.to, good \in BOOLEAN : AfterLookup(r, o, good))

Wire(r) ==
  \/ Connect(r) \/ Reconnect(r) \/ Answer(r) \/ Overrun(r) \/ Complete(r)
  \/ Fail(r) \/ LateRejection(r) \/ Upgrade(r) \/ SocketCloses(r)

Body(r) ==
  \E k \in Hops : ConstructStream(r, k) \/ FactorySettles(r, k) \/ BodyEnds(r, k)

Next ==
  \/ \E r \in Requests : Caller(r) \/ Continues(r) \/ LookupSettles(r) \/ Wire(r) \/ Body(r)
  \/ Tick \/ CloseMonitor \/ InstallTracer

(* What an abort relies on: microtasks and what Node has scheduled run, a  *)
(* queued request gets its turn or fails, a transport that was cut says    *)
(* so, and a factory settles once its signal has fired (undici's timeouts, *)
(* its handling of aborts, and what the factory is given the signal for).  *)
(* Nothing is assumed of a request that was not aborted: the origin, the   *)
(* lookup and the factory may take for ever.                               *)
Urgent(r) ==
  /\ req[r].signal = "aborted"
  /\ \/ Continues(r)
     \/ req[r].wire = "queued" /\ (Connect(r) \/ Fail(r))
     \/ req[r].cut /\ Fail(r)
     \/ \E k \in Hops :
          \/ ConstructStream(r, k)
          \/ req[r].stream[k].signal = "aborted" /\ FactorySettles(r, k)

Spec == Init /\ [][Next]_vars /\ \A r \in Requests : WF_vars(Urgent(r))

-----------------------------------------------------------------------------
TypeOK ==
  /\ world \in Worlds /\ tracing \in BOOLEAN /\ lookups \in 0..Cardinality(Requests)
  /\ reg \in [list : Seq(Requests), index : [Requests -> Nat], ends : [Requests -> Nat]]
  /\ mon \in Pressure!Monitor
  /\ \A r \in Requests :
       LET s == req[r]
       IN /\ s.promise \in {"none", "waiting", "resolved", "rejecting", "rejected"}
          /\ s.res \in {"none", "open", "ended", "closing", "closed"}
          /\ s.signal \in {"none", "live", "aborted"}
          /\ s.lookup \in {"none", "under way", "resolved", "rejected", "done"}
          /\ s.wire \in {"none", "queued", "connected", "headers", "upgraded", "closed"}
          /\ s.body \in {"none", "live", "disturbed", "destroyed"}
          /\ s.hop \in 0..MaxHops /\ s.target \in 0..s.hop

Listed(r) == reg.index[r] # Log!NotListed

(* The array of requests in flight holds the requests that were dispatched *)
(* and have not ended, each where its own index says, and each request has *)
(* one end document: written when it left, and never again.  (log.js,      *)
(* constructor, onDone and onDispatchError)                                *)
RegistryIsExact ==
  /\ Log!IsExact(reg)
  /\ \A r \in Requests :
       LET s == req[r]
       IN /\ Listed(r) <=> s.hop > 0 /\ (~s.told \/ s.wire = "upgraded")
          /\ reg.ends[r] <= 1
          /\ s.told /\ ~Listed(r) /\ s.hop > 0 => reg.ends[r] = 1

(* Every pressure record, in the table or let go of by close(), counts the *)
(* attempts that wait for a connection and those that have one, however    *)
(* often they connected and whichever callbacks ended them; no record in   *)
(* use was forgotten; lookup counts the lookups under way.  (pressure.js,  *)
(* Handler and #tick; lookup.js, finishLookup)                             *)
GaugesAreExact ==
  /\ Pressure!CountsItsHandlers(mon)
  /\ \A r \in Requests, k \in Hops :
       LET s == req[r]
           state == mon.handler[<<r, k>>].state
           now == k = s.hop /\ ~s.hopTold
       IN /\ state = "pending" <=> now /\ s.wire = "queued"
          /\ state = "running" <=> now /\ s.wire \in {"connected", "headers"}
  /\ lookups = Cardinality({r \in Requests : req[r].lookup \notin {"none", "done"}})

(* The monitor samples exactly while it has records, and has one start     *)
(* document without an end for each latch that engaged while a writer was  *)
(* installed and is engaged still: none for an origin it has forgotten or  *)
(* closed, though the writer came and went.  (pressure.js, #ensureTimer,   *)
(* #tick, #traceEngage, #traceRelease, close)                              *)
SamplingIsPaired == Pressure!SamplesWhatItHas(mon)

(* Nothing of the request can happen any more unless somebody acts.        *)
Quiet(r) ==
  LET s == req[r]
  IN /\ s.started
     /\ s.wire \in {"none", "closed"} /\ s.lookup \in {"none", "done"}
     /\ s.promise # "rejecting" /\ s.res \in {"none", "closed"}

LetGo(b) ==
  /\ ~b.watching
  /\ b.state # "none" => b.destroyed /\ b.inner # "alive"
  /\ b.state \in {"calling", "closed"} /\ b.inner # "read" => b.signal = "aborted"

Released(r) ==
  LET s == req[r]
  IN /\ IF s.ask.raw THEN s.told ELSE s.promise \in {"resolved", "rejected"}
     /\ ~s.listening /\ ~Listed(r)
     /\ s.body \in {"none", "destroyed"} \cup (IF s.promise = "rejected" THEN {} ELSE {"disturbed"})
     /\ \A k \in Hops : LetGo(s.stream[k])
     /\ \A k \in Hops : mon.handler[<<r, k>>].state \in {"none", "done"}

(* A request that has come to rest has told its caller and holds nothing:  *)
(* no listener on the signal, no place in the registry, no gauge, no       *)
(* caller's body of a request that failed, and no factory that was neither *)
(* read nor told to stop.  (request.js, redirect.js, log.js,               *)
(* request-body-factory.js)                                                *)
NothingIsLeft == \A r \in Requests : Quiet(r) => Released(r)

(* A request whose signal fires comes to rest, wherever it was: before its *)
(* lookup answered, in the queue, between two hops, while its factory was  *)
(* pending or its body was read, though the origin and the lookup never    *)
(* say anything again.  (request.js, onAbort; lookup.js, onAbort;          *)
(* redirect.js, onConnect; request-body-factory.js, _construct)            *)
AbortReleases ==
  \A r \in Requests : req[r].signal = "aborted" ~> (Quiet(r) /\ Released(r))

=============================================================================
