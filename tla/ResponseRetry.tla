---------------------------- MODULE ResponseRetry ----------------------------
(***************************************************************************)
(* The response-retry handler of lib/interceptor/response-retry.js: one    *)
(* request, its successive attempts, and the one response the downstream   *)
(* handler sees.  A failed attempt is repeated from scratch while nothing  *)
(* has been forwarded, and resumed with a Range request once the headers   *)
(* have; an error response (status >= 400) is buffered, and replayed when  *)
(* no further attempt is made.                                             *)
(*                                                                         *)
(* The transport below and the handler above are the environment.  The     *)
(* transport keeps the dispatcher contract: connect, headers, data while   *)
(* not paused, one terminal event, nothing but an error after an abort; an *)
(* asynchronous dispatcher may also reject the promise it returned.        *)
(* JavaScript runs a callback to its end, so every action is one callback. *)
(*                                                                         *)
(* A body is a sequence of units; unit i of source s is <<s, i>>.  A source*)
(* is a representation, or, for an error response, the attempt number.     *)
(***************************************************************************)
EXTENDS Integers, Sequences, FiniteSets

CONSTANTS
  Reps,          \* the representations the server may hold in turn
  Length,        \* the number of units of each representation
  NoEtag,        \* an entity-tag that is absent, weak or malformed
  Cap,           \* MAX_ERROR_BODY_SIZE, in units
  MaxRetries,    \* the retry count of the options
  AsyncDispatch, \* whether the dispatcher returns a promise that may reject
  StreamBody,    \* whether the request body is a stream an attempt can consume
  AbortInReplay  \* whether the consumer may abort while the buffered body of a
                 \* completed attempt is replayed

ASSUME ConstantsAssumption ==
  /\ Length \in [Reps -> Nat]
  /\ NoEtag \notin Reps
  /\ Cap \in Nat
  /\ MaxRetries \in Nat
  /\ AsyncDispatch \in BOOLEAN
  /\ StreamBody \in BOOLEAN
  /\ AbortInReplay \in BOOLEAN

Null == -1     \* an absent position or length

VARIABLES
  \* The handler's fields.
  retryCount, headersSent, errorSent, aborted, paused,
  status,            \* the class of #statusCode: "none", "info", "ok" (< 400), "err"
  pos, end, etag,    \* the resume position, the expected end, the strong validator
  body,              \* the buffered units of an error response
  replay, backlog,   \* #replay: "none", "live" or "complete", and what is left of it
  resume,            \* the attempt whose transport #resume wakes, 0 for none
  attemptTerminated, terminalCount,
  decisions,         \* retry decisions not settled yet: the promises of maybeRetry
  backoff,           \* the wait of an open decision: "none", "waiting" or "over"
  outcome,           \* the statistic this request was counted under
  gate,              \* DecoratorHandler: "open", "aborted" or "closed"
  bodyUsed,          \* the request body is disturbed or a one-shot iterable
  \* The transport: attempt number, phase, response, flags, unsettled promises.
  att, phase, resp, tpaused, tabort, promises,
  \* What the downstream handler has seen and done.
  connected, hdrs, via, got, dpaused, daborted, terminal

attemptVars == <<status, body, attemptTerminated, terminalCount>>
trackVars   == <<pos, end, etag, resume>>
flowVars    == <<paused, replay, backlog>>
finalVars   == <<errorSent, aborted, outcome, gate>>
downVars    == <<connected, hdrs, via, got, dpaused, daborted, terminal>>
wireVars    == <<att, phase, resp, tpaused, tabort, promises>>
vars == <<attemptVars, trackVars, flowVars, finalVars, downVars, wireVars,
          headersSent, retryCount, decisions, bodyUsed, backoff>>

Replies == {"go", "pause", "abort"}   \* what a downstream callback does

NoResponse == [kind |-> "none", src |-> 0, etag |-> NoEtag, next |-> 0, stop |-> 0]
NoHeaders  == [src |-> 0, start |-> Null]

Init ==
  /\ retryCount = 0 /\ headersSent = FALSE /\ errorSent = FALSE
  /\ aborted = FALSE /\ paused = FALSE /\ status = "none"
  /\ pos = Null /\ end = Null /\ etag = NoEtag
  /\ body = <<>> /\ replay = "none" /\ backlog = <<>> /\ resume = 0
  /\ attemptTerminated = FALSE /\ terminalCount = 0
  /\ decisions = {} /\ backoff = "none" /\ outcome = "none" /\ gate = "open"
  /\ bodyUsed \in IF StreamBody THEN BOOLEAN ELSE {FALSE}
  /\ att = 1 /\ phase = "dispatched" /\ resp = NoResponse
  /\ tpaused = FALSE /\ tabort = FALSE
  /\ promises = IF AsyncDispatch THEN {[attempt |-> 1, count |-> 0]} ELSE {}
  /\ connected = FALSE /\ hdrs = NoHeaders /\ via = "none" /\ got = <<>>
  /\ dpaused = FALSE /\ daborted = FALSE /\ terminal = "none"

-----------------------------------------------------------------------------
(* Parts of the callbacks.                                                 *)

(* #settleStats: only a request that was retried counts, and only once.  A  *)
(* retry counts from the step that dispatches it, hence retryCount'.       *)
SettleStats(o) ==
  outcome' = IF outcome # "none" \/ retryCount' = 0 THEN outcome ELSE o

(* Faulty: an error response that ends a retried request is not counted.   *)
Complete_Uncounted ==
  /\ IF status # "err" THEN SettleStats("recovered") ELSE UNCHANGED outcome
  /\ gate'     = IF gate = "open" THEN "closed" ELSE gate
  /\ terminal' = IF gate = "open" THEN "complete" ELSE terminal

(* #complete and DecoratorHandler.onComplete.                              *)
Complete ==
  /\ SettleStats(IF status # "err" THEN "recovered" ELSE "failed")
  /\ gate'     = IF gate = "open" THEN "closed" ELSE gate
  /\ terminal' = IF gate = "open" THEN "complete" ELSE terminal

(* The abort wrapper given to the downstream handler, called by it.        *)
Aborts ==
  /\ gate' = "aborted" /\ aborted' = TRUE /\ daborted' = TRUE
  /\ replay' = "none" /\ backlog' = <<>>
  /\ UNCHANGED <<outcome, terminal>>

(* The downstream handler takes what it is given, or returns false.        *)
Accepts(pauses) ==
  /\ paused' = pauses /\ dpaused' = pauses
  /\ UNCHANGED <<aborted, daborted>>

(* #pumpReplay over the units q: the downstream handler takes all of them, *)
(* or stops at one of them by returning false or by aborting.              *)
PumpReplay(q, complete) ==
  \E n \in 0..Len(q) :
    /\ got' = got \o SubSeq(q, 1, n)
    /\ \/ /\ n = Len(q)
          /\ Accepts(FALSE)
          /\ replay' = "none" /\ backlog' = <<>>
          /\ IF complete THEN Complete ELSE UNCHANGED <<outcome, gate, terminal>>
       \/ /\ n > 0
          /\ Accepts(TRUE)
          /\ replay' = IF complete THEN "complete" ELSE "live"
          /\ backlog' = SubSeq(q, n + 1, Len(q))
          /\ UNCHANGED <<outcome, gate, terminal>>
       \/ /\ n > 0
          /\ complete => AbortInReplay
          /\ Aborts
          /\ paused' = FALSE /\ dpaused' = FALSE

(* #startReplay: the headers of the error response, then its buffered body.*)
StartReplay(q, complete) ==
  /\ gate = "open"
  /\ headersSent' = TRUE
  /\ hdrs' = [src |-> resp.src, start |-> 0]
  /\ via' = "handler"
  /\ \/ PumpReplay(q, complete)
     \/ /\ Accepts(TRUE)
        /\ replay' = IF complete THEN "complete" ELSE "live"
        /\ backlog' = q
        /\ UNCHANGED <<got, outcome, gate, terminal>>
     \/ /\ complete => AbortInReplay
        /\ Aborts
        /\ paused' = FALSE /\ dpaused' = FALSE
        /\ UNCHANGED got

(* #maybeAbort: the attempt is aborted, and no further one is wanted.      *)
MaybeAbort == aborted' = (aborted \/ connected)

(* #maybeError with an error, or with null ("null") when the attempt ended *)
(* with an error response: deliver the error, or replay that response.     *)
MaybeError(e) ==
  LET err == IF e = "null" /\ aborted THEN "abort"
             ELSE IF e = "null" /\ headersSent THEN "error" ELSE e
  IN IF err # "null"
     THEN /\ replay' = "none" /\ backlog' = <<>>
          /\ errorSent' = TRUE
          /\ IF errorSent
             THEN UNCHANGED <<outcome, gate, terminal>>
             ELSE /\ SettleStats(IF aborted THEN "aborted" ELSE "failed")
                  /\ terminal' = IF gate = "closed" THEN terminal ELSE err
                  /\ gate' = "closed"
          /\ MaybeAbort
          /\ UNCHANGED <<headersSent, paused, hdrs, via, got, dpaused, daborted>>
     ELSE StartReplay(body, TRUE) /\ UNCHANGED errorSent

errorVars == <<headersSent, errorSent, aborted, outcome, gate, flowVars,
               hdrs, via, got, dpaused, daborted, terminal>>

(* Faulty: the tail of a response is requested without a validator.        *)
CannotRetry_NoValidator ==
  \/ aborted
  \/ bodyUsed
  \/ headersSent /\ (pos = Null \/ (end # Null /\ end <= 0))

(* What rules a further attempt out before a strategy is asked.            *)
CannotRetry ==
  \/ aborted
  \/ bodyUsed
  \/ headersSent /\ (pos = Null \/ (end # Null /\ end <= 0))
  \/ pos > 0 /\ etag = NoEtag

MaybeRetry(e) ==
  IF CannotRetry
  THEN MaybeError(e) /\ UNCHANGED decisions
  ELSE /\ decisions' = decisions \cup {[attempt |-> att, err |-> e]}
       /\ UNCHANGED errorVars

(* #resetAttempt.                                                          *)
ResetAttempt ==
  attemptTerminated' = FALSE /\ status' = "none" /\ body' = <<>>

(* The dispatch method: the next attempt.                                  *)
Dispatch ==
  /\ ResetAttempt
  /\ att' = att + 1 /\ phase' = "dispatched" /\ resp' = NoResponse
  /\ tpaused' = FALSE /\ tabort' = FALSE
  /\ promises' = IF AsyncDispatch
                 THEN promises \cup {[attempt |-> att', count |-> terminalCount]}
                 ELSE promises

-----------------------------------------------------------------------------
(* The transport calls the handler.                                        *)

(* Faulty: an abort from before the attempt was connected is forgotten.    *)
CarriesAbort_Lost == tabort' = FALSE

(* An abort from before the attempt was connected is passed on to it.      *)
CarriesAbort == tabort' = aborted'

OnConnect ==
  /\ phase = "dispatched" /\ phase' = "connected"
  /\ ResetAttempt
  /\ IF headersSent
     THEN UNCHANGED <<trackVars, flowVars, gate, aborted, connected, daborted>>
     ELSE /\ pos' = Null /\ end' = Null /\ etag' = NoEtag /\ resume' = 0
          /\ paused' = FALSE /\ replay' = "none" /\ backlog' = <<>>
          /\ connected' = TRUE
          /\ \E aborts \in BOOLEAN :      \* in the downstream onConnect
               /\ gate'     = IF aborts THEN "aborted" ELSE "open"
               /\ aborted'  = (aborted \/ aborts)
               /\ daborted' = (daborted \/ aborts)
  /\ CarriesAbort
  /\ UNCHANGED <<terminalCount, errorSent, outcome, hdrs, via, got, dpaused,
                 terminal, att, resp, tpaused, promises,
                 headersSent, retryCount, decisions, bodyUsed, backoff>>

Responding == phase = "connected" /\ ~tabort

(* A 1xx response: forwarded, and the final one is still to come.          *)
OnInformational ==
  /\ Responding
  /\ status' = "info"
  /\ UNCHANGED <<body, attemptTerminated, terminalCount, trackVars, flowVars,
                 finalVars, downVars, wireVars,
                 headersSent, retryCount, decisions, bodyUsed, backoff>>

(* What follows from the answer of the downstream onHeaders or onData.     *)
Answered(reply) ==
  /\ gate'     = IF reply = "abort" THEN "aborted" ELSE gate
  /\ aborted'  = (aborted \/ reply = "abort")
  /\ daborted' = (daborted \/ reply = "abort")
  /\ replay'   = IF reply = "abort" THEN "none" ELSE replay
  /\ backlog'  = IF reply = "abort" THEN <<>> ELSE backlog
  /\ dpaused'  = (reply = "pause")
  /\ tpaused'  = (reply = "pause")
  /\ tabort'   = (tabort \/ reply = "abort")

ForwardHeaders(start, through) ==
  /\ gate = "open"
  /\ headersSent' = TRUE
  /\ hdrs' = [src |-> resp'.src, start |-> start]
  /\ via' = through
  /\ \E reply \in Replies :
       /\ Answered(reply)
       /\ paused' = IF through = "handler" THEN reply = "pause" ELSE paused

Receive(r, class) ==
  phase' = "body" /\ resp' = r /\ status' = class

headersFrame == <<attemptTerminated, terminalCount, outcome, connected, got,
                  terminal, att, promises, retryCount, decisions, bodyUsed,
                  backoff>>

(* A first response that can be resumed: 200, or a well-formed 206.        *)
OnTrackedHeaders ==
  /\ Responding /\ ~headersSent
  /\ \E rep \in Reps : \E strong, sized \in BOOLEAN, first, last \in 0..Length[rep] :
         /\ \/ first = 0 /\ last = Length[rep] /\ end' = (IF sized THEN last ELSE Null)
            \/ first < last /\ sized /\ end' = last
         /\ etag' = IF strong THEN rep ELSE NoEtag
         /\ pos' = first
         /\ Receive([kind |-> "tracked", src |-> rep, etag |-> etag',
                     next |-> first, stop |-> last], "ok")
         /\ ForwardHeaders(first, "handler")
  /\ resume' = att
  /\ UNCHANGED <<body, errorSent, headersFrame>>

(* A response with a trailer header, an unusable length or range, another  *)
(* status below 400, or an error body announced to be larger than Cap.     *)
OnUntrackedHeaders ==
  /\ Responding /\ ~headersSent
  /\ \E rep \in Reps, class \in {"ok", "err"} :
       /\ Receive([kind |-> "untracked", src |-> rep, etag |-> NoEtag,
                   next |-> 0, stop |-> Length[rep]], class)
       /\ ForwardHeaders(0, "raw")
  /\ UNCHANGED <<body, trackVars, errorSent, headersFrame>>

(* An error response: kept back until the retry decision.                  *)
OnErrorHeaders ==
  /\ Responding /\ ~headersSent
  /\ \E size \in 0..(Cap + 1) :
       Receive([kind |-> "error", src |-> att, etag |-> NoEtag,
                next |-> 0, stop |-> size], "err")
  /\ body' = <<>>
  /\ resume' = att
  /\ UNCHANGED <<pos, end, etag, flowVars, finalVars, hdrs, via, dpaused, daborted,
                 tpaused, tabort, headersSent, headersFrame>>

(* Faulty: the entity-tag of a resumed response is not compared.           *)
Continues_AnyEtag(r, sized) ==
  /\ etag # NoEtag
  /\ \/ r.kind = "200" /\ pos = 0
     \/ r.kind = "206" /\ sized /\ pos = r.next /\ end \in {Null, r.stop}

(* A resumed response that continues the one forwarded: it echoes the      *)
(* strong entity-tag, and its range is the missing one; or it is the whole *)
(* response again while nothing of the body has been forwarded.            *)
Continues(r, sized) ==
  /\ etag # NoEtag /\ etag = r.etag
  /\ \/ r.kind = "200" /\ pos = 0
     \/ r.kind = "206" /\ sized /\ pos = r.next /\ end \in {Null, r.stop}

(* Faulty: a resumed transport is told to go on whatever the consumer said.*)
HoldsResumed_Never == FALSE

(* onHeaders of a resumed attempt returns !#paused.                        *)
HoldsResumed == paused

OnResumeHeaders ==
  /\ Responding /\ headersSent
  /\ \E rep \in Reps, kind \in {"200", "206"} :
       \E strong, sized \in BOOLEAN, first, last \in 0..Length[rep] :
         LET r == [kind |-> kind, src |-> rep, etag |-> IF strong THEN rep ELSE NoEtag,
                   next |-> first, stop |-> last]
         IN /\ IF kind = "200" THEN first = 0 /\ last = Length[rep] ELSE first < last
            /\ Continues(r, sized)
            /\ Receive(r, "ok")
            /\ end' = IF kind = "200" THEN (IF sized THEN last ELSE Null) ELSE end
  /\ resume' = att
  /\ tpaused' = HoldsResumed
  /\ UNCHANGED <<body, pos, etag, flowVars, finalVars, hdrs, via, dpaused, daborted,
                 tabort, headersSent, headersFrame>>

(* Any other answer to a resume ends the exchange with an error.  Its body *)
(* is never read, so of the response only the class of its status is kept. *)
OnDeclinedHeaders ==
  /\ Responding /\ headersSent
  /\ retryCount' = retryCount
  /\ \E class \in {"ok", "err"}, e \in {"error", "null"} :
       /\ Receive([NoResponse EXCEPT !.kind = "declined"], class)
       /\ e = "null" => class = "ok"
       /\ MaybeError(e)
  /\ tpaused' = TRUE
  /\ tabort' = (tabort \/ ~aborted)
  /\ UNCHANGED <<attemptTerminated, terminalCount, body, trackVars, connected,
                 att, promises, decisions, bodyUsed, backoff>>

OnData ==
  /\ phase = "body" /\ ~tpaused /\ ~tabort /\ resp.next < resp.stop
  /\ LET unit == <<resp.src, resp.next>> IN
     /\ pos' = IF pos = Null THEN Null ELSE pos + 1
     /\ IF status # "err" \/ (headersSent /\ ~errorSent)
        THEN /\ gate = "open"                                \* #forwardData
             /\ got' = Append(got, unit)
             /\ \E reply \in Replies :
                  /\ Answered(reply)
                  /\ paused' = IF reply = "abort" THEN paused ELSE reply = "pause"
             /\ UNCHANGED <<body, headersSent, hdrs, via, outcome, terminal>>
        ELSE IF Len(body) < Cap
             THEN /\ body' = Append(body, unit)
                  /\ UNCHANGED <<headersSent, flowVars, aborted, outcome, gate, hdrs,
                                 via, got, dpaused, daborted, terminal, tpaused, tabort>>
             ELSE /\ StartReplay(Append(body, unit), FALSE)
                  /\ body' = <<>>
                  /\ tpaused' = dpaused'
                  /\ tabort' = (tabort \/ daborted')
  /\ resp' = [resp EXCEPT !.next = @ + 1]
  /\ UNCHANGED <<status, attemptTerminated, terminalCount, end, etag, resume,
                 errorSent, connected, att, phase, promises,
                 retryCount, decisions, bodyUsed, backoff>>

(* The end of an attempt, a second terminal event of it being ignored.     *)
Terminates(effect) ==
  IF attemptTerminated
  THEN UNCHANGED <<attemptTerminated, terminalCount, body, decisions, errorVars>>
  ELSE /\ attemptTerminated' = TRUE
       /\ terminalCount' = terminalCount + 1
       /\ effect
       /\ body' = IF headersSent' THEN <<>> ELSE body

terminalFrame == <<status, trackVars, connected, att, resp, tpaused, tabort, bodyUsed,
                   backoff>>

OnComplete ==
  /\ phase = "body" /\ ~tpaused /\ ~tabort /\ resp.next = resp.stop
  /\ phase' = "done"
  /\ retryCount' = retryCount
  /\ Terminates(
       IF status # "err" \/ (headersSent /\ ~errorSent)
       THEN /\ Complete
            /\ UNCHANGED <<headersSent, errorSent, aborted, flowVars, hdrs, via, got,
                           dpaused, daborted, decisions>>
       ELSE MaybeRetry("null"))
  /\ UNCHANGED <<promises, terminalFrame>>

(* A connect error, a reset, a timeout, or the answer to an abort.         *)
OnError ==
  /\ phase \in {"dispatched", "connected", "body"}
  /\ phase' = "done"
  /\ retryCount' = retryCount
  /\ Terminates(MaybeRetry(IF tabort THEN "abort" ELSE "error"))
  /\ UNCHANGED <<promises, terminalFrame>>

(* Faulty: a rejection is always taken for the end of the current attempt. *)
Concerns_Always(p) == TRUE

(* A rejection tells of an attempt that has reported no end yet.           *)
Concerns(p) == p.count = terminalCount

(* The promise of an attempt rejects; an attempt still running is over.    *)
OnRejection(p) ==
  /\ p \in promises
  /\ promises' = promises \ {p}
  /\ phase' = IF p.attempt = att THEN "done" ELSE phase
  /\ retryCount' = retryCount
  /\ IF Concerns(p)
     THEN Terminates(MaybeRetry("error"))
     ELSE UNCHANGED <<attemptTerminated, terminalCount, body, decisions, errorVars>>
  /\ UNCHANGED terminalFrame

-----------------------------------------------------------------------------
(* The retry decision: the strategy may wait before it answers, and the    *)
(* decision settles when that wait is over or was cut short by an abort.   *)

waitFrame == <<attemptVars, trackVars, flowVars, finalVars, downVars, wireVars,
               headersSent, retryCount, decisions, bodyUsed>>

(* The default strategy, which the options' own may call at any time while *)
(* the decision is open, waits before it agrees; not after an abort.       *)
Backoff ==
  /\ decisions # {} /\ backoff = "none"
  /\ ~aborted /\ retryCount < MaxRetries
  /\ backoff' = "waiting"
  /\ UNCHANGED waitFrame

(* Its timer fires, or the signal of the options aborts.                   *)
TimerFires ==
  /\ backoff = "waiting"
  /\ backoff' = "over"
  /\ UNCHANGED waitFrame

settleFrame == <<attemptTerminated, terminalCount, status, wireVars>>

GiveUp(e) ==
  /\ retryCount' = retryCount
  /\ MaybeError(e)
  /\ body' = IF headersSent' THEN <<>> ELSE body
  /\ UNCHANGED settleFrame

(* Faulty: what ended the wait hides the abort.                            *)
SettledError_Raw(e) == e

(* What is delivered when no further attempt is made.                      *)
SettledError(e) == IF aborted THEN "abort" ELSE e

(* Faulty: a strategy of the options is not held to the retry count.       *)
MayRetry_Unbounded == ~aborted /\ ~bodyUsed

(* What is looked at again once the strategy has agreed.                   *)
MayRetry == ~aborted /\ ~bodyUsed /\ retryCount < MaxRetries

RetrySettled(d) ==
  /\ d \in decisions /\ backoff # "waiting"
  /\ decisions' = decisions \ {d}
  /\ backoff' = "none"
  /\ \/ GiveUp(SettledError(d.err))                  \* the strategy declines
     \/ GiveUp(SettledError("error"))                \* the strategy throws
     \/ /\ MayRetry
        /\ retryCount' = retryCount + 1
        /\ \/ Dispatch /\ UNCHANGED <<terminalCount, errorVars>>
           \/ /\ ResetAttempt /\ MaybeError("error")  \* dispatch throws
              /\ UNCHANGED <<terminalCount, wireVars>>
  /\ UNCHANGED <<trackVars, connected, bodyUsed>>

(* A request body stream is read, by an attempt or by its owner.           *)
ConsumeBody ==
  /\ StreamBody /\ ~bodyUsed
  /\ bodyUsed' = TRUE
  /\ UNCHANGED <<attemptVars, trackVars, flowVars, finalVars, downVars, wireVars,
                 headersSent, retryCount, decisions, backoff>>

-----------------------------------------------------------------------------
(* The downstream handler calls back.                                      *)

(* Faulty: the abort does not reach the wait.                              *)
CutsWait_Not == UNCHANGED backoff

(* The abort callback also aborts the signal that the wait races against.  *)
(* Only here can a wait be open: the other callbacks that abort are those  *)
(* of a running attempt and of a replay, and an attempt has ended before   *)
(* its decision opens.                                                     *)
CutsWait == backoff' = IF backoff = "waiting" THEN "over" ELSE backoff

DownstreamAbort ==
  /\ connected /\ gate = "open"
  /\ replay = "complete" => AbortInReplay
  /\ Aborts
  /\ CutsWait
  /\ tabort' = (tabort \/ phase \in {"connected", "body"})
  /\ UNCHANGED <<attemptVars, trackVars, paused, errorSent, connected, hdrs, via,
                 got, dpaused, att, phase, resp, tpaused, promises,
                 headersSent, retryCount, decisions, bodyUsed>>

(* Faulty: the consumer's resume does not reach the transport.             *)
ResumeTransport_Lost == UNCHANGED tpaused

ResumeTransport ==
  tpaused' = IF resume = att /\ phase = "body" THEN FALSE ELSE tpaused

(* The resume callback: the transport's own, or #downstreamResume.         *)
DownstreamResume ==
  /\ dpaused
  /\ retryCount' = retryCount
  /\ IF via = "raw"
     THEN /\ dpaused' = FALSE
          /\ tpaused' = IF phase = "body" THEN FALSE ELSE tpaused
          /\ UNCHANGED <<flowVars, aborted, outcome, gate, got, daborted, terminal, tabort>>
     ELSE IF aborted \/ errorSent
     THEN /\ dpaused' = FALSE
          /\ UNCHANGED <<flowVars, aborted, outcome, gate, got, daborted, terminal,
                         tpaused, tabort>>
     ELSE IF replay # "none"
     THEN /\ PumpReplay(backlog, replay = "complete")
          /\ IF replay = "live" /\ replay' = "none" /\ ~aborted'
             THEN ResumeTransport ELSE UNCHANGED tpaused
          /\ tabort' = (tabort \/ (aborted' /\ phase \in {"connected", "body"}))
     ELSE /\ Accepts(FALSE)
          /\ ResumeTransport
          /\ UNCHANGED <<replay, backlog, outcome, gate, got, terminal, tabort>>
  /\ UNCHANGED <<attemptVars, trackVars, errorSent, connected, hdrs, via,
                 att, phase, resp, promises, headersSent, decisions, bodyUsed, backoff>>

-----------------------------------------------------------------------------

Transport ==
  \/ OnConnect \/ OnInformational \/ OnTrackedHeaders \/ OnUntrackedHeaders
  \/ OnErrorHeaders \/ OnResumeHeaders \/ OnDeclinedHeaders
  \/ OnData \/ OnComplete \/ OnError
  \/ \E p \in promises : OnRejection(p)

Settle == \E d \in decisions : RetrySettled(d)

Next ==
  \/ Transport
  \/ Backoff
  \/ TimerFires
  \/ Settle
  \/ ConsumeBody
  \/ DownstreamAbort
  \/ DownstreamResume

Spec == Init /\ [][Next]_vars

(* A transport answers what it has accepted and answers an abort, a retry  *)
(* strategy answers unless it waits, and a consumer that has not aborted   *)
(* reads on.  A timer fires, in up to a minute; none of that minute is for *)
(* an aborted exchange, so nothing is assumed of the timer once it has been*)
(* aborted.  Nobody need abort, and a transport need not fail.             *)
TransportProgress ==
  \/ OnConnect \/ OnTrackedHeaders \/ OnUntrackedHeaders
  \/ OnErrorHeaders \/ OnResumeHeaders \/ OnDeclinedHeaders
  \/ OnData \/ OnComplete
  \/ tabort /\ OnError

Fairness ==
  /\ WF_vars(TransportProgress)
  /\ WF_vars(~aborted /\ TimerFires)
  /\ WF_vars(Settle)
  /\ WF_vars(DownstreamResume)

FairSpec == Spec /\ Fairness

-----------------------------------------------------------------------------
(* Properties.                                                             *)

Sources == Reps \cup Nat
Units   == Sources \X Nat
ErrKinds == {"null", "error", "abort"}
RespKinds == {"none", "tracked", "untracked", "error", "200", "206", "declined"}

(* The types of the variables: lib/interceptor/response-retry.js 241-287.  *)
TypeOK ==
  /\ retryCount \in 0..MaxRetries
  /\ headersSent \in BOOLEAN /\ errorSent \in BOOLEAN /\ aborted \in BOOLEAN
  /\ attemptTerminated \in BOOLEAN /\ bodyUsed \in BOOLEAN /\ paused \in BOOLEAN
  /\ tpaused \in BOOLEAN /\ tabort \in BOOLEAN
  /\ connected \in BOOLEAN /\ dpaused \in BOOLEAN /\ daborted \in BOOLEAN
  /\ status \in {"none", "info", "ok", "err"}
  /\ pos \in Nat \cup {Null} /\ end \in Nat \cup {Null}
  /\ etag \in Reps \cup {NoEtag}
  /\ body \in Seq(Units) /\ backlog \in Seq(Units) /\ got \in Seq(Units)
  /\ replay \in {"none", "live", "complete"}
  /\ resume \in Nat /\ att \in Nat /\ terminalCount \in Nat
  /\ decisions \subseteq [attempt : Nat, err : ErrKinds]
  /\ backoff \in {"none", "waiting", "over"}
  /\ outcome \in {"none", "recovered", "failed", "aborted"}
  /\ gate \in {"open", "aborted", "closed"}
  /\ phase \in {"dispatched", "connected", "body", "done"}
  /\ resp \in [kind : RespKinds, src : Sources, etag : Reps \cup {NoEtag},
               next : Nat, stop : Nat]
  /\ promises \subseteq [attempt : Nat, count : Nat]
  /\ hdrs \in [src : Sources, start : Nat \cup {Null}]
  /\ via \in {"none", "raw", "handler"}
  /\ terminal \in {"none", "complete", "error", "abort"}

(* What the consumer was given is one piece of one response: unit i of the *)
(* body is unit start + i of the source whose headers it saw, and all of   *)
(* it, when its length is known, once the consumer is told so.  No resumed *)
(* response is spliced onto other headers, and no buffered unit is lost,   *)
(* repeated or overtaken by a live one (479-541, 565-611, 631-679).        *)
NoSplice ==
  /\ \A i \in 1..Len(got) : got[i] = <<hdrs.src, hdrs.start + i - 1>>
  /\ (terminal = "complete" /\ pos # Null /\ end # Null) => hdrs.start + Len(got) = end

(* One exchange at a time: an attempt is not dispatched while another one  *)
(* runs or a retry decision is open, whatever terminal events and promise  *)
(* rejections an attempt reports (334-357, 592-620, 810-887).              *)
OneExchange ==
  Cardinality(decisions) + (IF phase = "done" THEN 0 ELSE 1) <= 1

(* The statistic a retried request is counted under agrees with the end its*)
(* consumer saw, and is not settled before it (315-332).                   *)
OutcomeMatchesEnd ==
  /\ outcome # "none" => terminal # "none"
  /\ (terminal # "none" /\ retryCount > 0) => outcome # "none"
  /\ outcome = "recovered" => terminal = "complete"
  /\ outcome = "aborted" => daborted

(* A consumer that has returned false gets no data and no completion before*)
(* it resumes, across a resumed attempt and a buffered replay (269-283,    *)
(* 479-541, 622-679).                                                      *)
PauseHolds ==
  [][(dpaused /\ (got' # got \/ (terminal' # terminal /\ terminal' = "complete")))
       => DownstreamResume]_vars

(* An abort that lands while a retry decision is open ends the exchange    *)
(* with the reason of the abort (688-699, 819-824, 880-886).               *)
AbortReasonWins ==
  [][(daborted /\ decisions # {} /\ terminal' # terminal) => terminal' = "abort"]_vars

(* A further attempt is dispatched only for a consumer that has neither    *)
(* been told an end nor aborted, however many errors and rejections come   *)
(* late; while its request body is intact; and it asks for the missing     *)
(* part of a response only with a strong validator, from the position the  *)
(* consumer has reached, which is inside the response (359-394, 592-620,   *)
(* 681-686, 727-747, 819-878).                                             *)
ResumeIsSound ==
  [][att' # att =>
       /\ terminal = "none" /\ ~daborted
       /\ ~bodyUsed
       /\ headersSent => /\ pos = hdrs.start + Len(got)
                         /\ pos > 0 => etag = hdrs.src
                         /\ end # Null => end > 0]_vars

(* The retry handler keeps the contract of the handler chain.              *)
Contract ==
  INSTANCE HandlerContract WITH
    NoHead <- NoHeaders, open <- connected, head <- hdrs, received <- got,
    cancelled <- daborted,
    ended <- IF terminal = "abort" THEN "error" ELSE terminal

(* Whatever happens to the attempts, the handler above sees one exchange   *)
(* in the order DecoratorHandler promises: one end, nothing after it, and  *)
(* nothing but an error after its abort (lib/utils.js 712-772).            *)
KeepsContract == Contract!Spec

(* Every request ends with a terminal event: also when an abort lands while*)
(* a retry decision is open, before the strategy begins its wait or during *)
(* it, and without the timer of that wait (192-222, 370-386, 908-941).     *)
EveryRequestEnds == <>(terminal # "none")

(* A consumer that aborts is told so: "deliver exactly one terminal onError*)
(* with the abort reason" (test/review-bugfixes-4-retry-abort-backoff.js). *)
AbortIsAnswered == daborted ~> terminal # "none"

=============================================================================
