----------------------------- MODULE RetryProofs -----------------------------
(***************************************************************************)
(* Proofs about ResponseRetry, for every set of representations and        *)
(* lengths, every cap and retry count, and every kind of dispatcher and    *)
(* request body.  The invariant has four parts: who may still report an    *)
(* end, what an end leaves behind, what has been delivered and where the   *)
(* transport stands, and who holds the transport back.                     *)
(***************************************************************************)
EXTENDS ResponseRetry, FiniteSetTheorems, SequenceTheorems, TLAPS

(* One attempt or one decision is under way, and only the promise of an    *)
(* attempt that has not ended yet is taken for its end.                    *)
AttemptInv ==
  /\ phase # "done" => ~attemptTerminated /\ decisions = {}
  /\ decisions # {} => attemptTerminated
  /\ \A c, d \in decisions : c = d
  /\ \A p \in promises :
       /\ p.attempt <= att /\ p.count <= terminalCount
       /\ p.count = terminalCount <=> (p.attempt = att /\ phase # "done")

(* The gate, the terminal event and the abort agree; after an end nothing  *)
(* runs but an attempt that was told to stop.                              *)
EndInv ==
  /\ gate = "closed" <=> terminal # "none"
  /\ errorSent <=> terminal \in {"error", "abort"}
  /\ terminal = "complete" => phase = "done"
  /\ terminal # "none" => decisions = {} /\ replay = "none"
  /\ errorSent /\ phase # "done" => phase = "body" /\ tabort /\ aborted
  /\ daborted => aborted
  /\ aborted /\ ~errorSent => daborted
  /\ gate = "aborted" => aborted
  /\ aborted /\ phase \in {"connected", "body"} => tabort
  /\ headersSent \/ daborted \/ phase \in {"connected", "body"} => connected
  /\ (\E d \in decisions : d.err = "null") => connected
  /\ OutcomeMatchesEnd

(* The units u continue the body of the headers h at its place n.          *)
Run(u, h, n) == \A i \in 1..Len(u) : u[i] = <<h.src, n + i - 1>>

(* What was delivered and what is buffered are runs of one body, and the   *)
(* transport stands where they end.                                        *)
DeliveryInv ==
  /\ ~headersSent => /\ got = <<>> /\ hdrs = NoHeaders /\ via = "none"
                     /\ replay = "none" /\ ~dpaused
                     /\ pos = Null /\ end = Null /\ etag = NoEtag
                     /\ Run(body, resp, 0)
                     /\ phase = "body" => status = "err" /\ Len(body) = resp.next
  /\ headersSent => hdrs.start \in Nat /\ via # "none"
  /\ Run(got, hdrs, hdrs.start)
  /\ Run(backlog, hdrs, hdrs.start + Len(got))
  /\ replay = "none" => backlog = <<>>
  /\ headersSent /\ phase = "body" /\ ~aborted =>
       /\ resp.src = hdrs.src
       /\ resp.next = hdrs.start + Len(got) + Len(backlog)
  /\ headersSent /\ pos # Null =>
       /\ via = "handler" /\ replay = "none"
       /\ pos = hdrs.start + Len(got)
       /\ etag \in {NoEtag, hdrs.src}
       /\ phase = "body" /\ ~aborted => end \in {Null, resp.stop}
  /\ headersSent /\ (decisions # {} \/ phase \in {"dispatched", "connected"}) => pos # Null
  /\ headersSent /\ decisions # {} => /\ end # Null => end > 0
                                      /\ pos > 0 => etag # NoEtag
  /\ replay = "complete" => phase = "done"
  /\ replay # "none" => via = "handler"

(* A consumer that has stopped holds the transport, and a resumed one too. *)
PauseInv ==
  /\ dpaused /\ phase = "body" => tpaused \/ tabort
  /\ dpaused /\ via = "handler" /\ ~aborted /\ ~errorSent => paused
  /\ replay = "live" => phase = "body" /\ tpaused

(* A complete body of a known length is whole.                             *)
WholeInv == terminal = "complete" /\ pos # Null /\ end # Null => hdrs.start + Len(got) = end

ExchangeInv == EndInv /\ DeliveryInv /\ PauseInv /\ WholeInv

(* The types in three parts: what the end of an exchange writes, what      *)
(* describes an attempt, and the transport.                                *)
EndTypes ==
  /\ headersSent \in BOOLEAN /\ errorSent \in BOOLEAN /\ aborted \in BOOLEAN
  /\ paused \in BOOLEAN /\ dpaused \in BOOLEAN /\ daborted \in BOOLEAN
  /\ got \in Seq(Units) /\ backlog \in Seq(Units)
  /\ hdrs \in [src : Sources, start : Nat \cup {Null}]
  /\ replay \in {"none", "live", "complete"}
  /\ via \in {"none", "raw", "handler"}
  /\ gate \in {"open", "aborted", "closed"}
  /\ outcome \in {"none", "recovered", "failed", "aborted"}
  /\ terminal \in {"none", "complete", "error", "abort"}

AttemptTypes ==
  /\ retryCount \in 0..MaxRetries /\ connected \in BOOLEAN
  /\ attemptTerminated \in BOOLEAN /\ bodyUsed \in BOOLEAN
  /\ status \in {"none", "info", "ok", "err"}
  /\ pos \in Nat \cup {Null} /\ end \in Nat \cup {Null}
  /\ etag \in Reps \cup {NoEtag}
  /\ body \in Seq(Units)
  /\ resume \in Nat /\ terminalCount \in Nat
  /\ decisions \subseteq [attempt : Nat, err : ErrKinds]

WireTypes ==
  /\ tpaused \in BOOLEAN /\ tabort \in BOOLEAN
  /\ att \in Nat
  /\ phase \in {"dispatched", "connected", "body", "done"}
  /\ resp \in [kind : RespKinds, src : Sources, etag : Reps \cup {NoEtag},
               next : Nat, stop : Nat]
  /\ promises \subseteq [attempt : Nat, count : Nat]

(* The wait of a decision, which tells the rest of the handler nothing but *)
(* when the decision may settle: its type is an invariant of its own.      *)
WaitType == backoff \in {"none", "waiting", "over"}

RetryInv ==
  EndTypes /\ AttemptTypes /\ WireTypes /\ AttemptInv /\ ExchangeInv

LEMMA TypesSplit == TypeOK <=> EndTypes /\ AttemptTypes /\ WireTypes /\ WaitType
<1>1. TypeOK => EndTypes
  BY DEF TypeOK, EndTypes
<1>2. TypeOK => AttemptTypes /\ WireTypes /\ WaitType
  BY DEF TypeOK, AttemptTypes, WireTypes, WaitType
<1>3. EndTypes /\ AttemptTypes /\ WireTypes /\ WaitType => TypeOK
  BY DEF TypeOK, EndTypes, AttemptTypes, WireTypes, WaitType
<1>4. QED
  BY <1>1, <1>2, <1>3

-----------------------------------------------------------------------------
(* Runs of a body.                                                         *)

LEMMA RunSplit ==
  ASSUME NEW q \in Seq(Units), NEW h, NEW m \in Int, Run(q, h, m), NEW n \in 0..Len(q)
  PROVE  /\ SubSeq(q, 1, n) \in Seq(Units) /\ Len(SubSeq(q, 1, n)) = n
         /\ Run(SubSeq(q, 1, n), h, m)
         /\ SubSeq(q, n + 1, Len(q)) \in Seq(Units)
         /\ Len(SubSeq(q, n + 1, Len(q))) = Len(q) - n
         /\ Run(SubSeq(q, n + 1, Len(q)), h, m + n)
<1>1. Len(q) \in Nat /\ \A i \in 1..Len(q) : q[i] \in Units
  BY LenProperties, ElementOfSeq
<1>2. /\ SubSeq(q, 1, n) \in Seq(Units) /\ Len(SubSeq(q, 1, n)) = n
      /\ \A i \in 1..n : SubSeq(q, 1, n)[i] = q[i]
  BY <1>1, SubSeqProperties
<1>3. /\ SubSeq(q, n + 1, Len(q)) \in Seq(Units)
      /\ Len(SubSeq(q, n + 1, Len(q))) = Len(q) - n
      /\ \A i \in 1..(Len(q) - n) : SubSeq(q, n + 1, Len(q))[i] = q[n + i]
  BY <1>1, SubSeqProperties
<1>4. Run(SubSeq(q, 1, n), h, m)
  BY <1>1, <1>2 DEF Run
<1>5. Run(SubSeq(q, n + 1, Len(q)), h, m + n)
  BY <1>1, <1>3 DEF Run
<1>6. QED
  BY <1>2, <1>3, <1>4, <1>5

LEMMA RunJoin ==
  ASSUME NEW p \in Seq(Units), NEW q \in Seq(Units), NEW h, NEW m \in Int,
         Run(p, h, m), Run(q, h, m + Len(p))
  PROVE  /\ p \o q \in Seq(Units) /\ Len(p \o q) = Len(p) + Len(q)
         /\ Run(p \o q, h, m)
<1>1. Len(p) \in Nat /\ Len(q) \in Nat
  BY LenProperties
<1>2. /\ p \o q \in Seq(Units) /\ Len(p \o q) = Len(p) + Len(q)
      /\ \A i \in 1..(Len(p) + Len(q)) : (p \o q)[i] = IF i <= Len(p) THEN p[i] ELSE q[i - Len(p)]
  BY ConcatProperties
<1>3. ASSUME NEW i \in 1..(Len(p) + Len(q)) PROVE (p \o q)[i] = <<h.src, m + i - 1>>
  <2>1. CASE i <= Len(p)
    BY <1>1, <1>2, <2>1 DEF Run
  <2>2. CASE i > Len(p)
    <3>1. i - Len(p) \in 1..Len(q)
      BY <1>1, <2>2
    <3>2. q[i - Len(p)] = <<h.src, m + Len(p) + (i - Len(p)) - 1>>
      BY <3>1 DEF Run
    <3>3. m + Len(p) + (i - Len(p)) - 1 = m + i - 1
      BY <1>1
    <3>4. QED
      BY <1>1, <1>2, <2>2, <3>2, <3>3
  <2>3. QED
    BY <1>1, <2>1, <2>2
<1>4. QED
  BY <1>2, <1>3 DEF Run

LEMMA RunAppend ==
  ASSUME NEW p \in Seq(Units), NEW h, NEW m \in Int, Run(p, h, m),
         <<h.src, m + Len(p)>> \in Units
  PROVE  /\ Append(p, <<h.src, m + Len(p)>>) \in Seq(Units)
         /\ Len(Append(p, <<h.src, m + Len(p)>>)) = Len(p) + 1
         /\ Run(Append(p, <<h.src, m + Len(p)>>), h, m)
<1> DEFINE u == <<h.src, m + Len(p)>>
<1>1. Len(p) \in Nat
  BY LenProperties
<1>2. /\ Append(p, u) \in Seq(Units) /\ Len(Append(p, u)) = Len(p) + 1
      /\ \A i \in 1..Len(p) : Append(p, u)[i] = p[i]
      /\ Append(p, u)[Len(p) + 1] = u
  BY AppendProperties
<1>3. ASSUME NEW i \in 1..(Len(p) + 1) PROVE Append(p, u)[i] = <<h.src, m + i - 1>>
  <2>1. CASE i = Len(p) + 1
    BY <1>1, <1>2, <2>1
  <2>2. CASE i # Len(p) + 1
    <3>1. i \in 1..Len(p)
      BY <1>1, <2>2
    <3>2. QED
      BY <1>2, <3>1 DEF Run
  <2>3. QED
    BY <2>1, <2>2
<1> HIDE DEF u
<1>4. Run(Append(p, u), h, m)
  BY <1>2, <1>3 DEF Run
<1>5. QED
  BY <1>2, <1>4 DEF u

-----------------------------------------------------------------------------
(* Replay.                                                                 *)

(* How a replay of n units in all leaves the handler: drained, held by the *)
(* consumer, or dropped by its abort.                                      *)
Drained(n, complete) ==
  /\ Len(got') = n /\ backlog' = <<>> /\ replay' = "none"
  /\ paused' = FALSE /\ dpaused' = FALSE /\ UNCHANGED <<aborted, daborted>>
  /\ IF complete THEN Complete ELSE UNCHANGED <<outcome, gate, terminal>>

Held(n, complete) ==
  /\ Len(got') + Len(backlog') = n
  /\ replay' = IF complete THEN "complete" ELSE "live"
  /\ paused' = TRUE /\ dpaused' = TRUE /\ UNCHANGED <<aborted, daborted>>
  /\ UNCHANGED <<outcome, gate, terminal>>

Dropped ==
  /\ Aborts
  /\ paused' = FALSE /\ dpaused' = FALSE

Replayed(h, m, n, complete) ==
  /\ got' \in Seq(Units) /\ backlog' \in Seq(Units)
  /\ Run(got', h, m) /\ Run(backlog', h, m + Len(got'))
  /\ Drained(n, complete) \/ Held(n, complete) \/ Dropped

(* Whatever the consumer does in a replay, what it has got and what it has *)
(* still to get remain one run.                                            *)
LEMMA PumpIs ==
  ASSUME NEW q \in Seq(Units), NEW h, NEW m \in Int, NEW complete, got \in Seq(Units),
         Run(got, h, m), Run(q, h, m + Len(got)), PumpReplay(q, complete)
  PROVE  Replayed(h, m, Len(got) + Len(q), complete) /\ Len(got') >= Len(got)
<1>1. PICK n \in 0..Len(q) :
        /\ got' = got \o SubSeq(q, 1, n)
        /\ \/ /\ n = Len(q)
              /\ Accepts(FALSE)
              /\ replay' = "none" /\ backlog' = <<>>
              /\ IF complete THEN Complete ELSE UNCHANGED <<outcome, gate, terminal>>
           \/ /\ n > 0
              /\ Accepts(TRUE)
              /\ replay' = IF complete THEN "complete" ELSE "live"
              /\ backlog' = SubSeq(q, n + 1, Len(q))
              /\ UNCHANGED <<outcome, gate, terminal>>
           \/ Aborts /\ paused' = FALSE /\ dpaused' = FALSE
  BY DEF PumpReplay
<1>2. Len(got) \in Nat /\ Len(q) \in Nat /\ m + Len(got) \in Int
  BY LenProperties
<1>3. /\ SubSeq(q, 1, n) \in Seq(Units) /\ Len(SubSeq(q, 1, n)) = n
      /\ Run(SubSeq(q, 1, n), h, m + Len(got))
      /\ SubSeq(q, n + 1, Len(q)) \in Seq(Units)
      /\ Len(SubSeq(q, n + 1, Len(q))) = Len(q) - n
      /\ Run(SubSeq(q, n + 1, Len(q)), h, m + Len(got) + n)
  BY <1>2, RunSplit
<1>4. /\ got' \in Seq(Units) /\ Len(got') = Len(got) + n /\ Run(got', h, m)
      /\ Len(got') >= Len(got)
  <2>1. got' \in Seq(Units) /\ Len(got') = Len(got) + n /\ Run(got', h, m)
    BY <1>1, <1>2, <1>3, RunJoin
  <2>2. QED
    BY <1>2, <2>1
<1>5. m + Len(got) + n = m + Len(got')
  BY <1>2, <1>4
<1>6. <<>> \in Seq(Units) /\ Len(<<>>) = 0 /\ \A k : Run(<<>>, h, k)
  BY EmptySeq DEF Run
<1>7. CASE /\ n = Len(q) /\ Accepts(FALSE) /\ replay' = "none" /\ backlog' = <<>>
           /\ IF complete THEN Complete ELSE UNCHANGED <<outcome, gate, terminal>>
  BY <1>4, <1>6, <1>7 DEF Replayed, Drained, Accepts
<1>8. CASE /\ Accepts(TRUE) /\ replay' = (IF complete THEN "complete" ELSE "live")
           /\ backlog' = SubSeq(q, n + 1, Len(q))
           /\ UNCHANGED <<outcome, gate, terminal>>
  <2>1. backlog' \in Seq(Units) /\ Len(backlog') = Len(q) - n /\ Run(backlog', h, m + Len(got'))
    BY <1>3, <1>5, <1>8
  <2>2. Len(got') + Len(backlog') = Len(got) + Len(q)
    BY <1>2, <1>4, <2>1
  <2>3. QED
    BY <1>4, <1>8, <2>1, <2>2 DEF Replayed, Held, Accepts
<1>9. CASE Aborts /\ paused' = FALSE /\ dpaused' = FALSE
  BY <1>4, <1>6, <1>9 DEF Replayed, Dropped, Aborts
<1>10. QED
  BY <1>1, <1>7, <1>8, <1>9

LEMMA StartReplayIs ==
  ASSUME NEW q \in Seq(Units), Run(q, resp, 0), got = <<>>, NEW complete,
         StartReplay(q, complete)
  PROVE  /\ gate = "open" /\ headersSent' = TRUE /\ via' = "handler"
         /\ hdrs' = [src |-> resp.src, start |-> 0]
         /\ Replayed(resp, 0, Len(q), complete)
<1>1. /\ gate = "open" /\ headersSent' = TRUE /\ via' = "handler"
      /\ hdrs' = [src |-> resp.src, start |-> 0]
  BY DEF StartReplay
<1>2. <<>> \in Seq(Units) /\ Len(<<>>) = 0 /\ (\A h, k : Run(<<>>, h, k)) /\ Len(q) \in Nat
  BY EmptySeq, LenProperties DEF Run
<1>3. CASE PumpReplay(q, complete)
  <2>1. Replayed(resp, 0, Len(got) + Len(q), complete)
    BY <1>2, <1>3, PumpIs
  <2>2. QED
    BY <1>1, <1>2, <2>1
<1>4. CASE /\ Accepts(TRUE)
           /\ replay' = IF complete THEN "complete" ELSE "live"
           /\ backlog' = q
           /\ UNCHANGED <<got, outcome, gate, terminal>>
  <2>1. Run(backlog', resp, 0 + Len(got')) /\ Len(got') + Len(backlog') = Len(q)
    BY <1>2, <1>4
  <2>2. QED
    BY <1>1, <1>2, <1>4, <2>1 DEF Replayed, Held, Accepts
<1>5. CASE Aborts /\ paused' = FALSE /\ dpaused' = FALSE /\ UNCHANGED got
  BY <1>1, <1>2, <1>5 DEF Replayed, Dropped, Aborts
<1>6. QED
  BY <1>1, <1>3, <1>4, <1>5 DEF StartReplay

-----------------------------------------------------------------------------
(* The end of an exchange.                                                 *)

(* The consumer is told of an error, unless it has been.                   *)
Tells(err) ==
  /\ replay' = "none" /\ backlog' = <<>>
  /\ errorSent' = TRUE
  /\ IF errorSent
     THEN UNCHANGED <<outcome, gate, terminal>>
     ELSE /\ SettleStats(IF aborted THEN "aborted" ELSE "failed")
          /\ terminal' = IF gate = "closed" THEN terminal ELSE err
          /\ gate' = "closed"
  /\ MaybeAbort
  /\ UNCHANGED <<headersSent, paused, hdrs, via, got, dpaused, daborted>>

(* A buffered error response is replayed at the end of its attempt.        *)
Replays ==
  /\ ~aborted /\ ~headersSent /\ gate = "open"
  /\ headersSent' = TRUE /\ via' = "handler"
  /\ hdrs' = [src |-> resp.src, start |-> 0]
  /\ Replayed(resp, 0, Len(body), TRUE)
  /\ UNCHANGED errorSent

LEMMA MaybeErrorIs ==
  ASSUME RetryInv, NEW e \in ErrKinds, MaybeError(e)
  PROVE  \/ \E err \in {"error", "abort"} :
              /\ Tells(err)
              /\ e # "null" => err = e
         \/ e = "null" /\ Replays
<1>1. CASE e # "null"
  <2>1. Tells(e)
    BY <1>1 DEF MaybeError, Tells
  <2>2. QED
    BY <1>1, <2>1 DEF ErrKinds
<1>2. CASE e = "null" /\ aborted
  <2>1. Tells("abort")
    BY <1>2 DEF MaybeError, Tells
  <2>2. QED
    BY <1>2, <2>1
<1>3. CASE e = "null" /\ ~aborted /\ headersSent
  <2>1. Tells("error")
    BY <1>3 DEF MaybeError, Tells
  <2>2. QED
    BY <1>3, <2>1
<1>4. CASE e = "null" /\ ~aborted /\ ~headersSent
  <2>1. StartReplay(body, TRUE) /\ UNCHANGED errorSent
    BY <1>4 DEF MaybeError
  <2>2. body \in Seq(Units) /\ Run(body, resp, 0) /\ got = <<>>
    BY <1>4 DEF RetryInv, AttemptTypes, ExchangeInv, DeliveryInv
  <2>3. Replays
    BY <1>4, <2>1, <2>2, StartReplayIs DEF Replays
  <2>4. QED
    BY <1>4, <2>3
<1>5. QED
  BY <1>1, <1>2, <1>3, <1>4

(* After an error, of which no more than one is told.                      *)
LEMMA AfterTells ==
  ASSUME RetryInv, NEW err \in {"error", "abort"}, Tells(err),
         terminal # "complete", decisions' = {},
         \/ phase' = "done" /\ (body' = <<>> \/ (body' = body /\ resp' = resp))
         \/ phase' = "body" /\ tabort' /\ headersSent,
         retryCount' \in Nat, errorSent => retryCount' = retryCount,
         UNCHANGED <<pos, end, etag, connected>>
  PROVE  ExchangeInv' /\ EndTypes'
<1>1. /\ EndInv /\ DeliveryInv /\ PauseInv
      /\ EndTypes /\ AttemptTypes /\ WireTypes
  BY DEF RetryInv, ExchangeInv
<1>2. /\ replay' = "none" /\ backlog' = <<>> /\ errorSent' = TRUE
      /\ aborted' = (aborted \/ connected)
      /\ UNCHANGED <<headersSent, paused, hdrs, via, got, dpaused, daborted>>
  BY DEF Tells, MaybeAbort
<1>3. gate' = "closed" /\ terminal' \in {"error", "abort"}
  <2>1. CASE errorSent
    BY <1>1, <2>1 DEF Tells, EndInv
  <2>2. CASE ~errorSent
    BY <1>1, <2>2 DEF Tells, EndInv, EndTypes, AttemptTypes, WireTypes
  <2>3. QED
    BY <2>1, <2>2
<1>4. OutcomeMatchesEnd' /\ outcome' \in {"none", "recovered", "failed", "aborted"}
  <2>1. CASE errorSent
    BY <1>1, <1>3, <2>1 DEF Tells, EndInv, OutcomeMatchesEnd, EndTypes, AttemptTypes, WireTypes
  <2>2. CASE ~errorSent
    <3>1. outcome = "none" /\ (aborted => daborted)
      BY <1>1, <2>2 DEF EndInv, OutcomeMatchesEnd, EndTypes, AttemptTypes, WireTypes
    <3>2. outcome' = IF retryCount' = 0 THEN "none" ELSE IF aborted THEN "aborted" ELSE "failed"
      BY <2>2, <3>1 DEF Tells, SettleStats
    <3>3. QED
      BY <1>2, <1>3, <3>1, <3>2 DEF OutcomeMatchesEnd
  <2>3. QED
    BY <2>1, <2>2
<1>5. EndInv'
  BY <1>1, <1>2, <1>3, <1>4 DEF EndInv
<1>6. DeliveryInv'
  <2>1. \A h, k : Run(<<>>, h, k) /\ Len(<<>>) = 0
    BY EmptySeq DEF Run
  <2>2. headersSent => connected
    BY <1>1 DEF EndInv
  <2>3. QED
    BY <1>1, <1>2, <2>1, <2>2 DEF DeliveryInv, NoHeaders
<1>7. PauseInv' /\ WholeInv'
  BY <1>1, <1>2, <1>3 DEF PauseInv, WholeInv
<1>8. EndTypes'
  BY <1>1, <1>2, <1>3, <1>4, EmptySeq DEF EndTypes, AttemptTypes, WireTypes
<1>9. QED
  BY <1>5, <1>6, <1>7, <1>8 DEF ExchangeInv

(* After the replay of a buffered response.                                *)
LEMMA AfterReplays ==
  ASSUME RetryInv, Replays, connected, decisions' = {}, phase' = "done",
         body' = <<>>, retryCount' = retryCount,
         UNCHANGED <<pos, end, etag, connected>>
  PROVE  ExchangeInv' /\ EndTypes'
<1>1. EndInv /\ DeliveryInv /\ EndTypes /\ AttemptTypes /\ WireTypes
  BY DEF RetryInv, ExchangeInv
<1>2. /\ ~aborted /\ gate = "open" /\ headersSent' = TRUE /\ via' = "handler"
      /\ hdrs' = [src |-> resp.src, start |-> 0]
      /\ got' \in Seq(Units) /\ backlog' \in Seq(Units)
      /\ Run(got', resp, 0) /\ Run(backlog', resp, Len(got'))
      /\ errorSent' = errorSent /\ pos' = Null
  BY <1>1, LenProperties DEF Replays, Replayed, DeliveryInv
<1>3. Run(got', hdrs', hdrs'.start) /\ Run(backlog', hdrs', hdrs'.start + Len(got'))
  BY <1>2, LenProperties DEF Run
<1>4. /\ terminal = "none" /\ outcome = "none"
      /\ errorSent = FALSE /\ aborted = FALSE /\ daborted = FALSE
  BY <1>1, <1>2 DEF EndInv, OutcomeMatchesEnd, EndTypes, AttemptTypes, WireTypes
<1>5. \/ /\ replay' = "none" /\ backlog' = <<>> /\ paused' = FALSE /\ dpaused' = FALSE
         /\ aborted' = FALSE /\ daborted' = FALSE /\ gate' = "closed" /\ terminal' = "complete"
         /\ outcome' = IF retryCount = 0 THEN "none"
                       ELSE IF status # "err" THEN "recovered" ELSE "failed"
      \/ /\ replay' = "complete" /\ paused' = TRUE /\ dpaused' = TRUE
         /\ aborted' = FALSE /\ daborted' = FALSE /\ gate' = "open" /\ terminal' = "none"
         /\ outcome' = "none"
      \/ /\ replay' = "none" /\ backlog' = <<>> /\ paused' = FALSE /\ dpaused' = FALSE
         /\ aborted' = TRUE /\ daborted' = TRUE /\ gate' = "aborted" /\ terminal' = "none"
         /\ outcome' = "none"
  BY <1>2, <1>4 DEF Replays, Replayed, Drained, Held, Dropped, Aborts, Complete, SettleStats
<1>6. EndInv'
  BY <1>1, <1>2, <1>4, <1>5 DEF EndInv, OutcomeMatchesEnd
<1>7. DeliveryInv'
  BY <1>2, <1>3, <1>5 DEF DeliveryInv
<1>8. PauseInv' /\ WholeInv'
  BY <1>2, <1>5 DEF PauseInv, WholeInv
<1>9. EndTypes'
  <2>1. hdrs' \in [src : Sources, start : Nat \cup {Null}]
    BY <1>1, <1>2 DEF EndTypes, AttemptTypes, WireTypes
  <2>2. QED
    BY <1>1, <1>2, <1>4, <1>5, <2>1 DEF EndTypes, AttemptTypes, WireTypes
<1>10. QED
  BY <1>6, <1>7, <1>8, <1>9 DEF ExchangeInv

(* The end of an attempt that had not ended leads to a retry decision or   *)
(* to the end of the exchange.                                             *)
LEMMA EndOfAttempt ==
  ASSUME RetryInv, phase # "done", NEW e \in ErrKinds, e = "null" => connected,
         Terminates(MaybeRetry(e)), phase' = "done", retryCount' = retryCount,
         UNCHANGED <<pos, end, etag, connected, resp>>
  PROVE  /\ ExchangeInv' /\ EndTypes'
         /\ attemptTerminated' = TRUE /\ terminalCount' = terminalCount + 1
         /\ body' \in Seq(Units)
         /\ decisions' \in {{}, {[attempt |-> att, err |-> e]}}
<1>1. /\ EndInv /\ DeliveryInv /\ PauseInv /\ WholeInv
      /\ EndTypes /\ AttemptTypes /\ WireTypes
      /\ ~attemptTerminated /\ decisions = {}
  BY DEF RetryInv, ExchangeInv, AttemptInv
<1>2. /\ attemptTerminated' = TRUE /\ terminalCount' = terminalCount + 1
      /\ MaybeRetry(e) /\ body' = IF headersSent' THEN <<>> ELSE body
  BY <1>1 DEF Terminates
<1>3. body' \in Seq(Units)
  BY <1>1, <1>2, EmptySeq DEF EndTypes, AttemptTypes, WireTypes
<1>4. CASE CannotRetry
  <2>1. MaybeError(e) /\ decisions' = {}
    BY <1>1, <1>2, <1>4 DEF MaybeRetry
  <2>2. CASE \E err \in {"error", "abort"} : Tells(err)
    <3>1. PICK err \in {"error", "abort"} : Tells(err)
      BY <2>2
    <3>2. terminal # "complete" /\ retryCount' \in Nat
      BY <1>1 DEF EndInv, EndTypes, AttemptTypes, WireTypes, ConstantsAssumption
    <3>3. body' = <<>> \/ (body' = body /\ resp' = resp)
      BY <1>2
    <3>4. ExchangeInv' /\ EndTypes'
      BY <2>1, <3>1, <3>2, <3>3, AfterTells
    <3>5. QED
      BY <1>2, <1>3, <2>1, <3>4
  <2>3. CASE e = "null" /\ Replays
    <3>1. body' = <<>>
      BY <1>2, <2>3 DEF Replays
    <3>2. ExchangeInv' /\ EndTypes'
      BY <2>1, <2>3, <3>1, AfterReplays
    <3>3. QED
      BY <1>2, <1>3, <2>1, <3>2
  <2>4. QED
    BY <2>1, <2>2, <2>3, MaybeErrorIs
<1>5. CASE ~CannotRetry
  <2>1. /\ decisions' = {[attempt |-> att, err |-> e]}
        /\ UNCHANGED errorVars
    BY <1>1, <1>2, <1>5 DEF MaybeRetry
  <2>2. /\ ~aborted /\ (headersSent => pos # Null /\ (end # Null => end > 0))
        /\ (pos > 0 => etag # NoEtag)
    BY <1>1, <1>5 DEF CannotRetry, EndTypes, AttemptTypes, WireTypes, Null
  <2>3. terminal = "none"
    BY <1>1, <2>2 DEF EndInv, EndTypes, AttemptTypes, WireTypes
  <2>4. replay = "none"
    BY <1>1, <2>2 DEF DeliveryInv, EndTypes, AttemptTypes, WireTypes
  <2>5. EndInv'
    BY <1>1, <2>1, <2>2, <2>3, <2>4 DEF EndInv, OutcomeMatchesEnd, errorVars, flowVars
  <2>6. DeliveryInv'
    BY <1>1, <1>2, <2>1, <2>2, <2>4 DEF DeliveryInv, errorVars, flowVars
  <2>7. PauseInv' /\ WholeInv'
    BY <1>1, <2>1, <2>4 DEF PauseInv, WholeInv, errorVars, flowVars
  <2>8. EndTypes'
    BY <1>1, <2>1 DEF EndTypes, AttemptTypes, WireTypes, errorVars, flowVars
  <2>9. QED
    BY <1>2, <1>3, <2>1, <2>5, <2>6, <2>7, <2>8 DEF ExchangeInv
<1>6. QED
  BY <1>4, <1>5

-----------------------------------------------------------------------------
(* The transport's callbacks.                                              *)

LEMMA EmptyRun == <<>> \in Seq(Units) /\ Len(<<>>) = 0 /\ \A h, k : Run(<<>>, h, k)
BY EmptySeq DEF Run

LEMMA OnConnectKeeps ==
  ASSUME RetryInv, OnConnect
  PROVE  RetryInv'
<1>1. /\ EndInv /\ DeliveryInv /\ PauseInv /\ WholeInv /\ AttemptInv
      /\ EndTypes /\ AttemptTypes /\ WireTypes
      /\ phase = "dispatched" /\ phase' = "connected"
  BY DEF RetryInv, ExchangeInv, OnConnect
<1>2. terminal = "none" /\ decisions = {}
  BY <1>1 DEF EndInv, AttemptInv, EndTypes
<1>3. /\ attemptTerminated' = FALSE /\ status' = "none" /\ body' = <<>> /\ tabort' = aborted'
      /\ UNCHANGED <<terminalCount, errorSent, outcome, hdrs, via, got, dpaused,
                     terminal, att, resp, tpaused, promises,
                     headersSent, retryCount, decisions, bodyUsed>>
  BY DEF OnConnect, ResetAttempt, CarriesAbort
<1>4. AttemptInv'
  BY <1>1, <1>2, <1>3 DEF AttemptInv
<1>5. CASE headersSent
  <2>1. UNCHANGED <<pos, end, etag, resume, paused, replay, backlog, gate, aborted,
                   connected, daborted>>
    BY <1>5 DEF OnConnect, trackVars, flowVars
  <2>2. EndInv'
    BY <1>1, <1>2, <1>3, <1>5, <2>1 DEF EndInv, OutcomeMatchesEnd
  <2>3. DeliveryInv'
    BY <1>1, <1>2, <1>3, <1>5, <2>1, EmptyRun DEF DeliveryInv
  <2>4. PauseInv' /\ WholeInv'
    BY <1>1, <1>2, <1>3, <1>5, <2>1 DEF PauseInv, WholeInv
  <2>5. EndTypes'
    BY <1>1, <1>3, <2>1 DEF EndTypes
  <2>6. AttemptTypes'
    BY <1>1, <1>3, <2>1, EmptySeq DEF AttemptTypes
  <2>7. WireTypes'
    BY <1>1, <1>3, <2>1 DEF WireTypes, EndTypes
  <2>8. QED
    BY <1>4, <2>2, <2>3, <2>4, <2>5, <2>6, <2>7 DEF RetryInv, ExchangeInv
<1>6. CASE ~headersSent
  <2>1. /\ pos' = Null /\ end' = Null /\ etag' = NoEtag /\ resume' = 0
        /\ paused' = FALSE /\ replay' = "none" /\ backlog' = <<>>
        /\ connected' = TRUE
        /\ \E aborts \in BOOLEAN :
             /\ gate'     = IF aborts THEN "aborted" ELSE "open"
             /\ aborted'  = (aborted \/ aborts)
             /\ daborted' = (daborted \/ aborts)
    BY <1>6 DEF OnConnect
  <2>2. EndInv'
    BY <1>1, <1>2, <1>3, <1>6, <2>1 DEF EndInv, OutcomeMatchesEnd
  <2>3. DeliveryInv'
    BY <1>1, <1>2, <1>3, <1>6, <2>1, EmptyRun DEF DeliveryInv
  <2>4. PauseInv' /\ WholeInv'
    BY <1>1, <1>2, <1>3, <1>6, <2>1 DEF PauseInv, WholeInv, DeliveryInv
  <2>5. EndTypes'
    <3>1. /\ aborted' \in BOOLEAN /\ daborted' \in BOOLEAN /\ gate' \in {"open", "aborted"}
          /\ backlog' \in Seq(Units) /\ paused' = FALSE /\ replay' = "none"
      BY <1>1, <2>1, EmptySeq DEF EndTypes
    <3>2. /\ headersSent' \in BOOLEAN /\ errorSent' \in BOOLEAN /\ dpaused' \in BOOLEAN
          /\ got' \in Seq(Units) /\ hdrs' \in [src : Sources, start : Nat \cup {Null}]
          /\ via' \in {"none", "raw", "handler"}
          /\ outcome' \in {"none", "recovered", "failed", "aborted"}
          /\ terminal' \in {"none", "complete", "error", "abort"}
      BY <1>1, <1>3 DEF EndTypes
    <3>3. QED
      BY <3>1, <3>2 DEF EndTypes
  <2>6. AttemptTypes' /\ WireTypes'
    BY <1>1, <1>3, <2>1, <2>5, EmptySeq DEF AttemptTypes, WireTypes, EndTypes
  <2>7. QED
    BY <1>4, <2>2, <2>3, <2>4, <2>5, <2>6 DEF RetryInv, ExchangeInv
<1>7. QED
  BY <1>5, <1>6

LEMMA OnInformationalKeeps ==
  ASSUME RetryInv, OnInformational
  PROVE  RetryInv'
<1>1. /\ status' = "info"
      /\ UNCHANGED <<body, attemptTerminated, terminalCount, trackVars, flowVars,
                     finalVars, downVars, wireVars,
                     headersSent, retryCount, decisions, bodyUsed>>
      /\ phase = "connected"
  BY DEF OnInformational, Responding
<1>2. AttemptInv' /\ EndInv'
  BY <1>1 DEF RetryInv, ExchangeInv, AttemptInv, EndInv, OutcomeMatchesEnd,
              flowVars, finalVars, downVars, wireVars
<1>3. DeliveryInv'
  BY <1>1 DEF RetryInv, ExchangeInv, DeliveryInv,
              flowVars, finalVars, downVars, wireVars, trackVars
<1>4. PauseInv' /\ WholeInv'
  BY <1>1 DEF RetryInv, ExchangeInv, PauseInv, WholeInv,
              flowVars, finalVars, downVars, wireVars, trackVars
<1>5. EndTypes' /\ AttemptTypes' /\ WireTypes'
  BY <1>1 DEF RetryInv, EndTypes, AttemptTypes, WireTypes,
              flowVars, finalVars, downVars, wireVars, trackVars
<1>6. QED
  BY <1>2, <1>3, <1>4, <1>5 DEF RetryInv, ExchangeInv

(* After the headers of a first response were forwarded.                   *)
LEMMA AfterForward ==
  ASSUME RetryInv, Responding, ~headersSent,
         NEW start \in Nat, NEW through \in {"handler", "raw"},
         ForwardHeaders(start, through), phase' = "body",
         resp'.src \in Sources, resp'.next = start,
         \/ pos' = Null
         \/ /\ through = "handler" /\ pos' = start
            /\ etag' \in {NoEtag, resp'.src} /\ end' \in {Null, resp'.stop},
         UNCHANGED <<headersFrame, errorSent>>
  PROVE  /\ AttemptInv' /\ ExchangeInv' /\ EndTypes'
         /\ tpaused' \in BOOLEAN /\ tabort' \in BOOLEAN
<1>1. /\ EndInv /\ DeliveryInv /\ PauseInv /\ WholeInv /\ AttemptInv
      /\ EndTypes /\ WireTypes /\ phase = "connected" /\ ~tabort
      /\ UNCHANGED <<attemptTerminated, terminalCount, outcome, connected, got,
                    terminal, att, promises, retryCount, decisions, bodyUsed, errorSent>>
  BY DEF RetryInv, ExchangeInv, Responding, headersFrame
<1>2. PICK reply \in Replies :
        /\ Answered(reply)
        /\ paused' = IF through = "handler" THEN reply = "pause" ELSE paused
  BY DEF ForwardHeaders
<1>3. /\ gate = "open" /\ headersSent' = TRUE /\ via' = through
      /\ hdrs' = [src |-> resp'.src, start |-> start]
  BY DEF ForwardHeaders
<1>4. terminal = "none" /\ decisions = {} /\ ~aborted /\ ~daborted /\ ~errorSent
  BY <1>1, <1>3 DEF EndInv, AttemptInv, EndTypes
<1>5. got = <<>> /\ replay = "none" /\ backlog = <<>> /\ replay' = "none" /\ backlog' = <<>>
  BY <1>1, <1>2 DEF DeliveryInv, Answered
<1>6. AttemptInv'
  BY <1>1 DEF AttemptInv
<1>7. EndInv'
  <2>1. OutcomeMatchesEnd'
    BY <1>1, <1>2, <1>4 DEF EndInv, Answered, OutcomeMatchesEnd
  <2>2. /\ aborted' <=> reply = "abort"
        /\ daborted' <=> reply = "abort"
        /\ tabort' <=> reply = "abort"
        /\ gate' = IF reply = "abort" THEN "aborted" ELSE "open"
    BY <1>1, <1>2, <1>3, <1>4 DEF Answered
  <2>3. connected' /\ terminal' = "none" /\ decisions' = {} /\ ~errorSent'
    BY <1>1, <1>4 DEF EndInv
  <2>4. QED
    BY <1>5, <2>1, <2>2, <2>3 DEF EndInv
<1>8. DeliveryInv'
  BY <1>1, <1>2, <1>3, <1>4, <1>5, EmptyRun DEF DeliveryInv, Answered
<1>9. PauseInv' /\ WholeInv'
  BY <1>1, <1>2, <1>3, <1>4, <1>5 DEF PauseInv, WholeInv, Answered
<1>10. hdrs' \in [src : Sources, start : Nat \cup {Null}]
  BY <1>3
<1>11. EndTypes'
  BY <1>1, <1>2, <1>3, <1>5, <1>10, EmptySeq DEF EndTypes, Answered
<1>12. tpaused' \in BOOLEAN /\ tabort' \in BOOLEAN
  BY <1>1, <1>2 DEF WireTypes, Answered
<1>13. QED
  BY <1>6, <1>7, <1>8, <1>9, <1>11, <1>12 DEF ExchangeInv

LEMMA OnTrackedHeadersKeeps ==
  ASSUME RetryInv, OnTrackedHeaders
  PROVE  RetryInv'
<1>1. PICK rep \in Reps : \E strong, sized \in BOOLEAN, first, last \in 0..Length[rep] :
         /\ \/ first = 0 /\ last = Length[rep] /\ end' = (IF sized THEN last ELSE Null)
            \/ first < last /\ sized /\ end' = last
         /\ etag' = IF strong THEN rep ELSE NoEtag
         /\ pos' = first
         /\ Receive([kind |-> "tracked", src |-> rep, etag |-> etag',
                     next |-> first, stop |-> last], "ok")
         /\ ForwardHeaders(first, "handler")
  BY DEF OnTrackedHeaders
<1>2. PICK strong \in BOOLEAN, sized \in BOOLEAN, first \in 0..Length[rep], last \in 0..Length[rep] :
         /\ \/ first = 0 /\ last = Length[rep] /\ end' = (IF sized THEN last ELSE Null)
            \/ first < last /\ sized /\ end' = last
         /\ etag' = IF strong THEN rep ELSE NoEtag
         /\ pos' = first
         /\ Receive([kind |-> "tracked", src |-> rep, etag |-> etag',
                     next |-> first, stop |-> last], "ok")
         /\ ForwardHeaders(first, "handler")
  BY <1>1
<1>3. Length[rep] \in Nat
  BY ConstantsAssumption
<1>4. first \in Nat /\ last \in Nat /\ rep \in Sources
  BY <1>3 DEF Sources
<1>5. /\ phase' = "body" /\ status' = "ok" /\ resume' = att
      /\ resp' = [kind |-> "tracked", src |-> rep, etag |-> etag', next |-> first, stop |-> last]
      /\ UNCHANGED <<body, errorSent, headersFrame>>
      /\ Responding /\ ~headersSent
  BY <1>2 DEF OnTrackedHeaders, Receive
<1>6. /\ etag' \in {NoEtag, resp'.src} /\ end' \in {Null, resp'.stop}
      /\ resp'.src \in Sources /\ resp'.next = first
  BY <1>2, <1>4, <1>5
<1>7. AttemptInv' /\ ExchangeInv' /\ EndTypes' /\ tpaused' \in BOOLEAN /\ tabort' \in BOOLEAN
  BY <1>2, <1>4, <1>5, <1>6, AfterForward
<1>8. AttemptTypes'
  BY <1>2, <1>4, <1>5 DEF AttemptTypes, WireTypes, headersFrame, RetryInv
<1>9. resp' \in [kind : RespKinds, src : Sources, etag : Reps \cup {NoEtag}, next : Nat, stop : Nat]
  BY <1>2, <1>4, <1>5 DEF RespKinds
<1>10. WireTypes'
  BY <1>5, <1>7, <1>9 DEF WireTypes, headersFrame, RetryInv
<1>11. QED
  BY <1>7, <1>8, <1>10 DEF RetryInv

LEMMA OnUntrackedHeadersKeeps ==
  ASSUME RetryInv, OnUntrackedHeaders
  PROVE  RetryInv'
<1>1. PICK rep \in Reps, class \in {"ok", "err"} :
       /\ Receive([kind |-> "untracked", src |-> rep, etag |-> NoEtag,
                   next |-> 0, stop |-> Length[rep]], class)
       /\ ForwardHeaders(0, "raw")
  BY DEF OnUntrackedHeaders
<1>2. Length[rep] \in Nat /\ rep \in Sources
  BY ConstantsAssumption DEF Sources
<1>3. /\ phase' = "body" /\ status' \in {"ok", "err"}
      /\ resp' = [kind |-> "untracked", src |-> rep, etag |-> NoEtag,
                  next |-> 0, stop |-> Length[rep]]
      /\ UNCHANGED <<body, pos, end, etag, resume, errorSent, headersFrame>>
      /\ Responding /\ ~headersSent
  BY <1>1 DEF OnUntrackedHeaders, Receive, trackVars
<1>4. resp'.src \in Sources /\ resp'.next = 0 /\ pos' = Null
  BY <1>2, <1>3 DEF RetryInv, ExchangeInv, DeliveryInv
<1>5. AttemptInv' /\ ExchangeInv' /\ EndTypes' /\ tpaused' \in BOOLEAN /\ tabort' \in BOOLEAN
  BY <1>1, <1>3, <1>4, AfterForward
<1>6. AttemptTypes'
  BY <1>3 DEF AttemptTypes, headersFrame, RetryInv
<1>7. resp' \in [kind : RespKinds, src : Sources, etag : Reps \cup {NoEtag}, next : Nat, stop : Nat]
  BY <1>2, <1>3 DEF RespKinds
<1>8. WireTypes'
  BY <1>3, <1>5, <1>7 DEF WireTypes, headersFrame, RetryInv
<1>9. QED
  BY <1>5, <1>6, <1>8 DEF RetryInv

LEMMA OnErrorHeadersKeeps ==
  ASSUME RetryInv, OnErrorHeaders
  PROVE  RetryInv'
<1>1. PICK size \in 0..(Cap + 1) :
       Receive([kind |-> "error", src |-> att, etag |-> NoEtag,
                next |-> 0, stop |-> size], "err")
  BY DEF OnErrorHeaders
<1>2. /\ EndInv /\ DeliveryInv /\ PauseInv /\ WholeInv /\ AttemptInv
      /\ EndTypes /\ AttemptTypes /\ WireTypes
      /\ ~headersSent /\ phase = "connected" /\ ~tabort
  BY DEF RetryInv, ExchangeInv, OnErrorHeaders, Responding
<1>3. /\ phase' = "body" /\ status' = "err" /\ body' = <<>> /\ resume' = att
      /\ resp' = [kind |-> "error", src |-> att, etag |-> NoEtag, next |-> 0, stop |-> size]
      /\ UNCHANGED <<pos, end, etag, paused, replay, backlog, errorSent, aborted, outcome, gate,
                    hdrs, via, dpaused, daborted, tpaused, tabort, headersSent,
                    attemptTerminated, terminalCount, connected, got,
                    terminal, att, promises, retryCount, decisions, bodyUsed>>
  BY <1>1 DEF OnErrorHeaders, Receive, flowVars, finalVars, headersFrame
<1>4. resp' \in [kind : RespKinds, src : Sources, etag : Reps \cup {NoEtag}, next : Nat, stop : Nat]
  <2>1. att \in Sources /\ size \in Nat
    BY <1>2, ConstantsAssumption DEF WireTypes, Sources
  <2>2. QED
    BY <1>3, <2>1 DEF RespKinds
<1>5. AttemptInv'
  BY <1>2, <1>3 DEF AttemptInv
<1>6. EndInv'
  BY <1>2, <1>3 DEF EndInv, OutcomeMatchesEnd
<1>7. DeliveryInv'
  BY <1>2, <1>3, EmptyRun DEF DeliveryInv
<1>8. PauseInv' /\ WholeInv'
  BY <1>2, <1>3 DEF PauseInv, WholeInv, DeliveryInv
<1>9. EndTypes'
  BY <1>2, <1>3 DEF EndTypes
<1>10. AttemptTypes'
  BY <1>2, <1>3, EmptySeq DEF AttemptTypes, WireTypes
<1>11. WireTypes'
  BY <1>2, <1>3, <1>4 DEF WireTypes
<1>12. QED
  BY <1>5, <1>6, <1>7, <1>8, <1>9, <1>10, <1>11 DEF RetryInv, ExchangeInv

LEMMA OnResumeHeadersKeeps ==
  ASSUME RetryInv, OnResumeHeaders
  PROVE  RetryInv'
<1> DEFINE R(rep, kind, strong, first, last) ==
      [kind |-> kind, src |-> rep, etag |-> IF strong THEN rep ELSE NoEtag,
       next |-> first, stop |-> last]
    Resumes(rep, kind, strong, sized, first, last) ==
      /\ IF kind = "200" THEN first = 0 /\ last = Length[rep] ELSE first < last
      /\ Continues(R(rep, kind, strong, first, last), sized)
      /\ Receive(R(rep, kind, strong, first, last), "ok")
      /\ end' = IF kind = "200" THEN (IF sized THEN last ELSE Null) ELSE end
<1>1. PICK rep \in Reps, kind \in {"200", "206"} :
        \E strong, sized \in BOOLEAN, first, last \in 0..Length[rep] :
          Resumes(rep, kind, strong, sized, first, last)
  BY DEF OnResumeHeaders
<1>2. PICK strong \in BOOLEAN, sized \in BOOLEAN, first \in 0..Length[rep], last \in 0..Length[rep] :
        Resumes(rep, kind, strong, sized, first, last)
  BY <1>1
<1>3. /\ EndInv /\ DeliveryInv /\ PauseInv /\ WholeInv /\ AttemptInv
      /\ EndTypes /\ AttemptTypes /\ WireTypes
      /\ headersSent /\ phase = "connected" /\ ~tabort
  BY DEF RetryInv, ExchangeInv, OnResumeHeaders, Responding
<1>4. /\ phase' = "body" /\ status' = "ok" /\ resume' = att /\ tpaused' = paused
      /\ resp' = R(rep, kind, strong, first, last)
      /\ UNCHANGED <<body, pos, etag, paused, replay, backlog, errorSent, aborted, outcome, gate,
                    hdrs, via, dpaused, daborted, tabort, headersSent,
                    attemptTerminated, terminalCount, connected, got,
                    terminal, att, promises, retryCount, decisions, bodyUsed>>
  BY <1>2 DEF OnResumeHeaders, Receive, flowVars, finalVars, headersFrame, HoldsResumed
<1>5. ~aborted /\ ~errorSent /\ terminal = "none" /\ pos # Null
  BY <1>3 DEF EndInv, DeliveryInv, EndTypes
<1>6. /\ via = "handler" /\ replay = "none" /\ backlog = <<>> /\ pos = hdrs.start + Len(got)
      /\ etag \in {NoEtag, hdrs.src}
  BY <1>3, <1>5 DEF DeliveryInv
<1>7. /\ first \in Nat /\ last \in Nat /\ rep \in Sources
      /\ etag # NoEtag /\ etag = resp'.etag /\ resp'.src = rep
      /\ resp'.next = first /\ resp'.stop = last
      /\ pos = first
      /\ end' \in {Null, last}
  BY <1>2, <1>4, ConstantsAssumption DEF Continues, Sources
<1>8. resp'.src = hdrs.src
  BY <1>2, <1>4, <1>6, <1>7
<1>9. resp' \in [kind : RespKinds, src : Sources, etag : Reps \cup {NoEtag}, next : Nat, stop : Nat]
  BY <1>4, <1>7 DEF RespKinds
<1> HIDE DEF R
<1>10. AttemptInv'
  BY <1>3, <1>4 DEF AttemptInv
<1>11. EndInv'
  BY <1>3, <1>4, <1>5 DEF EndInv, OutcomeMatchesEnd
<1>12. DeliveryInv'
  <2>1. Len(got) \in Nat /\ Len(backlog) = 0 /\ hdrs.start \in Nat
    BY <1>3, <1>6, LenProperties, EmptyRun DEF EndTypes, DeliveryInv
  <2>2. resp'.next = hdrs.start + Len(got) + Len(backlog)
    BY <1>6, <1>7, <2>1
  <2>3. QED
    BY <1>3, <1>4, <1>5, <1>6, <1>7, <1>8, <2>2 DEF DeliveryInv, AttemptInv
<1>13. PauseInv' /\ WholeInv'
  BY <1>3, <1>4, <1>5, <1>6 DEF PauseInv, WholeInv
<1>14. EndTypes'
  BY <1>3, <1>4 DEF EndTypes
<1>15. AttemptTypes'
  BY <1>3, <1>4, <1>7 DEF AttemptTypes, WireTypes
<1>16. WireTypes'
  BY <1>3, <1>4, <1>9 DEF WireTypes, EndTypes
<1>17. QED
  BY <1>10, <1>11, <1>12, <1>13, <1>14, <1>15, <1>16 DEF RetryInv, ExchangeInv

LEMMA OnDeclinedHeadersKeeps ==
  ASSUME RetryInv, OnDeclinedHeaders
  PROVE  RetryInv'
<1>1. PICK class \in {"ok", "err"}, e \in {"error", "null"} :
       /\ Receive([NoResponse EXCEPT !.kind = "declined"], class)
       /\ MaybeError(e)
  BY DEF OnDeclinedHeaders
<1>2. /\ EndInv /\ AttemptInv /\ AttemptTypes /\ WireTypes /\ EndTypes
      /\ headersSent /\ phase = "connected" /\ ~tabort
  BY DEF RetryInv, ExchangeInv, OnDeclinedHeaders, Responding
<1>3. ~aborted /\ terminal # "complete" /\ decisions = {}
  BY <1>2 DEF EndInv, AttemptInv
<1>4. /\ phase' = "body" /\ status' = class /\ tpaused' = TRUE /\ tabort' = TRUE
      /\ resp' = [NoResponse EXCEPT !.kind = "declined"]
      /\ UNCHANGED <<attemptTerminated, terminalCount, body, pos, end, etag, resume,
                    connected, att, promises, decisions, bodyUsed, retryCount>>
  BY <1>1, <1>2, <1>3 DEF OnDeclinedHeaders, Receive, trackVars, EndTypes, WireTypes
<1>5. PICK err \in {"error", "abort"} : Tells(err)
  BY <1>1, <1>2, MaybeErrorIs DEF Replays, ErrKinds
<1>6. decisions' = {} /\ retryCount' \in Nat
  BY <1>2, <1>3, <1>4, ConstantsAssumption DEF AttemptTypes
<1>7. ExchangeInv' /\ EndTypes'
  BY <1>2, <1>3, <1>4, <1>5, <1>6, AfterTells
<1>8. AttemptInv'
  BY <1>2, <1>3, <1>4 DEF AttemptInv
<1>9. AttemptTypes'
  BY <1>2, <1>4 DEF AttemptTypes
<1>10. resp' \in [kind : RespKinds, src : Sources, etag : Reps \cup {NoEtag}, next : Nat, stop : Nat]
  BY <1>4 DEF RespKinds, NoResponse, Sources
<1>11. WireTypes'
  BY <1>2, <1>4, <1>10 DEF WireTypes
<1>12. QED
  BY <1>7, <1>8, <1>9, <1>11 DEF RetryInv

LEMMA OnDataKeeps ==
  ASSUME RetryInv, OnData
  PROVE  RetryInv'
<1> DEFINE unit == <<resp.src, resp.next>>
<1>1. /\ EndInv /\ DeliveryInv /\ PauseInv /\ WholeInv /\ AttemptInv
      /\ EndTypes /\ AttemptTypes /\ WireTypes
      /\ phase = "body" /\ ~tpaused /\ ~tabort
  BY DEF RetryInv, ExchangeInv, OnData
<1>2. /\ pos' = (IF pos = Null THEN Null ELSE pos + 1)
      /\ resp' = [resp EXCEPT !.next = @ + 1]
      /\ UNCHANGED <<status, attemptTerminated, terminalCount, end, etag, resume,
                    errorSent, connected, att, phase, promises,
                    retryCount, decisions, bodyUsed>>
  BY DEF OnData
<1>3. /\ ~aborted /\ ~errorSent /\ terminal = "none" /\ decisions = {} /\ connected
      /\ ~daborted
      /\ replay = "none" /\ backlog = <<>>
  BY <1>1 DEF EndInv, DeliveryInv, PauseInv, AttemptInv, EndTypes
<1>4. /\ resp' \in [kind : RespKinds, src : Sources, etag : Reps \cup {NoEtag}, next : Nat, stop : Nat]
      /\ resp'.src = resp.src /\ resp'.next = resp.next + 1 /\ resp'.stop = resp.stop
      /\ resp.next \in Nat /\ unit \in Units
  BY <1>1, <1>2 DEF WireTypes, Units
<1>5. AttemptInv'
  BY <1>1, <1>2 DEF AttemptInv
<1>6. body' \in Seq(Units) => AttemptTypes'
  <2>1. pos' \in Nat \cup {Null}
    BY <1>1, <1>2 DEF AttemptTypes
  <2>2. QED
    BY <1>1, <1>2, <2>1 DEF AttemptTypes
<1>7. tpaused' \in BOOLEAN /\ tabort' \in BOOLEAN => WireTypes'
  BY <1>1, <1>2, <1>4 DEF WireTypes
<1>8. CASE headersSent
  <2>1. PICK reply \in Replies :
          /\ Answered(reply)
          /\ paused' = IF reply = "abort" THEN paused ELSE reply = "pause"
    BY <1>1, <1>3, <1>8 DEF OnData
  <2>2. /\ gate = "open" /\ got' = Append(got, unit)
        /\ UNCHANGED <<body, headersSent, hdrs, via, outcome, terminal>>
    BY <1>1, <1>3, <1>8 DEF OnData
  <2>3. /\ hdrs.start \in Nat /\ Run(got, hdrs, hdrs.start) /\ got \in Seq(Units)
        /\ resp.src = hdrs.src /\ resp.next = hdrs.start + Len(got) + 0
        /\ Len(got) \in Nat
    BY <1>1, <1>3, <1>8, EmptyRun, LenProperties DEF DeliveryInv, EndTypes
  <2>4. unit = <<hdrs.src, hdrs.start + Len(got)>>
    BY <2>3
  <2>5. got' \in Seq(Units) /\ Len(got') = Len(got) + 1 /\ Run(got', hdrs', hdrs'.start)
    BY <1>4, <2>2, <2>3, <2>4, RunAppend
  <2>6. /\ aborted' <=> reply = "abort"
        /\ daborted' <=> reply = "abort"
        /\ tabort' <=> reply = "abort"
        /\ gate' = IF reply = "abort" THEN "aborted" ELSE "open"
        /\ replay' = "none" /\ backlog' = <<>>
        /\ dpaused' = (reply = "pause") /\ tpaused' = (reply = "pause")
    BY <1>1, <1>3, <2>1, <2>2 DEF Answered
  <2>7. EndInv'
    <3>1. OutcomeMatchesEnd'
      BY <1>1, <1>2, <1>3, <2>2 DEF EndInv, OutcomeMatchesEnd
    <3>2. QED
      BY <1>2, <1>3, <2>2, <2>6, <3>1 DEF EndInv
  <2>8. DeliveryInv'
    <3>1. headersSent' /\ Run(backlog', hdrs', hdrs'.start + Len(got')) /\ Len(backlog') = 0
      BY <1>8, <2>2, <2>6, EmptyRun
    <3>2. resp'.next = hdrs'.start + Len(got') + Len(backlog')
      BY <1>4, <2>2, <2>3, <2>5, <3>1
    <3>3. pos' # Null => /\ pos # Null /\ pos' = hdrs'.start + Len(got')
      <4>1. pos # Null => pos = hdrs.start + Len(got)
        BY <1>1, <1>8 DEF DeliveryInv
      <4>2. pos # Null => pos + 1 = hdrs.start + (Len(got) + 1)
        BY <2>3, <4>1
      <4>3. QED
        BY <1>2, <2>2, <2>5, <4>2
    <3>4. QED
      BY <1>1, <1>2, <1>3, <1>4, <1>8, <2>2, <2>3, <2>5, <2>6, <3>1, <3>2, <3>3 DEF DeliveryInv
  <2>9. PauseInv' /\ WholeInv'
    BY <1>2, <1>3, <2>1, <2>2, <2>6 DEF PauseInv, WholeInv
  <2>10. EndTypes' /\ tpaused' \in BOOLEAN /\ tabort' \in BOOLEAN
    <3>1. aborted' \in BOOLEAN /\ daborted' \in BOOLEAN /\ tabort' \in BOOLEAN /\ tpaused' \in BOOLEAN
      BY <1>1, <2>1 DEF Answered, EndTypes, WireTypes
    <3>2. /\ paused' \in BOOLEAN /\ dpaused' \in BOOLEAN /\ backlog' \in Seq(Units)
          /\ gate' \in {"open", "aborted"} /\ replay' = "none"
      BY <1>1, <2>1, <2>6, EmptySeq DEF EndTypes
    <3>3. QED
      BY <1>1, <1>2, <2>2, <2>5, <3>1, <3>2 DEF EndTypes
  <2>11. body' \in Seq(Units)
    BY <1>1, <2>2 DEF AttemptTypes
  <2>12. QED
    BY <1>5, <1>6, <1>7, <2>7, <2>8, <2>9, <2>10, <2>11 DEF RetryInv, ExchangeInv
<1>9. CASE ~headersSent
  <2>1. /\ status = "err" /\ Len(body) = resp.next /\ Run(body, resp, 0) /\ got = <<>>
        /\ pos = Null /\ body \in Seq(Units)
    BY <1>1, <1>9 DEF DeliveryInv, AttemptTypes
  <2>2. /\ Append(body, unit) \in Seq(Units) /\ Len(Append(body, unit)) = resp.next + 1
        /\ Run(Append(body, unit), resp, 0)
    <3>1. unit = <<resp.src, 0 + Len(body)>>
      BY <1>4, <2>1
    <3>2. QED
      BY <1>4, <2>1, <3>1, RunAppend
  <2>3. Run(Append(body, unit), resp', 0)
    BY <1>4, <2>2 DEF Run
  <2>4. CASE Len(body) < Cap
    <3>1. /\ body' = Append(body, unit)
          /\ UNCHANGED <<headersSent, paused, replay, backlog, aborted, outcome, gate, hdrs,
                        via, got, dpaused, daborted, terminal, tpaused, tabort>>
      BY <1>9, <2>1, <2>4 DEF OnData, flowVars
    <3>2. EndInv'
      BY <1>1, <1>2, <3>1 DEF EndInv, OutcomeMatchesEnd
    <3>3. DeliveryInv'
      BY <1>1, <1>2, <1>4, <1>9, <2>1, <2>2, <2>3, <3>1 DEF DeliveryInv
    <3>4. PauseInv' /\ WholeInv'
      BY <1>1, <1>2, <1>3, <3>1 DEF PauseInv, WholeInv
    <3>5. EndTypes' /\ tpaused' \in BOOLEAN /\ tabort' \in BOOLEAN
      BY <1>1, <1>2, <3>1 DEF EndTypes, WireTypes
    <3>6. QED
      BY <1>5, <1>6, <1>7, <2>2, <3>1, <3>2, <3>3, <3>4, <3>5 DEF RetryInv, ExchangeInv
  <2>5. CASE ~(Len(body) < Cap)
    <3>1. /\ StartReplay(Append(body, unit), FALSE) /\ body' = <<>>
          /\ tpaused' = dpaused' /\ tabort' = (tabort \/ daborted')
      BY <1>9, <2>1, <2>5 DEF OnData
    <3>2. /\ gate = "open" /\ headersSent' = TRUE /\ via' = "handler"
          /\ hdrs' = [src |-> resp.src, start |-> 0]
          /\ Replayed(resp, 0, Len(Append(body, unit)), FALSE)
      BY <2>1, <2>2, <3>1, StartReplayIs
    <3>3. /\ got' \in Seq(Units) /\ backlog' \in Seq(Units)
          /\ Run(got', hdrs', hdrs'.start) /\ Run(backlog', hdrs', hdrs'.start + Len(got'))
          /\ Len(got') \in Nat /\ Len(backlog') \in Nat
      BY <3>2, LenProperties DEF Replayed, Run
    <3>4. /\ outcome' = outcome /\ terminal' = "none"
          /\ \/ /\ replay' = "none" /\ backlog' = <<>> /\ paused' = FALSE /\ dpaused' = FALSE
                /\ ~aborted' /\ ~daborted' /\ gate' = "open"
                /\ Len(got') = resp.next + 1
             \/ /\ replay' = "live" /\ paused' = TRUE /\ dpaused' = TRUE
                /\ ~aborted' /\ ~daborted' /\ gate' = "open"
                /\ Len(got') + Len(backlog') = resp.next + 1
             \/ /\ replay' = "none" /\ backlog' = <<>> /\ paused' = FALSE /\ dpaused' = FALSE
                /\ aborted' = TRUE /\ daborted' = TRUE /\ gate' = "aborted"
      BY <1>3, <2>2, <3>2 DEF Replayed, Drained, Held, Dropped, Aborts
    <3>5. EndInv'
      <4>1. OutcomeMatchesEnd'
        BY <1>1, <1>2, <1>3, <3>4 DEF EndInv, OutcomeMatchesEnd
      <4>2. QED
        BY <1>2, <1>3, <3>1, <3>2, <3>4, <4>1 DEF EndInv
    <3>6. DeliveryInv'
      <4>1. ~aborted' => resp'.next = 0 + Len(got') + Len(backlog')
        BY <1>4, <3>3, <3>4, EmptyRun
      <4>2. pos' = Null /\ hdrs'.start = 0 /\ hdrs'.src = resp'.src /\ decisions' = {}
        BY <1>2, <1>3, <1>4, <2>1, <3>2
      <4>3. QED
        BY <1>1, <1>2, <3>2, <3>3, <3>4, <4>1, <4>2 DEF DeliveryInv
    <3>7. PauseInv' /\ WholeInv'
      BY <1>1, <1>2, <3>1, <3>4 DEF PauseInv, WholeInv
    <3>8. hdrs' \in [src : Sources, start : Nat \cup {Null}]
      BY <1>1, <3>2 DEF WireTypes
    <3>9. aborted' \in BOOLEAN /\ daborted' \in BOOLEAN
      BY <1>1, <3>2 DEF EndTypes, Replayed, Drained, Held, Dropped, Aborts
    <3>10. EndTypes'
      BY <1>1, <1>2, <3>2, <3>3, <3>4, <3>8, <3>9 DEF EndTypes
    <3>11. tpaused' \in BOOLEAN /\ tabort' \in BOOLEAN /\ body' \in Seq(Units)
      BY <1>1, <3>1, <3>4, <3>9, EmptySeq DEF WireTypes
    <3>12. QED
      BY <1>5, <1>6, <1>7, <3>5, <3>6, <3>7, <3>10, <3>11 DEF RetryInv, ExchangeInv
  <2>6. QED
    BY <2>4, <2>5
<1>10. QED
  BY <1>8, <1>9

-----------------------------------------------------------------------------
(* The end of an attempt.                                                  *)

LEMMA AttemptEnds ==
  ASSUME RetryInv, phase # "done", NEW e \in ErrKinds, e = "null" => connected,
         Terminates(MaybeRetry(e)), phase' = "done", retryCount' = retryCount,
         promises' \subseteq promises, UNCHANGED terminalFrame
  PROVE  RetryInv'
<1>1. /\ AttemptInv /\ AttemptTypes /\ WireTypes
  BY DEF RetryInv
<1>2. UNCHANGED <<status, pos, end, etag, resume, connected, att, resp, tpaused, tabort, bodyUsed>>
  BY DEF terminalFrame, trackVars
<1>3. /\ ExchangeInv' /\ EndTypes'
      /\ attemptTerminated' = TRUE /\ terminalCount' = terminalCount + 1
      /\ body' \in Seq(Units)
      /\ decisions' \in {{}, {[attempt |-> att, err |-> e]}}
  BY <1>2, EndOfAttempt
<1>4. AttemptInv'
  <2>1. \A c, d \in decisions' : c = d
    BY <1>3
  <2>2. \A p \in promises : p.attempt \in Nat /\ p.count \in Nat /\ terminalCount \in Nat
    BY <1>1 DEF WireTypes, AttemptTypes
  <2>3. \A p \in promises' : p.attempt <= att' /\ p.count <= terminalCount' /\ p.count # terminalCount'
    BY <1>1, <1>2, <1>3, <2>2 DEF AttemptInv
  <2>4. QED
    BY <1>3, <2>1, <2>3 DEF AttemptInv
<1>5. AttemptTypes'
  <2>1. decisions' \subseteq [attempt : Nat, err : ErrKinds]
    BY <1>1, <1>3 DEF WireTypes
  <2>2. QED
    BY <1>1, <1>2, <1>3, <2>1 DEF AttemptTypes
<1>6. WireTypes'
  BY <1>1, <1>2 DEF WireTypes
<1>7. QED
  BY <1>3, <1>4, <1>5, <1>6 DEF RetryInv

LEMMA OnCompleteKeeps ==
  ASSUME RetryInv, OnComplete
  PROVE  RetryInv'
<1>1. /\ EndInv /\ DeliveryInv /\ PauseInv /\ WholeInv /\ AttemptInv
      /\ EndTypes /\ AttemptTypes /\ WireTypes
      /\ phase = "body" /\ ~tpaused /\ ~tabort /\ resp.next = resp.stop
  BY DEF RetryInv, ExchangeInv, OnComplete
<1>2. /\ phase' = "done" /\ retryCount' = retryCount /\ promises' = promises
      /\ UNCHANGED terminalFrame
  BY DEF OnComplete
<1>3. /\ ~aborted /\ ~errorSent /\ terminal = "none" /\ gate = "open" /\ connected
      /\ ~attemptTerminated /\ decisions = {} /\ replay = "none" /\ outcome = "none"
      /\ daborted = FALSE
  BY <1>1 DEF EndInv, AttemptInv, DeliveryInv, PauseInv, EndTypes, OutcomeMatchesEnd
<1>4. CASE status # "err" \/ (headersSent /\ ~errorSent)
  <2>1. headersSent
    BY <1>1, <1>3, <1>4 DEF DeliveryInv
  <2>2. /\ Complete /\ attemptTerminated' = TRUE /\ terminalCount' = terminalCount + 1
        /\ body' = IF headersSent' THEN <<>> ELSE body
        /\ UNCHANGED <<headersSent, errorSent, aborted, paused, replay, backlog, hdrs, via, got,
                      dpaused, daborted, decisions>>
    BY <1>3, <1>4 DEF OnComplete, Terminates, flowVars
  <2>3. /\ body' = <<>> /\ gate' = "closed" /\ terminal' = "complete"
        /\ outcome' = IF retryCount = 0 THEN "none"
                      ELSE IF status # "err" THEN "recovered" ELSE "failed"
    BY <1>2, <1>3, <2>1, <2>2 DEF Complete, SettleStats
  <2>4. UNCHANGED <<status, pos, end, etag, resume, connected, att, resp, tpaused, tabort, bodyUsed>>
    BY <1>2 DEF terminalFrame, trackVars
  <2>5. AttemptInv'
    <3>1. \A p \in promises : p.count \in Nat /\ terminalCount \in Nat
      BY <1>1 DEF WireTypes, AttemptTypes
    <3>2. QED
      BY <1>1, <1>2, <1>3, <2>2, <2>4, <3>1 DEF AttemptInv
  <2>6. EndInv'
    <3>1. OutcomeMatchesEnd'
      BY <1>2, <1>3, <2>2, <2>3 DEF OutcomeMatchesEnd
    <3>2. QED
      BY <1>1, <1>2, <1>3, <2>2, <2>3, <2>4, <3>1 DEF EndInv
  <2>7. DeliveryInv'
    BY <1>1, <1>2, <1>3, <2>1, <2>2, <2>3, <2>4 DEF DeliveryInv
  <2>8. PauseInv'
    BY <1>1, <1>2, <1>3, <2>2, <2>4 DEF PauseInv
  <2>9. WholeInv'
    <3>1. SUFFICES ASSUME pos # Null, end # Null PROVE hdrs.start + Len(got) = end
      BY <2>2, <2>4 DEF WholeInv
    <3>2. /\ end = resp.stop /\ resp.next = hdrs.start + Len(got) + 0 /\ hdrs.start \in Nat
      BY <1>1, <1>3, <2>1, <3>1, EmptyRun DEF DeliveryInv
    <3>3. QED
      BY <1>1, <3>2, LenProperties DEF EndTypes
  <2>10. EndTypes'
    BY <1>1, <2>2, <2>3 DEF EndTypes
  <2>11. AttemptTypes' /\ WireTypes'
    BY <1>1, <1>2, <2>2, <2>3, <2>4, EmptySeq DEF AttemptTypes, WireTypes
  <2>12. QED
    BY <2>5, <2>6, <2>7, <2>8, <2>9, <2>10, <2>11 DEF RetryInv, ExchangeInv
<1>5. CASE ~(status # "err" \/ (headersSent /\ ~errorSent))
  <2>1. Terminates(MaybeRetry("null"))
    BY <1>5 DEF OnComplete, Terminates
  <2>2. QED
    BY <1>1, <1>2, <1>3, <2>1, AttemptEnds DEF ErrKinds
<1>6. QED
  BY <1>4, <1>5

LEMMA OnErrorKeeps ==
  ASSUME RetryInv, OnError
  PROVE  RetryInv'
<1>1. /\ phase # "done" /\ phase' = "done" /\ retryCount' = retryCount
      /\ promises' \subseteq promises /\ UNCHANGED terminalFrame
      /\ Terminates(MaybeRetry(IF tabort THEN "abort" ELSE "error"))
  BY DEF OnError
<1>2. CASE tabort
  <2>1. Terminates(MaybeRetry("abort"))
    BY <1>1, <1>2
  <2>2. QED
    BY <1>1, <2>1, AttemptEnds DEF ErrKinds
<1>3. CASE ~tabort
  <2>1. Terminates(MaybeRetry("error"))
    BY <1>1, <1>3
  <2>2. QED
    BY <1>1, <2>1, AttemptEnds DEF ErrKinds
<1>4. QED
  BY <1>2, <1>3

(* A rejection is the end of the current attempt, or changes nothing else. *)
LEMMA OnRejectionKeeps ==
  ASSUME RetryInv, NEW p \in promises, OnRejection(p)
  PROVE  RetryInv'
<1>1. /\ EndInv /\ DeliveryInv /\ PauseInv /\ WholeInv /\ AttemptInv
      /\ EndTypes /\ AttemptTypes /\ WireTypes
      /\ p.count = terminalCount <=> (p.attempt = att /\ phase # "done")
  BY DEF RetryInv, ExchangeInv, AttemptInv
<1>2. /\ promises' = promises \ {p} /\ retryCount' = retryCount
      /\ phase' = IF p.attempt = att THEN "done" ELSE phase
      /\ UNCHANGED terminalFrame
  BY DEF OnRejection
<1>3. CASE Concerns(p)
  <2>1. phase # "done" /\ phase' = "done" /\ Terminates(MaybeRetry("error"))
    BY <1>1, <1>2, <1>3 DEF Concerns, OnRejection
  <2>2. QED
    BY <1>2, <2>1, AttemptEnds DEF ErrKinds
<1>4. CASE ~Concerns(p)
  <2>1. /\ phase' = phase
        /\ UNCHANGED <<attemptTerminated, terminalCount, body, decisions,
                      headersSent, errorSent, aborted, outcome, gate, paused, replay, backlog,
                      hdrs, via, got, dpaused, daborted, terminal,
                      status, pos, end, etag, resume, connected, att, resp, tpaused, tabort,
                      bodyUsed>>
    BY <1>1, <1>2, <1>4 DEF Concerns, OnRejection, errorVars, flowVars, terminalFrame, trackVars
  <2>2. AttemptInv'
    BY <1>1, <1>2, <2>1 DEF AttemptInv
  <2>3. EndInv'
    BY <1>1, <1>2, <2>1 DEF EndInv, OutcomeMatchesEnd
  <2>4. DeliveryInv'
    BY <1>1, <2>1 DEF DeliveryInv
  <2>5. PauseInv' /\ WholeInv'
    BY <1>1, <2>1 DEF PauseInv, WholeInv
  <2>6. EndTypes' /\ AttemptTypes' /\ WireTypes'
    BY <1>1, <1>2, <2>1 DEF EndTypes, AttemptTypes, WireTypes
  <2>7. QED
    BY <2>2, <2>3, <2>4, <2>5, <2>6 DEF RetryInv, ExchangeInv
<1>5. QED
  BY <1>3, <1>4

-----------------------------------------------------------------------------
(* The retry decision.                                                     *)

(* The attempt a decision was made about is over, and it was the last one. *)
LEMMA DecisionIsLast ==
  ASSUME RetryInv, NEW d \in decisions
  PROVE  /\ phase = "done" /\ attemptTerminated /\ decisions = {d}
         /\ terminal = "none" /\ ~errorSent /\ replay = "none"
         /\ d.err \in ErrKinds /\ (d.err = "null" => connected)
<1>1. phase = "done" /\ attemptTerminated /\ decisions = {d}
  BY DEF RetryInv, AttemptInv
<1>2. terminal = "none" /\ ~errorSent
  BY DEF RetryInv, ExchangeInv, EndInv
<1>3. d.err \in ErrKinds /\ (d.err = "null" => connected)
  BY DEF RetryInv, AttemptTypes, ExchangeInv, EndInv
<1>4. replay = "none"
  BY DEF RetryInv, ExchangeInv, DeliveryInv
<1>5. QED
  BY <1>1, <1>2, <1>3, <1>4

LEMMA MaybeErrorKeeps ==
  ASSUME RetryInv, NEW d \in decisions, NEW e \in ErrKinds, e = "null" => d.err = "null",
         MaybeError(e), decisions' = decisions \ {d},
         body' = <<>> \/ (body' = body /\ ~headersSent'),
         retryCount' \in 0..MaxRetries, e = "null" => retryCount' = retryCount,
         attemptTerminated' \in BOOLEAN, status' \in {"none", status},
         UNCHANGED <<terminalCount, wireVars, trackVars, connected, bodyUsed>>
  PROVE  RetryInv'
<1>1. /\ phase = "done" /\ decisions' = {} /\ terminal = "none" /\ ~errorSent
      /\ e = "null" => connected
      /\ AttemptInv /\ AttemptTypes /\ WireTypes
  BY DecisionIsLast DEF RetryInv
<1>2. UNCHANGED <<att, phase, resp, tpaused, tabort, promises, pos, end, etag, resume>>
  BY DEF wireVars, trackVars
<1>3. ExchangeInv' /\ EndTypes'
  <2>1. CASE \E err \in {"error", "abort"} : Tells(err)
    <3>1. PICK err \in {"error", "abort"} : Tells(err)
      BY <2>1
    <3>2. retryCount' \in Nat /\ phase' = "done"
      BY <1>1, <1>2, ConstantsAssumption
    <3>3. QED
      BY <1>1, <1>2, <3>1, <3>2, AfterTells
  <2>2. CASE e = "null" /\ Replays
    <3>1. body' = <<>>
      BY <2>2 DEF Replays
    <3>2. QED
      BY <1>1, <1>2, <2>2, <3>1, AfterReplays
  <2>3. QED
    BY <2>1, <2>2, MaybeErrorIs
<1>4. AttemptInv'
  BY <1>1, <1>2 DEF AttemptInv
<1>5. body' \in Seq(Units)
  BY <1>1, EmptySeq DEF AttemptTypes
<1>6. AttemptTypes'
  BY <1>1, <1>2, <1>5 DEF AttemptTypes
<1>7. WireTypes'
  BY <1>1, <1>2 DEF WireTypes
<1>8. QED
  BY <1>3, <1>4, <1>6, <1>7 DEF RetryInv

LEMMA RetrySettledKeeps ==
  ASSUME RetryInv, NEW d \in decisions, RetrySettled(d)
  PROVE  RetryInv'
<1>1. /\ EndInv /\ DeliveryInv /\ PauseInv /\ WholeInv /\ AttemptInv
      /\ EndTypes /\ AttemptTypes /\ WireTypes
  BY DEF RetryInv, ExchangeInv
<1>2. /\ phase = "done" /\ attemptTerminated /\ decisions = {d}
      /\ terminal = "none" /\ ~errorSent /\ replay = "none" /\ d.err \in ErrKinds
  BY DecisionIsLast
<1>3. /\ decisions' = decisions \ {d} /\ decisions' = {}
      /\ UNCHANGED <<trackVars, connected, bodyUsed>>
  BY <1>2 DEF RetrySettled
<1>4. ASSUME NEW e \in ErrKinds, e = "null" => d.err = "null", GiveUp(e) PROVE RetryInv'
  <2>1. /\ MaybeError(e) /\ retryCount' = retryCount
        /\ body' = <<>> \/ (body' = body /\ ~headersSent')
        /\ UNCHANGED <<attemptTerminated, terminalCount, status, wireVars>>
    BY <1>4 DEF GiveUp, settleFrame
  <2>2. retryCount' \in 0..MaxRetries /\ attemptTerminated' \in BOOLEAN
    BY <1>1, <2>1 DEF AttemptTypes
  <2>3. QED
    BY <1>3, <1>4, <2>1, <2>2, MaybeErrorKeeps
<1>5. CASE GiveUp(SettledError(d.err)) \/ GiveUp(SettledError("error"))
  <2>1. /\ SettledError(d.err) \in ErrKinds /\ (SettledError(d.err) = "null" => d.err = "null")
        /\ SettledError("error") \in ErrKinds /\ SettledError("error") # "null"
    BY <1>2 DEF SettledError, ErrKinds
  <2>2. QED
    BY <1>4, <1>5, <2>1
<1>6. CASE /\ MayRetry /\ retryCount' = retryCount + 1
           /\ ResetAttempt /\ MaybeError("error")
           /\ UNCHANGED <<terminalCount, wireVars>>
  <2>1. attemptTerminated' = FALSE /\ status' = "none" /\ body' = <<>>
    BY <1>6 DEF ResetAttempt
  <2>2. retryCount' \in 0..MaxRetries
    BY <1>1, <1>6, ConstantsAssumption DEF MayRetry, AttemptTypes
  <2>3. QED
    BY <1>3, <1>6, <2>1, <2>2, MaybeErrorKeeps DEF ErrKinds
<1>7. CASE /\ MayRetry /\ retryCount' = retryCount + 1
           /\ Dispatch /\ UNCHANGED <<terminalCount, errorVars>>
  <2>1. /\ attemptTerminated' = FALSE /\ status' = "none" /\ body' = <<>>
        /\ att' = att + 1 /\ phase' = "dispatched" /\ resp' = NoResponse
        /\ tpaused' = FALSE /\ tabort' = FALSE
        /\ UNCHANGED <<terminalCount, headersSent, errorSent, aborted, outcome, gate,
                      paused, replay, backlog, hdrs, via, got, dpaused, daborted, terminal,
                      pos, end, etag, resume, connected, bodyUsed>>
        /\ ~aborted
    BY <1>3, <1>7 DEF Dispatch, ResetAttempt, errorVars, flowVars, trackVars, MayRetry
  <2>2. promises' \in {promises, promises \cup {[attempt |-> att + 1, count |-> terminalCount]}}
    BY <1>7, <2>1 DEF Dispatch
  <2>3. att \in Nat /\ terminalCount \in Nat /\ \A p \in promises : p.attempt \in Nat /\ p.count \in Nat
    BY <1>1 DEF WireTypes, AttemptTypes
  <2>4. AttemptInv'
    <3>1. ASSUME NEW p \in promises'
          PROVE  /\ p.attempt <= att' /\ p.count <= terminalCount'
                 /\ p.count = terminalCount' <=> (p.attempt = att' /\ phase' # "done")
      BY <1>1, <1>2, <2>1, <2>2, <2>3, <3>1 DEF AttemptInv
    <3>2. QED
      BY <1>3, <2>1, <3>1 DEF AttemptInv
  <2>5. EndInv'
    <3>1. OutcomeMatchesEnd'
      BY <1>1, <1>2, <2>1 DEF EndInv, OutcomeMatchesEnd
    <3>2. QED
      BY <1>1, <1>2, <1>3, <2>1, <3>1 DEF EndInv
  <2>6. DeliveryInv'
    BY <1>1, <1>2, <1>3, <2>1, EmptyRun DEF DeliveryInv
  <2>7. PauseInv' /\ WholeInv'
    BY <1>1, <1>2, <2>1 DEF PauseInv, WholeInv
  <2>8. EndTypes'
    BY <1>1, <2>1 DEF EndTypes
  <2>9. AttemptTypes'
    <3>1. retryCount' \in 0..MaxRetries
      BY <1>1, <1>7, ConstantsAssumption DEF MayRetry, AttemptTypes
    <3>2. QED
      BY <1>1, <1>3, <2>1, <3>1, EmptySeq DEF AttemptTypes
  <2>10. WireTypes'
    <3>1. promises' \subseteq [attempt : Nat, count : Nat]
      BY <1>1, <2>2, <2>3 DEF WireTypes
    <3>2. NoResponse \in [kind : RespKinds, src : Sources, etag : Reps \cup {NoEtag},
                          next : Nat, stop : Nat]
      BY DEF NoResponse, RespKinds, Sources
    <3>3. resp' \in [kind : RespKinds, src : Sources, etag : Reps \cup {NoEtag},
                     next : Nat, stop : Nat]
      BY <2>1, <3>2
    <3>4. tpaused' = FALSE /\ tabort' = FALSE /\ phase' = "dispatched" /\ att' = att + 1
      BY <2>1
    <3>5. att' \in Nat
      BY <2>3, <3>4
    <3>6. QED
      BY <3>1, <3>3, <3>4, <3>5 DEF WireTypes
  <2>11. QED
    BY <2>4, <2>5, <2>6, <2>7, <2>8, <2>9, <2>10 DEF RetryInv, ExchangeInv
<1>8. QED
  BY <1>5, <1>6, <1>7 DEF RetrySettled

LEMMA ConsumeBodyKeeps ==
  ASSUME RetryInv, ConsumeBody
  PROVE  RetryInv'
<1>1. /\ bodyUsed' = TRUE
      /\ UNCHANGED <<attemptVars, trackVars, flowVars, finalVars, downVars, wireVars,
                    headersSent, retryCount, decisions>>
  BY DEF ConsumeBody
<1>2. AttemptInv' /\ EndInv'
  BY <1>1 DEF RetryInv, ExchangeInv, AttemptInv, EndInv, OutcomeMatchesEnd,
              flowVars, finalVars, downVars, wireVars, attemptVars
<1>3. DeliveryInv'
  BY <1>1 DEF RetryInv, ExchangeInv, DeliveryInv,
              flowVars, finalVars, downVars, wireVars, trackVars, attemptVars
<1>4. PauseInv' /\ WholeInv'
  BY <1>1 DEF RetryInv, ExchangeInv, PauseInv, WholeInv,
              flowVars, finalVars, downVars, wireVars, trackVars, attemptVars
<1>5. EndTypes' /\ AttemptTypes' /\ WireTypes'
  BY <1>1 DEF RetryInv, EndTypes, AttemptTypes, WireTypes,
              flowVars, finalVars, downVars, wireVars, trackVars, attemptVars
<1>6. QED
  BY <1>2, <1>3, <1>4, <1>5 DEF RetryInv, ExchangeInv

-----------------------------------------------------------------------------
(* The downstream handler calls back.                                      *)

LEMMA DownstreamAbortKeeps ==
  ASSUME RetryInv, DownstreamAbort
  PROVE  RetryInv'
<1>1. /\ EndInv /\ DeliveryInv /\ PauseInv /\ WholeInv /\ AttemptInv
      /\ EndTypes /\ AttemptTypes /\ WireTypes
      /\ connected /\ gate = "open"
  BY DEF RetryInv, ExchangeInv, DownstreamAbort
<1>2. /\ gate' = "aborted" /\ aborted' = TRUE /\ daborted' = TRUE
      /\ replay' = "none" /\ backlog' = <<>>
      /\ tabort' = (tabort \/ phase \in {"connected", "body"})
      /\ UNCHANGED <<outcome, terminal, status, body, attemptTerminated, terminalCount,
                    pos, end, etag, resume, paused, errorSent, connected, hdrs, via,
                    got, dpaused, att, phase, resp, tpaused, promises,
                    headersSent, retryCount, decisions, bodyUsed>>
  BY DEF DownstreamAbort, Aborts, attemptVars, trackVars
<1>3. terminal = "none" /\ ~errorSent
  BY <1>1 DEF EndInv, EndTypes
<1>4. AttemptInv'
  BY <1>1, <1>2 DEF AttemptInv
<1>5. EndInv'
  <2>1. OutcomeMatchesEnd'
    BY <1>1, <1>2 DEF EndInv, OutcomeMatchesEnd
  <2>2. QED
    BY <1>1, <1>2, <1>3, <2>1 DEF EndInv
<1>6. DeliveryInv'
  BY <1>1, <1>2, EmptyRun DEF DeliveryInv
<1>7. PauseInv' /\ WholeInv'
  BY <1>1, <1>2 DEF PauseInv, WholeInv
<1>8. EndTypes' /\ AttemptTypes'
  BY <1>1, <1>2, EmptySeq DEF EndTypes, AttemptTypes
<1>9. WireTypes'
  BY <1>1, <1>2 DEF WireTypes
<1>10. QED
  BY <1>4, <1>5, <1>6, <1>7, <1>8, <1>9 DEF RetryInv, ExchangeInv

LEMMA DownstreamResumeKeeps ==
  ASSUME RetryInv, DownstreamResume
  PROVE  RetryInv'
<1>1. /\ EndInv /\ DeliveryInv /\ PauseInv /\ WholeInv /\ AttemptInv
      /\ EndTypes /\ AttemptTypes /\ WireTypes
      /\ dpaused
  BY DEF RetryInv, ExchangeInv, DownstreamResume
<1>2. UNCHANGED <<status, body, attemptTerminated, terminalCount,
                 pos, end, etag, resume, errorSent, connected, hdrs, via,
                 att, phase, resp, promises, headersSent, retryCount, decisions, bodyUsed>>
  BY DEF DownstreamResume, attemptVars, trackVars
<1>3. headersSent
  BY <1>1 DEF DeliveryInv
<1>4. AttemptInv'
  BY <1>1, <1>2 DEF AttemptInv
<1>5. AttemptTypes'
  BY <1>1, <1>2 DEF AttemptTypes
<1>6. CASE \/ via = "raw"
           \/ aborted \/ errorSent
           \/ replay = "none"
  <2>1. /\ dpaused' = FALSE /\ tpaused' \in {tpaused, FALSE} /\ paused' \in {paused, FALSE}
        /\ replay = "live" => tpaused' = tpaused
        /\ UNCHANGED <<replay, backlog, aborted, outcome, gate, got, daborted, terminal, tabort>>
    BY <1>1, <1>6 DEF DownstreamResume, flowVars, Accepts, ResumeTransport, DeliveryInv
  <2>2. EndInv'
    BY <1>1, <1>2, <2>1 DEF EndInv, OutcomeMatchesEnd
  <2>3. DeliveryInv'
    BY <1>1, <1>2, <1>3, <2>1 DEF DeliveryInv
  <2>4. PauseInv' /\ WholeInv'
    BY <1>1, <1>2, <2>1 DEF PauseInv, WholeInv
  <2>5. EndTypes'
    <3>1. paused' \in BOOLEAN /\ dpaused' \in BOOLEAN
      BY <1>1, <2>1 DEF EndTypes
    <3>2. QED
      BY <1>1, <1>2, <2>1, <3>1 DEF EndTypes
  <2>6. WireTypes'
    BY <1>1, <1>2, <2>1 DEF WireTypes
  <2>7. QED
    BY <1>4, <1>5, <2>2, <2>3, <2>4, <2>5, <2>6 DEF RetryInv, ExchangeInv
<1>7. CASE via # "raw" /\ ~aborted /\ ~errorSent /\ replay # "none"
  <2> DEFINE c == replay = "complete"
             n == Len(got) + Len(backlog)
  <2>1. /\ PumpReplay(backlog, c)
        /\ tpaused' \in {tpaused, FALSE}
        /\ replay' = "live" => tpaused' = tpaused
        /\ tabort' = (tabort \/ (aborted' /\ phase \in {"connected", "body"}))
    BY <1>7 DEF DownstreamResume, ResumeTransport
  <2>2. /\ terminal = "none" /\ gate = "open" /\ outcome = "none" /\ ~daborted
        /\ pos = Null /\ decisions = {} /\ via = "handler" /\ connected
        /\ hdrs.start \in Nat /\ Len(got) \in Nat /\ Len(backlog) \in Nat
        /\ Run(got, hdrs, hdrs.start) /\ Run(backlog, hdrs, hdrs.start + Len(got))
        /\ phase \in {"body", "done"}
        /\ c => phase = "done"
        /\ ~c => replay = "live" /\ phase = "body" /\ tpaused
        /\ phase = "body" => /\ resp.src = hdrs.src
                             /\ resp.next = hdrs.start + Len(got) + Len(backlog)
    <3>1. terminal = "none" /\ gate = "open" /\ outcome = "none" /\ ~daborted
      BY <1>1, <1>7 DEF EndInv, OutcomeMatchesEnd, EndTypes
    <3>2. /\ pos = Null /\ via = "handler" /\ hdrs.start \in Nat
          /\ Run(got, hdrs, hdrs.start) /\ Run(backlog, hdrs, hdrs.start + Len(got))
          /\ phase = "body" => /\ resp.src = hdrs.src
                               /\ resp.next = hdrs.start + Len(got) + Len(backlog)
      BY <1>1, <1>3, <1>7 DEF DeliveryInv
    <3>3. decisions = {}
      BY <1>1, <1>3, <3>2 DEF DeliveryInv
    <3>4. c => phase = "done"
      BY <1>1 DEF DeliveryInv
    <3>5. ~c => replay = "live" /\ phase = "body" /\ tpaused
      BY <1>1, <1>7 DEF PauseInv, EndTypes
    <3>6. connected /\ Len(got) \in Nat /\ Len(backlog) \in Nat
      BY <1>1, <1>3, LenProperties DEF EndInv, EndTypes
    <3>7. QED
      BY <3>1, <3>2, <3>3, <3>4, <3>5, <3>6
  <2>3. Replayed(hdrs, hdrs.start, n, c)
    <3>1. got \in Seq(Units) /\ backlog \in Seq(Units)
      BY <1>1 DEF EndTypes
    <3> HIDE DEF c
    <3>2. QED
      BY <2>1, <2>2, <3>1, PumpIs
  <2>4. /\ got' \in Seq(Units) /\ backlog' \in Seq(Units)
        /\ Run(got', hdrs', hdrs'.start) /\ Run(backlog', hdrs', hdrs'.start + Len(got'))
        /\ Len(got') \in Nat /\ Len(backlog') \in Nat
    BY <1>2, <2>3, LenProperties DEF Replayed
  <2>5. \/ /\ replay' = "none" /\ backlog' = <<>> /\ paused' = FALSE /\ dpaused' = FALSE
           /\ aborted' = FALSE /\ daborted' = FALSE
           /\ Len(got') = n
           /\ \/ /\ c /\ gate' = "closed" /\ terminal' = "complete"
                 /\ outcome' = IF retryCount = 0 THEN "none"
                               ELSE IF status # "err" THEN "recovered" ELSE "failed"
              \/ ~c /\ gate' = "open" /\ terminal' = "none" /\ outcome' = "none"
        \/ /\ replay' = (IF c THEN "complete" ELSE "live") /\ paused' = TRUE /\ dpaused' = TRUE
           /\ aborted' = FALSE /\ daborted' = FALSE
           /\ Len(got') + Len(backlog') = n
           /\ gate' = "open" /\ terminal' = "none" /\ outcome' = "none"
        \/ /\ replay' = "none" /\ backlog' = <<>> /\ paused' = FALSE /\ dpaused' = FALSE
           /\ aborted' = TRUE /\ daborted' = TRUE
           /\ gate' = "aborted" /\ terminal' = "none" /\ outcome' = "none"
    <3>1. aborted = FALSE /\ daborted = FALSE
      BY <1>1, <1>7, <2>2 DEF EndTypes
    <3>2. CASE Drained(n, c)
      BY <1>2, <2>2, <3>1, <3>2 DEF Drained, Complete, SettleStats
    <3>3. CASE Held(n, c)
      BY <2>2, <3>1, <3>3 DEF Held
    <3>4. CASE Dropped
      BY <2>2, <3>1, <3>4 DEF Dropped, Aborts
    <3>5. QED
      BY <2>3, <3>2, <3>3, <3>4 DEF Replayed
  <2>6. EndInv'
    <3>1. OutcomeMatchesEnd'
      BY <1>2, <2>2, <2>5 DEF OutcomeMatchesEnd
    <3>2. QED
      BY <1>1, <1>2, <1>7, <2>1, <2>2, <2>5, <3>1 DEF EndInv
  <2>7. DeliveryInv'
    <3>1. ~aborted' /\ phase = "body" => resp.next = hdrs.start + Len(got') + Len(backlog')
      <4>1. Len(<<>>) = 0 /\ n \in Nat
        BY <2>2, EmptyRun
      <4>2. ~aborted' => Len(got') + Len(backlog') = n
        BY <2>4, <2>5, <4>1
      <4>3. phase = "body" => resp.next = hdrs.start + n
        BY <2>2
      <4>4. QED
        BY <2>2, <2>4, <4>2, <4>3
    <3>2. QED
      BY <1>2, <1>3, <2>2, <2>4, <2>5, <3>1 DEF DeliveryInv
  <2>8. PauseInv' /\ WholeInv'
    BY <1>2, <2>1, <2>2, <2>5 DEF PauseInv, WholeInv
  <2>9. EndTypes'
    BY <1>1, <1>2, <2>4, <2>5 DEF EndTypes
  <2>10. WireTypes'
    BY <1>1, <1>2, <2>1, <2>9 DEF WireTypes, EndTypes
  <2>11. QED
    BY <1>4, <1>5, <2>6, <2>7, <2>8, <2>9, <2>10 DEF RetryInv, ExchangeInv
<1>8. QED
  BY <1>6, <1>7

-----------------------------------------------------------------------------
(* Invariance.                                                             *)

LEMMA InitKeeps ==
  ASSUME Init
  PROVE  RetryInv
<1>1. /\ promises \subseteq {[attempt |-> 1, count |-> 0]}
      /\ bodyUsed \in BOOLEAN
  BY DEF Init
<1>2. AttemptInv
  BY <1>1 DEF Init, AttemptInv
<1>3. EndInv
  BY DEF Init, EndInv, OutcomeMatchesEnd
<1>4. DeliveryInv
  BY EmptyRun DEF Init, DeliveryInv
<1>5. PauseInv /\ WholeInv
  BY DEF Init, PauseInv, WholeInv
<1>6. EndTypes
  <2>1. NoHeaders \in [src : Sources, start : Nat \cup {Null}]
    BY DEF NoHeaders, Sources
  <2>2. QED
    BY <2>1, EmptySeq DEF Init, EndTypes
<1>7. AttemptTypes
  <2>1. retryCount \in 0..MaxRetries /\ body \in Seq(Units)
    BY EmptySeq, ConstantsAssumption DEF Init
  <2>2. QED
    BY <1>1, <2>1 DEF Init, AttemptTypes
<1>8. WireTypes
  <2>1. NoResponse \in [kind : RespKinds, src : Sources, etag : Reps \cup {NoEtag},
                        next : Nat, stop : Nat]
    BY DEF NoResponse, RespKinds, Sources
  <2>2. promises \subseteq [attempt : Nat, count : Nat]
    BY <1>1
  <2>3. QED
    BY <2>1, <2>2 DEF Init, WireTypes
<1>9. QED
  BY <1>2, <1>3, <1>4, <1>5, <1>6, <1>7, <1>8 DEF RetryInv, ExchangeInv

LEMMA FrameKeeps ==
  ASSUME RetryInv, UNCHANGED waitFrame
  PROVE  RetryInv'
<1>1. UNCHANGED <<attemptVars, trackVars, flowVars, finalVars, downVars, wireVars,
                 headersSent, retryCount, decisions, bodyUsed>>
  BY DEF waitFrame
<1>2. AttemptInv' /\ EndInv'
  BY <1>1 DEF RetryInv, ExchangeInv, AttemptInv, EndInv, OutcomeMatchesEnd,
              flowVars, finalVars, downVars, wireVars, attemptVars
<1>3. DeliveryInv'
  BY <1>1 DEF RetryInv, ExchangeInv, DeliveryInv,
              flowVars, finalVars, downVars, wireVars, trackVars, attemptVars
<1>4. PauseInv' /\ WholeInv'
  BY <1>1 DEF RetryInv, ExchangeInv, PauseInv, WholeInv,
              flowVars, finalVars, downVars, wireVars, trackVars, attemptVars
<1>5. EndTypes' /\ AttemptTypes' /\ WireTypes'
  BY <1>1 DEF RetryInv, EndTypes, AttemptTypes, WireTypes,
              flowVars, finalVars, downVars, wireVars, trackVars, attemptVars
<1>6. QED
  BY <1>2, <1>3, <1>4, <1>5 DEF RetryInv, ExchangeInv

(* The steps that are not those of an attempt, of a decision that settles  *)
(* or of the consumer: a wait that begins or ends, and stuttering.         *)
LEMMA WaitsAreQuiet ==
  ASSUME Backoff \/ TimerFires \/ UNCHANGED vars
  PROVE  UNCHANGED waitFrame
BY DEF Backoff, TimerFires, vars, waitFrame

LEMMA NextKeeps ==
  ASSUME RetryInv, [Next]_vars
  PROVE  RetryInv'
<1>1. CASE Transport
  BY <1>1, OnConnectKeeps, OnInformationalKeeps, OnTrackedHeadersKeeps,
     OnUntrackedHeadersKeeps, OnErrorHeadersKeeps, OnResumeHeadersKeeps,
     OnDeclinedHeadersKeeps, OnDataKeeps, OnCompleteKeeps, OnErrorKeeps, OnRejectionKeeps
     DEF Transport
<1>2. CASE Settle
  BY <1>2, RetrySettledKeeps DEF Settle
<1>3. CASE ConsumeBody \/ DownstreamAbort \/ DownstreamResume
  BY <1>3, ConsumeBodyKeeps, DownstreamAbortKeeps, DownstreamResumeKeeps
<1>4. CASE Backoff \/ TimerFires \/ UNCHANGED vars
  BY <1>4, WaitsAreQuiet, FrameKeeps
<1>5. QED
  BY <1>1, <1>2, <1>3, <1>4 DEF Next

(* The inductive invariant of the retry handler, whatever the transport    *)
(* answers, loses or rejects and whatever the consumer does meanwhile.     *)
THEOREM RetryInvariance == Spec => []RetryInv
<1>1. Init => RetryInv
  BY InitKeeps
<1>2. RetryInv /\ [Next]_vars => RetryInv'
  BY NextKeeps
<1>3. QED
  BY <1>1, <1>2, PTL DEF Spec

LEMMA WaitTyped == Spec => []WaitType
<1>1. Init => WaitType
  BY DEF Init, WaitType
<1>2. ASSUME WaitType, [Next]_vars PROVE WaitType'
  <2>1. CASE Transport
    BY <1>2, <2>1 DEF Transport, OnConnect, OnInformational, OnTrackedHeaders,
       OnUntrackedHeaders, OnErrorHeaders, OnResumeHeaders, OnDeclinedHeaders, OnData,
       OnComplete, OnError, OnRejection, headersFrame, terminalFrame, WaitType
  <2>2. CASE Backoff \/ TimerFires \/ UNCHANGED vars
    BY <1>2, <2>2 DEF Backoff, TimerFires, vars, WaitType
  <2>3. CASE Settle
    BY <2>3 DEF Settle, RetrySettled, WaitType
  <2>4. CASE ConsumeBody \/ DownstreamAbort \/ DownstreamResume
    BY <1>2, <2>4 DEF ConsumeBody, DownstreamAbort, CutsWait, DownstreamResume, WaitType
  <2>5. QED
    BY <1>2, <2>1, <2>2, <2>3, <2>4 DEF Next
<1>3. QED
  BY <1>1, <1>2, PTL DEF Spec

(* The fields of the handler keep their types, and no more retries are     *)
(* dispatched than the options allow.                                      *)
THEOREM RetryTypeCorrect == Spec => []TypeOK
<1>1. RetryInv /\ WaitType => TypeOK
  BY TypesSplit DEF RetryInv
<1>2. QED
  BY <1>1, RetryInvariance, WaitTyped, PTL

(* The consumer is given one piece of one response, whole when it is told  *)
(* so: neither a resumed attempt nor a replay splices, loses or repeats.   *)
THEOREM NothingIsSpliced == Spec => []NoSplice
<1>1. RetryInv => NoSplice
  BY DEF RetryInv, ExchangeInv, DeliveryInv, WholeInv, Run, NoSplice
<1>2. QED
  BY <1>1, RetryInvariance, PTL

(* At most one attempt runs or one decision is open at any time, whatever  *)
(* errors, completions and rejections the attempts report.                 *)
THEOREM OneExchangeAtATime == Spec => []OneExchange
<1>1. RetryInv => OneExchange
  <2>1. SUFFICES ASSUME RetryInv PROVE OneExchange
    OBVIOUS
  <2>2. CASE decisions = {}
    BY <2>2, FS_EmptySet DEF OneExchange
  <2>3. CASE decisions # {}
    <3>1. PICK d : d \in decisions
      BY <2>3
    <3>2. decisions = {d} /\ phase = "done"
      BY <2>1, <3>1, DecisionIsLast
    <3>3. QED
      BY <3>2, FS_Singleton DEF OneExchange
  <2>4. QED
    BY <2>2, <2>3
<1>2. QED
  BY <1>1, RetryInvariance, PTL

(* The statistic of a retried request agrees with the end its consumer saw,*)
(* and is not settled before that end.                                     *)
THEOREM OutcomesAreTrue == Spec => []OutcomeMatchesEnd
<1>1. RetryInv => OutcomeMatchesEnd
  BY DEF RetryInv, ExchangeInv, EndInv
<1>2. QED
  BY <1>1, RetryInvariance, PTL

-----------------------------------------------------------------------------
(* What a step may never do.                                               *)

(* Only a settled decision dispatches an attempt.                          *)
LEMMA OnlyDecisionsDispatch ==
  ASSUME [Next]_vars, att' # att
  PROVE  \E d \in decisions : RetrySettled(d) /\ MayRetry
<1>1. ~Transport
  BY DEF Transport, OnConnect, OnInformational, OnTrackedHeaders, OnUntrackedHeaders,
         OnErrorHeaders, OnResumeHeaders, OnDeclinedHeaders, OnData, OnComplete, OnError,
         OnRejection, wireVars, headersFrame, terminalFrame
<1>2. ~(ConsumeBody \/ DownstreamAbort \/ DownstreamResume) /\ ~UNCHANGED vars
  BY DEF ConsumeBody, DownstreamAbort, DownstreamResume, vars, wireVars
<1>3. ~(Backoff \/ TimerFires)
  BY WaitsAreQuiet DEF waitFrame, wireVars
<1>4. PICK d \in decisions : RetrySettled(d)
  BY <1>1, <1>2, <1>3 DEF Next, Settle
<1>5. ~GiveUp(SettledError(d.err)) /\ ~GiveUp(SettledError("error"))
  BY DEF GiveUp, settleFrame, wireVars
<1>6. QED
  BY <1>4, <1>5 DEF RetrySettled

(* A further attempt is for a consumer that waits for it, repeats nothing  *)
(* of the request body, and resumes only what it can prove to be the same. *)
THEOREM ResumesAreSound == Spec => ResumeIsSound
<1>1. ASSUME RetryInv, [Next]_vars, att' # att
      PROVE  /\ terminal = "none" /\ ~daborted
             /\ ~bodyUsed
             /\ headersSent => /\ pos = hdrs.start + Len(got)
                               /\ pos > 0 => etag = hdrs.src
                               /\ end # Null => end > 0
  <2>1. PICK d \in decisions : MayRetry
    BY <1>1, OnlyDecisionsDispatch
  <2>2. terminal = "none" /\ ~aborted /\ ~bodyUsed /\ ~daborted
    BY <1>1, <2>1, DecisionIsLast DEF MayRetry, RetryInv, ExchangeInv, EndInv
  <2>3. decisions # {}
    BY <2>1
  <2>4. headersSent => /\ pos = hdrs.start + Len(got)
                       /\ pos > 0 => etag = hdrs.src
                       /\ end # Null => end > 0
    BY <1>1, <2>3 DEF RetryInv, ExchangeInv, DeliveryInv
  <2>5. QED
    BY <2>2, <2>4
<1>2. RetryInv /\ [Next]_vars =>
        [att' # att =>
           /\ terminal = "none" /\ ~daborted
           /\ ~bodyUsed
           /\ headersSent => /\ pos = hdrs.start + Len(got)
                             /\ pos > 0 => etag = hdrs.src
                             /\ end # Null => end > 0]_vars
  BY <1>1
<1>3. QED
  BY <1>2, RetryInvariance, PTL DEF Spec, ResumeIsSound

(* What the consumer sees of an end of an attempt or of the exchange.      *)
LEMMA MaybeErrorShows ==
  ASSUME RetryInv, NEW e \in ErrKinds, MaybeError(e), terminal # "complete"
  PROVE  \/ /\ UNCHANGED <<hdrs, got, daborted>>
            /\ \/ terminal' = terminal
               \/ /\ terminal = "none" /\ terminal' \in {"error", "abort"}
                  /\ e # "null" => terminal' = e
         \/ e = "null" /\ Replays
<1>1. CASE \E err \in {"error", "abort"} : Tells(err) /\ (e # "null" => err = e)
  <2>1. PICK err \in {"error", "abort"} : Tells(err) /\ (e # "null" => err = e)
    BY <1>1
  <2>2. UNCHANGED <<hdrs, got, daborted>>
    BY <2>1 DEF Tells
  <2>3. CASE errorSent
    BY <2>1, <2>2, <2>3 DEF Tells
  <2>4. CASE ~errorSent
    <3>1. terminal = "none" /\ gate # "closed"
      BY <2>4 DEF RetryInv, ExchangeInv, EndInv, EndTypes
    <3>2. QED
      BY <2>1, <2>2, <2>4, <3>1 DEF Tells
  <2>5. QED
    BY <2>3, <2>4
<1>2. QED
  BY <1>1, MaybeErrorIs

LEMMA AttemptShows ==
  ASSUME RetryInv, NEW e \in ErrKinds, Terminates(MaybeRetry(e)), terminal # "complete"
  PROVE  \/ /\ UNCHANGED <<hdrs, got, daborted>>
            /\ \/ terminal' = terminal
               \/ terminal = "none" /\ terminal' \in {"error", "abort"}
         \/ Replays
<1>1. UNCHANGED errorVars \/ MaybeError(e)
  BY DEF Terminates, MaybeRetry
<1>2. CASE UNCHANGED errorVars
  BY <1>2 DEF errorVars
<1>3. CASE MaybeError(e)
  BY <1>3, MaybeErrorShows
<1>4. QED
  BY <1>1, <1>2, <1>3

LEMMA RejectionShows ==
  ASSUME RetryInv, NEW p \in promises, OnRejection(p)
  PROVE  \/ UNCHANGED errorVars
         \/ phase # "done" /\ terminal # "complete" /\ Terminates(MaybeRetry("error"))
<1>1. CASE Concerns(p)
  BY <1>1 DEF OnRejection, Concerns, RetryInv, AttemptInv, ExchangeInv, EndInv
<1>2. CASE ~Concerns(p)
  BY <1>2 DEF OnRejection
<1>3. QED
  BY <1>1, <1>2

LEMMA SettledShows ==
  ASSUME RetryInv, NEW d \in decisions, RetrySettled(d)
  PROVE  \/ UNCHANGED errorVars
         \/ \E e \in ErrKinds : /\ MaybeError(e)
                                /\ e = "null" => d.err = "null"
                                /\ aborted => e = "abort"
<1>1. d.err \in ErrKinds
  BY DecisionIsLast
<1>2. CASE GiveUp(SettledError(d.err)) \/ GiveUp(SettledError("error"))
  BY <1>1, <1>2 DEF GiveUp, SettledError, ErrKinds
<1>3. CASE MayRetry /\ UNCHANGED errorVars
  BY <1>3
<1>4. CASE MayRetry /\ MaybeError("error")
  BY <1>4 DEF ErrKinds, MayRetry
<1>5. QED
  BY <1>2, <1>3, <1>4 DEF RetrySettled

(* A consumer that has stopped is given no data and told of no completion  *)
(* before it resumes, whether a live attempt, a resumed one or a replay    *)
(* would give it more.                                                     *)
THEOREM PausesHold == Spec => PauseHolds
<1> DEFINE Gives == dpaused /\ (got' # got \/ (terminal' # terminal /\ terminal' = "complete"))
<1>1. ASSUME RetryInv, [Next]_vars, Gives PROVE DownstreamResume
  <2>1. headersSent /\ (phase = "body" => tpaused \/ tabort)
    BY <1>1 DEF RetryInv, ExchangeInv, DeliveryInv, PauseInv
  <2>2. ~Replays
    BY <2>1 DEF Replays
  <2>3. ~UNCHANGED errorVars
    BY <1>1 DEF errorVars
  <2>4. ~(OnConnect \/ OnInformational \/ OnTrackedHeaders \/ OnUntrackedHeaders
          \/ OnErrorHeaders \/ OnResumeHeaders \/ OnData \/ OnComplete)
    BY <1>1, <2>1 DEF OnConnect, OnInformational, OnTrackedHeaders, OnUntrackedHeaders,
       OnErrorHeaders, OnResumeHeaders, OnData, OnComplete, headersFrame, downVars
  <2>5. ~OnDeclinedHeaders
    <3>1. SUFFICES ASSUME OnDeclinedHeaders PROVE FALSE
      OBVIOUS
    <3>2. PICK e \in ErrKinds : MaybeError(e)
      BY <3>1 DEF OnDeclinedHeaders, ErrKinds
    <3>3. terminal # "complete"
      BY <1>1, <3>1 DEF OnDeclinedHeaders, Responding, RetryInv, ExchangeInv, EndInv
    <3>4. QED
      BY <1>1, <2>2, <3>2, <3>3, MaybeErrorShows
  <2>6. ~OnError
    <3>1. SUFFICES ASSUME OnError PROVE FALSE
      OBVIOUS
    <3>2. PICK e \in ErrKinds : Terminates(MaybeRetry(e))
      BY <3>1 DEF OnError, ErrKinds
    <3>3. terminal # "complete"
      BY <1>1, <3>1 DEF OnError, RetryInv, ExchangeInv, EndInv
    <3>4. QED
      BY <1>1, <2>2, <3>2, <3>3, AttemptShows
  <2>7. ASSUME NEW p \in promises, OnRejection(p) PROVE FALSE
    <3>1. terminal # "complete" /\ Terminates(MaybeRetry("error"))
      BY <1>1, <2>3, <2>7, RejectionShows
    <3>2. QED
      BY <1>1, <2>2, <3>1, AttemptShows DEF ErrKinds
  <2>8. ASSUME NEW d \in decisions, RetrySettled(d) PROVE FALSE
    <3>1. PICK e \in ErrKinds : MaybeError(e)
      BY <1>1, <2>3, <2>8, SettledShows
    <3>2. terminal # "complete"
      BY <1>1, <2>8, DecisionIsLast
    <3>3. QED
      BY <1>1, <2>2, <3>1, <3>2, MaybeErrorShows
  <2>9. ~(ConsumeBody \/ DownstreamAbort)
    BY <1>1 DEF ConsumeBody, DownstreamAbort, Aborts, downVars
  <2>10. ~(Backoff \/ TimerFires \/ UNCHANGED vars)
    BY <1>1, WaitsAreQuiet DEF waitFrame, downVars
  <2>11. QED
    BY <1>1, <2>4, <2>5, <2>6, <2>7, <2>8, <2>9, <2>10 DEF Next, Transport, Settle
<1>2. RetryInv /\ [Next]_vars => [Gives => DownstreamResume]_vars
  BY <1>1
<1>3. QED
  BY <1>2, RetryInvariance, PTL DEF Spec, PauseHolds

(* An abort during a retry decision is what ends the exchange, whatever    *)
(* the strategy and late rejections say afterwards.                        *)
THEOREM AbortReasonsWin == Spec => AbortReasonWins
<1> DEFINE Ends == daborted /\ decisions # {} /\ terminal' # terminal
<1>1. ASSUME RetryInv, [Next]_vars, Ends PROVE terminal' = "abort"
  <2>1. phase = "done" /\ aborted /\ terminal = "none"
    BY <1>1, DecisionIsLast DEF RetryInv, ExchangeInv, EndInv
  <2>2. ~UNCHANGED errorVars
    BY <1>1 DEF errorVars
  <2>3. ~(OnConnect \/ OnInformational \/ OnTrackedHeaders \/ OnUntrackedHeaders
          \/ OnErrorHeaders \/ OnResumeHeaders \/ OnDeclinedHeaders
          \/ OnData \/ OnComplete \/ OnError)
    BY <2>1 DEF OnConnect, OnInformational, OnTrackedHeaders, OnUntrackedHeaders, Responding,
       OnErrorHeaders, OnResumeHeaders, OnDeclinedHeaders, OnData, OnComplete, OnError
  <2>4. ASSUME NEW p \in promises, OnRejection(p) PROVE FALSE
    BY <1>1, <2>1, <2>2, <2>4, RejectionShows
  <2>5. ASSUME NEW d \in decisions, RetrySettled(d) PROVE terminal' = "abort"
    <3>1. MaybeError("abort")
      BY <1>1, <2>1, <2>2, <2>5, SettledShows
    <3>2. QED
      BY <1>1, <2>1, <3>1, MaybeErrorShows DEF ErrKinds, Replays
  <2>6. ~(ConsumeBody \/ DownstreamAbort)
    BY <1>1 DEF ConsumeBody, DownstreamAbort, Aborts, downVars
  <2>7. ~(Backoff \/ TimerFires \/ UNCHANGED vars)
    BY <1>1, WaitsAreQuiet DEF waitFrame, downVars
  <2>8. ~DownstreamResume
    BY <1>1, <2>1 DEF DownstreamResume
  <2>9. QED
    BY <1>1, <2>3, <2>4, <2>5, <2>6, <2>7, <2>8 DEF Next, Transport, Settle
<1>2. RetryInv /\ [Next]_vars => [Ends => terminal' = "abort"]_vars
  BY <1>1
<1>3. QED
  BY <1>2, RetryInvariance, PTL DEF Spec, AbortReasonWins

(* A wait is that of an open decision, and of a consumer that has not      *)
(* aborted.                                                                *)
WaitInv == backoff = "waiting" => decisions # {} /\ ~daborted

LEMMA WaitsKeep ==
  ASSUME RetryInv, WaitInv, [Next]_vars
  PROVE  WaitInv'
<1>1. CASE backoff = "waiting"
  <2>1. decisions # {} /\ ~daborted
    BY <1>1 DEF WaitInv
  <2>2. phase = "done" /\ attemptTerminated /\ replay = "none"
    BY <2>1, DecisionIsLast
  <2>3. ~(OnConnect \/ OnInformational \/ OnTrackedHeaders \/ OnUntrackedHeaders
          \/ OnErrorHeaders \/ OnResumeHeaders \/ OnDeclinedHeaders
          \/ OnData \/ OnComplete \/ OnError)
    BY <2>2 DEF OnConnect, OnInformational, OnTrackedHeaders, OnUntrackedHeaders, Responding,
       OnErrorHeaders, OnResumeHeaders, OnDeclinedHeaders, OnData, OnComplete, OnError
  <2>4. ASSUME NEW p \in promises, OnRejection(p) PROVE WaitInv'
    BY <2>1, <2>2, <2>4 DEF OnRejection, Terminates, errorVars, WaitInv
  <2>5. CASE Backoff \/ TimerFires \/ UNCHANGED vars
    BY <2>1, <2>5, WaitsAreQuiet DEF waitFrame, downVars, WaitInv
  <2>6. CASE Settle
    BY <2>6 DEF Settle, RetrySettled, WaitInv
  <2>7. CASE ConsumeBody
    BY <2>1, <2>7 DEF ConsumeBody, downVars, WaitInv
  <2>8. CASE DownstreamAbort
    BY <1>1, <2>8 DEF DownstreamAbort, CutsWait, WaitInv
  <2>9. CASE DownstreamResume
    BY <2>1, <2>2, <2>9 DEF DownstreamResume, Accepts, WaitInv
  <2>10. QED
    BY <2>3, <2>4, <2>5, <2>6, <2>7, <2>8, <2>9 DEF Next, Transport
<1>2. CASE backoff # "waiting" /\ backoff' = "waiting"
  <2>1. ~Transport
    BY <1>2 DEF Transport, OnConnect, OnInformational, OnTrackedHeaders,
       OnUntrackedHeaders, OnErrorHeaders, OnResumeHeaders, OnDeclinedHeaders, OnData,
       OnComplete, OnError, OnRejection, headersFrame, terminalFrame
  <2>2. ~(TimerFires \/ Settle \/ ConsumeBody \/ DownstreamAbort \/ DownstreamResume)
    BY <1>2 DEF TimerFires, Settle, RetrySettled, ConsumeBody, DownstreamAbort, CutsWait,
       DownstreamResume
  <2>3. Backoff
    BY <1>2, <2>1, <2>2 DEF Next, vars
  <2>4. daborted => aborted
    BY DEF RetryInv, ExchangeInv, EndInv
  <2>5. QED
    BY <2>3, <2>4 DEF Backoff, waitFrame, downVars, WaitInv
<1>3. QED
  BY <1>1, <1>2 DEF WaitInv

(* No wait outlives an abort: an aborted exchange whose decision is open   *)
(* depends on the strategy's answer alone and never on a timer, which is   *)
(* why the fairness of the timer ends with the abort.                      *)
THEOREM AbortsCutWaits == Spec => [](daborted => backoff # "waiting")
<1>1. Init => WaitInv
  BY DEF Init, WaitInv
<1>2. RetryInv /\ WaitInv /\ [Next]_vars => WaitInv'
  BY WaitsKeep
<1>3. WaitInv => (daborted => backoff # "waiting")
  BY DEF WaitInv
<1>4. QED
  BY <1>1, <1>2, <1>3, RetryInvariance, PTL DEF Spec

-----------------------------------------------------------------------------
(* The contract of the handler chain.                                      *)

(* What leaves the consumer's view alone is a stutter of the contract.     *)
LEMMA QuietStep ==
  ASSUME UNCHANGED <<connected, hdrs, got, daborted, terminal>>
  PROVE  [Contract!Next]_Contract!vars
BY DEF Contract!vars

LEMMA FailStep ==
  ASSUME terminal = "none", terminal' \in {"error", "abort"},
         UNCHANGED <<connected, hdrs, got, daborted>>
  PROVE  [Contract!Next]_Contract!vars
BY DEF Contract!Next, Contract!Fail

LEMMA DeliverStep ==
  ASSUME RetryInv', connected', headersSent', ~daborted, terminal = "none",
         hdrs = NoHeaders \/ hdrs' = hdrs, Len(got') >= Len(got),
         terminal' \in {"none", "complete"}, daborted' => terminal' # "complete"
  PROVE  [Contract!Next]_Contract!vars
<1>1. /\ hdrs'.start \in Nat /\ Run(got', hdrs', hdrs'.start) /\ daborted' \in BOOLEAN
  BY DEF RetryInv, ExchangeInv, DeliveryInv, EndTypes
<1>2. hdrs' # NoHeaders
  BY <1>1 DEF NoHeaders, Null
<1>3. Contract!Deliver
  BY <1>1, <1>2 DEF Contract!Deliver, Contract!Unit, Run
<1>4. QED
  BY <1>3 DEF Contract!Next

LEMMA NoHeadersYet ==
  ASSUME RetryInv, ~headersSent
  PROVE  hdrs = NoHeaders /\ got = <<>> /\ Len(got) = 0
BY EmptyRun DEF RetryInv, ExchangeInv, DeliveryInv

LEMMA ReplayDelivers ==
  ASSUME RetryInv, RetryInv', Replays, connected'
  PROVE  [Contract!Next]_Contract!vars
<1>1. ~headersSent /\ ~aborted /\ gate = "open" /\ headersSent'
  BY DEF Replays
<1>2. terminal = "none" /\ ~daborted
  BY <1>1 DEF RetryInv, ExchangeInv, EndInv, EndTypes
<1>3. hdrs = NoHeaders /\ Len(got') >= Len(got)
  BY <1>1, NoHeadersYet, LenProperties DEF RetryInv, EndTypes
<1>4. terminal' \in {"none", "complete"} /\ (daborted' => terminal' # "complete")
  BY <1>2 DEF Replays, Replayed, Drained, Held, Dropped, Aborts, Complete
<1>5. QED
  BY <1>1, <1>2, <1>3, <1>4, DeliverStep

LEMMA EndKeepsContract ==
  ASSUME RetryInv, RetryInv', NEW e \in ErrKinds, terminal # "complete",
         e = "null" => connected, connected' = connected,
         MaybeError(e) \/ Terminates(MaybeRetry(e))
  PROVE  [Contract!Next]_Contract!vars
<1>1. \/ UNCHANGED errorVars
      \/ MaybeError(e)
  BY DEF Terminates, MaybeRetry
<1>2. CASE UNCHANGED errorVars
  BY <1>2, QuietStep DEF errorVars
<1>3. CASE MaybeError(e)
  BY <1>3, MaybeErrorShows, QuietStep, FailStep, ReplayDelivers
<1>4. QED
  BY <1>1, <1>2, <1>3

LEMMA ConnectKeepsContract ==
  ASSUME RetryInv, OnConnect
  PROVE  [Contract!Next]_Contract!vars
<1>1. terminal = "none" /\ phase = "dispatched"
  BY DEF OnConnect, RetryInv, ExchangeInv, EndInv, EndTypes
<1>2. CASE headersSent
  BY <1>2, QuietStep DEF OnConnect
<1>3. CASE ~headersSent
  <2>1. hdrs = NoHeaders /\ daborted \in BOOLEAN
    BY <1>3, NoHeadersYet DEF RetryInv, EndTypes
  <2>2. /\ connected' = TRUE /\ daborted' \in {daborted, TRUE}
        /\ UNCHANGED <<hdrs, got, terminal>>
    BY <1>3, <2>1 DEF OnConnect
  <2>3. Contract!Connect
    BY <1>1, <2>1, <2>2 DEF Contract!Connect
  <2>4. QED
    BY <2>3 DEF Contract!Next
<1>4. QED
  BY <1>2, <1>3

LEMMA HeadersKeepContract ==
  ASSUME RetryInv, RetryInv', NEW start, NEW through, ForwardHeaders(start, through),
         Responding, ~headersSent, UNCHANGED headersFrame
  PROVE  [Contract!Next]_Contract!vars
<1>1. /\ UNCHANGED <<connected, got, terminal>> /\ headersSent' = TRUE
      /\ gate = "open" /\ phase = "connected" /\ ~tabort
  BY DEF headersFrame, ForwardHeaders, Responding
<1>2. connected /\ terminal = "none" /\ ~daborted
  BY <1>1 DEF RetryInv, ExchangeInv, EndInv, EndTypes
<1>3. hdrs = NoHeaders /\ Len(got') >= Len(got)
  BY <1>1, NoHeadersYet, LenProperties DEF RetryInv, EndTypes
<1>4. QED
  BY <1>1, <1>2, <1>3, DeliverStep

LEMMA DataKeepsContract ==
  ASSUME RetryInv, RetryInv', OnData
  PROVE  [Contract!Next]_Contract!vars
<1>1. /\ EndInv /\ DeliveryInv /\ EndTypes /\ AttemptTypes /\ phase = "body" /\ ~tabort
  BY DEF OnData, RetryInv, ExchangeInv
<1>2. /\ connected /\ ~daborted /\ terminal = "none" /\ ~errorSent
      /\ UNCHANGED <<connected, errorSent>>
  BY <1>1 DEF OnData, EndInv, EndTypes
<1>3. Len(got) \in Nat /\ \A x : Len(Append(got, x)) = Len(got) + 1
  BY <1>1, LenProperties, AppendProperties DEF EndTypes
<1>4. CASE headersSent
  <2>1. /\ got' = Append(got, <<resp.src, resp.next>>)
        /\ UNCHANGED <<headersSent, hdrs, terminal>>
    BY <1>2, <1>4 DEF OnData
  <2>2. Len(got') >= Len(got)
    BY <1>3, <2>1
  <2>3. QED
    BY <1>2, <1>4, <2>1, <2>2, DeliverStep
<1>5. CASE ~headersSent
  <2>1. status = "err" /\ hdrs = NoHeaders /\ Len(got) = 0
    BY <1>1, <1>5, NoHeadersYet DEF DeliveryInv
  <2>2. CASE Len(body) < Cap
    BY <1>2, <1>5, <2>1, <2>2, QuietStep DEF OnData
  <2>3. CASE ~(Len(body) < Cap)
    <3>1. PICK q : StartReplay(q, FALSE)
      BY <1>5, <2>1, <2>3 DEF OnData
    <3>2. headersSent' = TRUE /\ terminal' = terminal
      BY <3>1 DEF StartReplay, PumpReplay, Aborts
    <3>3. Len(got') >= Len(got)
      BY <2>1, LenProperties DEF RetryInv, EndTypes
    <3>4. QED
      BY <1>2, <2>1, <3>2, <3>3, DeliverStep
  <2>4. QED
    BY <2>2, <2>3
<1>6. QED
  BY <1>4, <1>5

LEMMA CompleteKeepsContract ==
  ASSUME RetryInv, RetryInv', OnComplete
  PROVE  [Contract!Next]_Contract!vars
<1>1. /\ phase = "body" /\ ~tabort /\ connected' = connected
  BY DEF OnComplete, terminalFrame
<1>2. connected /\ ~daborted /\ terminal = "none" /\ gate = "open"
  BY <1>1 DEF RetryInv, ExchangeInv, EndInv, EndTypes
<1>3. CASE ~attemptTerminated /\ (status # "err" \/ (headersSent /\ ~errorSent))
  <2>1. headersSent
    BY <1>1, <1>3 DEF RetryInv, ExchangeInv, DeliveryInv
  <2>2. Complete /\ UNCHANGED <<headersSent, hdrs, got, daborted>>
    BY <1>3 DEF OnComplete, Terminates
  <2>3. terminal' = "complete" /\ Len(got') >= Len(got)
    BY <1>2, <2>2, LenProperties DEF Complete, RetryInv, EndTypes
  <2>4. QED
    BY <1>1, <1>2, <2>1, <2>2, <2>3, DeliverStep
<1>4. CASE attemptTerminated \/ ~(status # "err" \/ (headersSent /\ ~errorSent))
  <2>1. Terminates(MaybeRetry("null"))
    BY <1>4 DEF OnComplete, Terminates
  <2>2. QED
    BY <1>1, <1>2, <2>1, EndKeepsContract DEF ErrKinds
<1>5. QED
  BY <1>3, <1>4

LEMMA ResumeKeepsContract ==
  ASSUME RetryInv, RetryInv', DownstreamResume
  PROVE  [Contract!Next]_Contract!vars
<1>1. /\ EndInv /\ DeliveryInv /\ EndTypes
      /\ dpaused /\ headersSent /\ connected
      /\ UNCHANGED <<connected, hdrs, headersSent>>
  BY DEF DownstreamResume, RetryInv, ExchangeInv, EndInv, DeliveryInv
<1>2. CASE via = "raw" \/ aborted \/ errorSent \/ replay = "none"
  BY <1>1, <1>2, QuietStep DEF DownstreamResume, Accepts
<1>3. CASE via # "raw" /\ ~aborted /\ ~errorSent /\ replay # "none"
  <2>1. PumpReplay(backlog, replay = "complete")
    BY <1>3 DEF DownstreamResume
  <2>2. terminal = "none" /\ ~daborted
    BY <1>1, <1>3 DEF EndInv
  <2>3. Replayed(hdrs, hdrs.start, Len(got) + Len(backlog), replay = "complete")
          /\ Len(got') >= Len(got)
    <3>1. /\ hdrs.start \in Int /\ Run(got, hdrs, hdrs.start) /\ Run(backlog, hdrs, hdrs.start + Len(got))
          /\ got \in Seq(Units) /\ backlog \in Seq(Units)
      BY <1>1 DEF DeliveryInv, EndTypes
    <3>2. QED
      BY <2>1, <3>1, PumpIs
  <2>4. terminal' \in {"none", "complete"} /\ (daborted' => terminal' # "complete")
    BY <2>2, <2>3 DEF Replayed, Drained, Held, Dropped, Aborts, Complete
  <2>5. QED
    BY <1>1, <2>2, <2>3, <2>4, DeliverStep
<1>4. QED
  BY <1>2, <1>3

LEMMA NextKeepsContract ==
  ASSUME RetryInv, RetryInv', [Next]_vars
  PROVE  [Contract!Next]_Contract!vars
<1>1. CASE OnConnect
  BY <1>1, ConnectKeepsContract
<1>2. CASE \/ OnInformational \/ OnErrorHeaders \/ OnResumeHeaders \/ ConsumeBody
           \/ Backoff \/ TimerFires \/ UNCHANGED vars
  <2>1. CASE OnInformational \/ OnErrorHeaders \/ OnResumeHeaders \/ ConsumeBody
    BY <2>1, QuietStep DEF OnInformational, OnErrorHeaders, OnResumeHeaders, ConsumeBody,
       headersFrame, downVars, finalVars
  <2>2. CASE Backoff \/ TimerFires \/ UNCHANGED vars
    BY <2>2, WaitsAreQuiet, QuietStep DEF waitFrame, downVars
  <2>3. QED
    BY <1>2, <2>1, <2>2
<1>3. CASE OnTrackedHeaders
  BY <1>3, HeadersKeepContract DEF OnTrackedHeaders
<1>4. CASE OnUntrackedHeaders
  BY <1>4, HeadersKeepContract DEF OnUntrackedHeaders
<1>5. CASE OnDeclinedHeaders
  <2>1. PICK e \in {"error", "null"} : MaybeError(e)
    BY <1>5 DEF OnDeclinedHeaders
  <2>2. terminal # "complete" /\ connected /\ connected' = connected
    BY <1>5 DEF OnDeclinedHeaders, Responding, RetryInv, ExchangeInv, EndInv
  <2>3. QED
    BY <2>1, <2>2, EndKeepsContract DEF ErrKinds
<1>6. CASE OnData
  BY <1>6, DataKeepsContract
<1>7. CASE OnComplete
  BY <1>7, CompleteKeepsContract
<1>8. CASE OnError
  <2>1. PICK e \in {"error", "abort"} : Terminates(MaybeRetry(e))
    BY <1>8 DEF OnError
  <2>2. terminal # "complete" /\ connected' = connected
    BY <1>8 DEF OnError, terminalFrame, RetryInv, ExchangeInv, EndInv
  <2>3. QED
    BY <2>1, <2>2, EndKeepsContract DEF ErrKinds
<1>9. ASSUME NEW p \in promises, OnRejection(p) PROVE [Contract!Next]_Contract!vars
  <2>1. connected' = connected
    BY <1>9 DEF OnRejection, terminalFrame
  <2>2. CASE UNCHANGED errorVars
    BY <2>1, <2>2, QuietStep DEF errorVars
  <2>3. CASE terminal # "complete" /\ Terminates(MaybeRetry("error"))
    BY <2>1, <2>3, EndKeepsContract DEF ErrKinds
  <2>4. QED
    BY <1>9, <2>2, <2>3, RejectionShows
<1>10. ASSUME NEW d \in decisions, RetrySettled(d) PROVE [Contract!Next]_Contract!vars
  <2>1. connected' = connected /\ terminal = "none" /\ (d.err = "null" => connected)
    BY <1>10, DecisionIsLast DEF RetrySettled
  <2>2. CASE UNCHANGED errorVars
    BY <2>1, <2>2, QuietStep DEF errorVars
  <2>3. CASE \E e \in ErrKinds : MaybeError(e) /\ (e = "null" => d.err = "null")
    BY <2>1, <2>3, EndKeepsContract
  <2>4. QED
    BY <1>10, <2>2, <2>3, SettledShows
<1>11. CASE DownstreamAbort
  <2>1. /\ connected /\ gate = "open" /\ daborted' = TRUE
        /\ UNCHANGED <<connected, hdrs, got, terminal>>
    BY <1>11 DEF DownstreamAbort, Aborts
  <2>2. terminal = "none"
    BY <2>1 DEF RetryInv, ExchangeInv, EndInv
  <2>3. Contract!Cancel
    BY <2>1, <2>2 DEF Contract!Cancel
  <2>4. QED
    BY <2>3 DEF Contract!Next
<1>12. CASE DownstreamResume
  BY <1>12, ResumeKeepsContract
<1>13. QED
  BY <1>1, <1>2, <1>3, <1>4, <1>5, <1>6, <1>7, <1>8, <1>9, <1>10, <1>11, <1>12
     DEF Next, Transport, Settle

(* However often an exchange is repeated, resumed or replayed, the handler *)
(* above sees one exchange: one set of headers, one run of one body, one   *)
(* end, and nothing but an error once it has aborted.                      *)
THEOREM RetryKeepsContract == Spec => KeepsContract
<1>1. Init => Contract!Init
  BY DEF Init, Contract!Init
<1>2. RetryInv /\ RetryInv' /\ [Next]_vars => [Contract!Next]_Contract!vars
  BY NextKeepsContract
<1>3. QED
  BY <1>1, <1>2, RetryInvariance, PTL DEF Spec, KeepsContract, Contract!Spec
=============================================================================
