-------------------------- MODULE RequestsProofs --------------------------
(***************************************************************************)
(* Theorems about Requests, for any number of calls, every configuration   *)
(* of the client and every behaviour of the network and the API.           *)
(***************************************************************************)
EXTENDS Requests, TLAPS

-----------------------------------------------------------------------------
(* The retry policy: what its operators return, for every width of the     *)
(* durations and every value of its constants.                             *)

(* Wrapping always lands in the range of a duration (retry.go:85,          *)
(* errors.go:105: Go's arithmetic cannot leave it).                        *)
LEMMA WrapInRange == ASSUME NEW x \in Int PROVE Wrap(x) \in Duration
<1> DEFINE span == 2 * (MaxDuration + 1)
<1>1. span \in Int /\ span > 0
  BY DurationAssumption
<1>2. (x + MaxDuration + 1) % span \in 0 .. span - 1
  <2> DEFINE y == x + MaxDuration + 1
  <2>1. y \in Int
    BY DurationAssumption
  <2> HIDE DEF y, span
  <2>2. y % span \in 0 .. span - 1
    BY <1>1, <2>1
  <2> QED BY <2>2 DEF y
<1>3. CASE x \in Duration
  BY <1>3 DEF Wrap
<1>4. CASE x \notin Duration
  BY <1>2, <1>4, DurationAssumption DEF Wrap, Duration
<1> QED BY <1>3, <1>4

(* Wrapping leaves what fits alone.                                        *)
LEMMA WrapFits == ASSUME NEW x \in Duration PROVE Wrap(x) = x
BY DEF Wrap

(* A Retry-After header becomes some duration (errors.go:97-106).          *)
LEMMA ParseType == ASSUME NEW h \in Int PROVE ParseRetryAfter(h) \in Duration
<1>1. CASE h \in 0 .. MaxDuration
  <2>1. h * Second \in Int
    BY DurationAssumption, <1>1
  <2> QED BY <1>1, <2>1, WrapInRange DEF ParseRetryAfter
<1>2. CASE h \notin 0 .. MaxDuration
  BY <1>2, DurationAssumption DEF ParseRetryAfter, Duration
<1> QED BY <1>1, <1>2

(* A header whose product with the second fits is read as what it says.    *)
LEMMA ParseExact ==
    ASSUME NEW h \in Nat, h * Second <= MaxDuration
    PROVE  ParseRetryAfter(h) = h * Second
<1>1. h * Second \in Nat /\ h <= h * Second
  BY DurationAssumption
<1>2. h \in 0 .. MaxDuration /\ h * Second \in Duration
  BY <1>1, DurationAssumption DEF Duration
<1> QED BY <1>2, WrapFits DEF ParseRetryAfter

(* The curve is a positive duration for every attempt (retry.go:97-104).   *)
LEMMA BackoffType ==
    ASSUME NEW a \in Nat PROVE ExponentialBackoff(a) \in 1 .. MaxDuration
<1>1. CASE a >= BackoffLimit
  BY <1>1, DurationAssumption DEF ExponentialBackoff
<1>2. CASE ~(a >= BackoffLimit)
  <2>1. a \in 0 .. BackoffLimit - 1
    BY <1>2, DurationAssumption
  <2> QED BY <1>2, <2>1, DurationAssumption DEF ExponentialBackoff
<1> QED BY <1>1, <1>2

(* The cap is a positive duration for every WithRetryMaxWait               *)
(* (retry.go:88-93).                                                       *)
LEMMA CapType ==
    ASSUME NEW m \in Duration PROVE EffectiveCap(m) \in 1 .. MaxDuration
BY DurationAssumption DEF EffectiveCap, Duration

(* The wait before jitter is a positive duration, at most the cap.         *)
LEMMA BaseWaitType ==
    ASSUME NEW a \in Nat, NEW ra \in Int, NEW m \in Duration
    PROVE  /\ BaseWait(a, ra, m) \in 1 .. MaxDuration
           /\ BaseWait(a, ra, m) <= EffectiveCap(m)
<1>1. ExponentialBackoff(a) \in 1 .. MaxDuration
  BY BackoffType
<1>2. EffectiveCap(m) \in 1 .. MaxDuration
  BY CapType
<1> QED BY <1>1, <1>2, DurationAssumption DEF BaseWait, Larger, Smaller

(* The padding is below maxRetryJitter and at most half of the wait        *)
(* (retry.go:109-120).                                                     *)
LEMMA JitterBound ==
    ASSUME NEW b \in Nat, NEW j \in Jitters(b)
    PROVE  j \in Nat /\ j < MaxRetryJitter /\ 2 * j <= b
<1>1. b \div 2 \in Nat /\ 2 * (b \div 2) <= b
  OBVIOUS
<1> QED BY <1>1, DurationAssumption DEF Jitters, Smaller

(* Every wait is some duration, and there is always one to draw.           *)
THEOREM RetryWaitsType ==
    ASSUME NEW a \in Nat, NEW ra \in Int, NEW m \in Duration
    PROVE  RetryWaits(a, ra, m) \subseteq Duration /\ RetryWaits(a, ra, m) # {}
<1> DEFINE base == BaseWait(a, ra, m)
<1>1. base \in Nat
  BY BaseWaitType, DurationAssumption
<1> HIDE DEF base
<1>2. \A j \in Jitters(base) : Wrap(base + j) \in Duration
  BY <1>1, JitterBound, WrapInRange
<1>3. 0 \in Jitters(base)
  BY DEF Jitters
<1> QED BY <1>2, <1>3 DEF RetryWaits, base

(* Whatever the server asks for and however far the curve has got, a wait  *)
(* is never below the demand and the curve as far as the cap allows, never *)
(* reaches the cap plus maxRetryJitter and never exceeds one and a half    *)
(* times the cap, provided the cap leaves room for the jitter in a         *)
(* Duration (retry.go:82-86).                                              *)
THEOREM RetryWaitBounds ==
    ASSUME NEW a \in Nat, NEW ra \in Int, NEW m \in Duration,
           EffectiveCap(m) + MaxRetryJitter <= MaxDuration,
           NEW w \in RetryWaits(a, ra, m)
    PROVE  /\ w >= BaseWait(a, ra, m)
           /\ w < EffectiveCap(m) + MaxRetryJitter
           /\ 2 * w <= 3 * EffectiveCap(m)
<1> DEFINE base == BaseWait(a, ra, m)
<1>1. base \in Nat /\ base <= EffectiveCap(m) /\ EffectiveCap(m) \in Nat
  BY BaseWaitType, CapType, DurationAssumption
<1>2. PICK j \in Jitters(base) : w = Wrap(base + j)
  BY DEF RetryWaits
<1> HIDE DEF base
<1>3. j \in Nat /\ j < MaxRetryJitter /\ 2 * j <= base
  BY <1>1, JitterBound
<1>4. w = base + j
  <2>1. base + j \in Duration
    BY <1>1, <1>3, DurationAssumption DEF Duration
  <2> QED BY <1>2, <2>1, WrapFits
<1>5. w >= base /\ w < EffectiveCap(m) + MaxRetryJitter /\ 2 * w <= 3 * EffectiveCap(m)
  BY <1>1, <1>3, <1>4, DurationAssumption
<1> QED BY <1>5 DEF base
-----------------------------------------------------------------------------
(* Types.                                                                  *)

(* Decoding a response yields an outcome, and never one that hides that    *)
(* the API answered 2xx (firezone.go:474-485, 498-503).                    *)
LEMMA DecodeType ==
    ASSUME NEW k \in Kinds, NEW d \in Datas
    PROVE  /\ Decode(k, d) \in [err : {"none", "decode"}, status : {0},
                                filled : BOOLEAN]
BY DEF Decode, Kinds, Datas, Decoded, DecodeError

(* The API's answers are well formed.                                      *)
LEMMA AnswersType ==
    ASSUME NEW r \in Request, NEW s \in Statuses, NEW a \in Answers(r, s)
    PROVE  /\ a \in Reply
           /\ a.call = r.call /\ a.attempt = r.attempt /\ a.status = s
BY DEF Answers, Reply, Request, Datas

(* Type correctness of the calls, the network and the history.             *)
THEOREM TypeCorrect == Spec => []TypeOK
<1>1. Init => TypeOK
  BY DurationAssumption
     DEF Init, TypeOK, Kinds, NoOutcome, Duration
<1>2. TypeOK /\ [Next]_vars => TypeOK'
  <2> SUFFICES ASSUME TypeOK, [Next]_vars PROVE TypeOK'
    OBVIOUS
  <2> USE DEF TypeOK
  <2>1. ASSUME NEW c \in Calls, Start(c) PROVE TypeOK'
    BY <2>1 DEF Start, network
  <2>2. ASSUME NEW c \in Calls, CtxDone(c) PROVE TypeOK'
    BY <2>2 DEF CtxDone, network, history
  <2>3. ASSUME NEW c \in Calls, RawRequest(c) PROVE TypeOK'
    <3>1. [call |-> c, attempt |-> attempt[c]] \in Request
      BY DEF Request
    <3>2. wire' \subseteq Request /\ pc' \in [Calls -> {"idle", "loop", "inflight",
                                                      "waiting", "returned"}]
      BY <2>3, <3>1 DEF RawRequest
    <3>3. sent' \in [Calls -> Nat]
      BY <2>3 DEF RawRequest
    <3> QED BY <2>3, <3>2, <3>3 DEF RawRequest
  <2>4. ASSUME NEW c \in Calls, RawRequestRefused(c) PROVE TypeOK'
    BY <2>4 DEF RawRequestRefused, Return, Transport, network, history
  <2>5. ASSUME NEW c \in Calls, Succeed(c) PROVE TypeOK'
    <3>1. PICK r \in replies :
             /\ Return(c, Decode(kind[c], r.data))
             /\ replies' = replies \ {r}
             /\ UNCHANGED <<client, kind, attempt, wait, ctxDone, wire, log, history>>
      BY <2>5 DEF Succeed
    <3>2. r.data \in Datas /\ kind[c] \in Kinds
      BY DEF Reply
    <3> QED BY <3>1, <3>2, DecodeType DEF Return, history
  <2>6. ASSUME NEW c \in Calls, Fail(c) PROVE TypeOK'
    <3>1. PICK r \in replies :
             /\ Return(c, APIError(r.status))
             /\ replies' = replies \ {r}
             /\ UNCHANGED <<client, kind, attempt, wait, ctxDone, wire, log, history>>
      BY <2>6 DEF Fail
    <3>2. r.status \in Statuses
      BY DEF Reply
    <3> QED BY <3>1, <3>2 DEF Return, APIError, history
  <2>7. ASSUME NEW c \in Calls, BackOff(c) PROVE TypeOK'
    <3>1. PICK r \in replies :
             /\ \E w \in RetryWaits(attempt[c], ParseRetryAfter(r.header),
                                    client.retryMaxWait) :
                    wait' = [wait EXCEPT ![c] = w]
             /\ asked' = [asked EXCEPT ![c] = Larger(0, r.header) * Second]
             /\ pc' = [pc EXCEPT ![c] = "waiting"]
             /\ replies' = replies \ {r}
             /\ UNCHANGED <<client, kind, attempt, ctxDone, outcome, wire, log,
                            sent, slept, before>>
      BY <2>7 DEF BackOff
    <3>2. r.header \in Int
      <4>1. r.header \in Headers \union {-1}
        BY DEF Reply
      <4>2. Headers \subseteq Int
        BY EnvironmentAssumption
      <4>3. -1 \in Int
        OBVIOUS
      <4>4. CASE r.header \in Headers
        BY <4>2, <4>4
      <4>5. CASE r.header = -1
        BY <4>3, <4>5
      <4> QED BY <4>1, <4>4, <4>5
    <3>3. ParseRetryAfter(r.header) \in Int
      <4> HIDE DEF TypeOK
      <4> QED BY <3>2, ParseType, DurationAssumption DEF Duration
    <3>4. client.retryMaxWait \in Duration
      BY ClientsAssumption
    <3>5. wait' \in [Calls -> Duration]
      BY <3>1, <3>3, <3>4, RetryWaitsType
    <3>6. Larger(0, r.header) * Second \in Nat
      <4>1. Larger(0, r.header) \in Nat
        BY <3>2 DEF Larger
      <4> QED BY <4>1, DurationAssumption
    <3> QED BY <3>1, <3>5, <3>6
  <2>8. ASSUME NEW c \in Calls, Wake(c) PROVE TypeOK'
    <3>1. 0 \in Duration /\ Larger(0, wait[c]) \in Nat
      BY DurationAssumption DEF Duration, Larger
    <3> QED BY <2>8, <3>1 DEF Wake, network
  <2>9. ASSUME NEW c \in Calls, CancelWait(c) PROVE TypeOK'
    <3>1. 0 \in Duration
      BY DurationAssumption DEF Duration
    <3> QED BY <2>9, <3>1 DEF CancelWait, Return, ContextDone, network, history
  <2>10. ASSUME NEW c \in Calls, GiveUp(c) PROVE TypeOK'
    BY <2>10 DEF GiveUp, Return, Transport, history
  <2>11. ASSUME NEW r \in wire, Serve(r) PROVE TypeOK'
    <3>1. r \in Request
      OBVIOUS
    <3>2. PICK status \in Statuses :
             /\ \E p \in Processed(status) :
                    log' = IF p THEN Append(log, r.call) ELSE log
             /\ wire' = wire \ {r}
             /\ IF pc[r.call] = "inflight" /\ attempt[r.call] = r.attempt
                THEN \E a \in Answers(r, status) : replies' = replies \union {a}
                ELSE UNCHANGED replies
             /\ UNCHANGED <<client, clientVars, history>>
      BY <2>11 DEF Serve
    <3>3. log' \in Seq(Calls)
      <4>1. r.call \in Calls /\ log \in Seq(Calls)
        BY <3>1 DEF Request
      <4> HIDE DEF TypeOK
      <4>2. Append(log, r.call) \in Seq(Calls)
        BY <4>1
      <4>3. log' = log \/ log' = Append(log, r.call)
        BY <3>2
      <4> QED BY <4>1, <4>2, <4>3
    <3>4. replies' \subseteq Reply
      BY <3>1, <3>2, AnswersType
    <3> QED BY <3>2, <3>3, <3>4 DEF clientVars, history
  <2>12. CASE UNCHANGED vars
    BY <2>12 DEF vars, clientVars, network, history
  <2> QED BY <2>1, <2>2, <2>3, <2>4, <2>5, <2>6, <2>7, <2>8, <2>9, <2>10, <2>11,
             <2>12 DEF Next, Step, RequestTimeout, CtxAbort, NetworkError, Quiescent
<1> QED BY <1>1, <1>2, PTL DEF Spec

-----------------------------------------------------------------------------
(* At most once, and the soundness of the verdicts.                        *)

(* A step of one call that adds nothing to the network keeps TraceInv if   *)
(* what it says of that call fits the traces the call has left.            *)
LEMMA OneCallSteps ==
    ASSUME TypeOK, TraceInv, NEW c \in Calls,
           log' = log, wire' \subseteq wire, replies' \subseteq replies,
           \A d \in Calls : d # c => pc'[d] = pc[d] /\ outcome'[d] = outcome[d],
           \A r \in wire' : r.call = c => /\ pc'[c] \in {"inflight", "returned"}
                                          /\ Verdict(c)' \in {"pending", "unknown"},
           \A a \in replies' : a.call = c => pc'[c] = "inflight",
           Applied(c) => pc'[c] \in {"inflight", "returned"},
           Verdict(c)' = "done" => Applied(c),
           Verdict(c)' = "refused" => ~Applied(c) /\ \A r \in wire' : r.call # c
    PROVE  TraceInv'
<1>1. \A d \in Calls : d # c => Verdict(d)' = Verdict(d)
  BY DEF Verdict
<1>2. \A d : Applied(d)' <=> Applied(d)
  BY DEF Applied
<1>3. \A r \in wire : r.call \in Calls
  BY DEF TypeOK, Request
<1>4. \A a \in replies : a.call \in Calls
  BY DEF TypeOK, Reply
<1> HIDE DEF Verdict, Applied
<1>5. WireInv'
  <2> SUFFICES ASSUME NEW r \in wire'
               PROVE  /\ pc'[r.call] \in {"inflight", "returned"}
                      /\ Verdict(r.call)' \in {"pending", "unknown"}
                      /\ ~Applied(r.call)'
                      /\ \A s \in wire' : s.call = r.call => s = r
                      /\ \A a \in replies' : a.call # r.call
    BY DEF WireInv
  <2>1. pc[r.call] \in {"inflight", "returned"} /\ Verdict(r.call) \in {"pending", "unknown"}
    BY DEF TraceInv, WireInv
  <2>2. pc'[r.call] \in {"inflight", "returned"} /\ Verdict(r.call)' \in {"pending", "unknown"}
    <3>1. CASE r.call = c
      BY <3>1
    <3>2. CASE r.call # c
      BY <1>1, <1>3, <2>1, <3>2
    <3> QED BY <3>1, <3>2
  <2>3. ~Applied(r.call)'
    BY <1>2 DEF TraceInv, WireInv
  <2>4. \A s \in wire' : s.call = r.call => s = r
    BY DEF TraceInv, WireInv
  <2>5. \A a \in replies' : a.call # r.call
    BY DEF TraceInv, WireInv
  <2> QED BY <2>2, <2>3, <2>4, <2>5
<1>6. RepliesInv'
  BY <1>2, <1>4 DEF TraceInv, RepliesInv
<1>7. BetweenAttemptsInv'
  BY <1>2 DEF TraceInv, BetweenAttemptsInv
<1>8. AtMostOnce'
  BY DEF TraceInv, AtMostOnce
<1>9. VerdictSound'
  BY <1>1, <1>2 DEF TraceInv, VerdictSound
<1> QED BY <1>5, <1>6, <1>7, <1>8, <1>9 DEF TraceInv

(* A call that is not in flight and has not returned has left no trace.    *)
LEMMA NoTrace ==
    ASSUME TraceInv, NEW c \in Calls, pc[c] \in {"idle", "loop", "waiting"}
    PROVE  /\ ~Applied(c)
           /\ \A r \in wire : r.call # c
           /\ \A a \in replies : a.call # c
BY DEF TraceInv, WireInv, RepliesInv, BetweenAttemptsInv

(* A response on its way is the only trace of its call.                    *)
LEMMA OnlyTrace ==
    ASSUME TraceInv, NEW a \in replies
    PROVE  /\ \A r \in wire : r.call # a.call
           /\ \A b \in replies \ {a} : b.call # a.call
           /\ IsSuccess(a.status) => Applied(a.call)
           /\ ~IsSuccess(a.status) /\ ~IsServerError(a.status) => ~Applied(a.call)
BY DEF TraceInv, WireInv, RepliesInv

(* A new attempt: the request becomes the only trace of its call.          *)
LEMMA RawRequestKeepsTrace ==
    ASSUME TypeOK, TraceInv, NEW c \in Calls, RawRequest(c)
    PROVE  TraceInv'
<1> DEFINE q == [call |-> c, attempt |-> attempt[c]]
<1>1. /\ ~Applied(c)
      /\ \A r \in wire : r.call # c
      /\ \A a \in replies : a.call # c
  BY NoTrace DEF RawRequest
<1>2. /\ wire' = wire \union {q} /\ q.call = c
      /\ pc' = [pc EXCEPT ![c] = "inflight"]
      /\ log' = log /\ replies' = replies /\ outcome' = outcome
  BY DEF RawRequest
<1> HIDE DEF q
<1>3. \A d \in Calls : d # c => pc'[d] = pc[d] /\ Verdict(d)' = Verdict(d)
  BY <1>2 DEF Verdict, TypeOK
<1>4. pc'[c] = "inflight" /\ Verdict(c)' = "pending"
  BY <1>2 DEF Verdict, TypeOK
<1>5. \A d : Applied(d)' <=> Applied(d)
  BY <1>2 DEF Applied
<1>6. /\ \A r \in wire : r.call \in Calls
      /\ \A a \in replies : a.call \in Calls
  BY DEF TypeOK, Request, Reply
<1> HIDE DEF Verdict, Applied
<1>7. WireInv'
  <2>1. /\ \A r \in wire : /\ pc'[r.call] \in {"inflight", "returned"}
                           /\ Verdict(r.call)' \in {"pending", "unknown"}
        /\ \A r \in wire : ~Applied(r.call)'
    BY <1>1, <1>3, <1>5, <1>6 DEF TraceInv, WireInv
  <2>2. \A r, s \in wire' : s.call = r.call => s = r
    BY <1>1, <1>2 DEF TraceInv, WireInv
  <2>3. \A r \in wire' : \A a \in replies' : a.call # r.call
    BY <1>1, <1>2 DEF TraceInv, WireInv
  <2> QED BY <1>1, <1>2, <1>4, <1>5, <2>1, <2>2, <2>3 DEF WireInv
<1>8. RepliesInv'
  BY <1>1, <1>2, <1>3, <1>5, <1>6 DEF TraceInv, RepliesInv
<1>9. BetweenAttemptsInv'
  BY <1>3, <1>4, <1>5 DEF TraceInv, BetweenAttemptsInv
<1>10. AtMostOnce'
  BY <1>2 DEF TraceInv, AtMostOnce
<1>11. VerdictSound'
  BY <1>2, <1>3, <1>4, <1>5 DEF TraceInv, VerdictSound
<1> QED BY <1>7, <1>8, <1>9, <1>10, <1>11 DEF TraceInv

(* Whether the API has processed a request is a Boolean that a 2xx and a   *)
(* refusal tell.                                                           *)
LEMMA ProcessedTells ==
    ASSUME NEW s \in Statuses
    PROVE  /\ Processed(s) \subseteq BOOLEAN
           /\ IsSuccess(s) => Processed(s) = {TRUE}
           /\ ~IsSuccess(s) /\ ~IsServerError(s) => Processed(s) = {FALSE}
BY ZenonT(20) DEF Processed, IsSuccess, IsServerError

(* The API consumes a request and perhaps answers: the effect, if any, is  *)
(* the first of its call, and the answer tells of it.                      *)
LEMMA ServeKeepsTrace ==
    ASSUME TypeOK, TraceInv, NEW r \in wire, Serve(r)
    PROVE  TraceInv'
<1> DEFINE c == r.call
<1>1. PICK status \in Statuses, p \in BOOLEAN :
         /\ p \in Processed(status)
         /\ log' = IF p THEN Append(log, c) ELSE log
         /\ wire' = wire \ {r}
         /\ IF pc[r.call] = "inflight" /\ attempt[r.call] = r.attempt
            THEN \E a \in Answers(r, status) : replies' = replies \union {a}
            ELSE UNCHANGED replies
         /\ UNCHANGED <<client, clientVars, history>>
  <2>1. \A s \in Statuses : Processed(s) \subseteq BOOLEAN
    BY ProcessedTells
  <2> QED BY <2>1 DEF Serve
<1>2. /\ c \in Calls /\ r \in Request
  BY DEF TypeOK, Request
<1>3. /\ pc[c] \in {"inflight", "returned"}
      /\ Verdict(c) \in {"pending", "unknown"}
      /\ ~Applied(c)
      /\ \A s \in wire \ {r} : s.call # c
      /\ \A a \in replies : a.call # c
  BY DEF TraceInv, WireInv
<1>4. pc' = pc /\ outcome' = outcome
  BY <1>1 DEF clientVars
<1>5. \A d : Verdict(d)' = Verdict(d)
  BY <1>4 DEF Verdict
<1>6. log \in Seq(Calls)
  BY DEF TypeOK
<1>7. \A i \in DOMAIN log : log[i] # c
  BY <1>3 DEF Applied
<1>8. /\ \A d : d # c => (Applied(d)' <=> Applied(d))
      /\ Applied(c)' <=> p
  <2>1. CASE ~p
    <3>1. log' = log
      BY <1>1, <2>1
    <3> QED BY <1>3, <2>1, <3>1 DEF Applied
  <2>2. CASE p
    <3>1. log' = Append(log, c)
      BY <1>1, <2>2
    <3> HIDE DEF c
    <3>2. /\ DOMAIN log' = 1 .. Len(log) + 1 /\ DOMAIN log = 1 .. Len(log)
          /\ Len(log) \in Nat
          /\ \A i \in 1 .. Len(log) : log'[i] = log[i]
          /\ log'[Len(log) + 1] = c
      BY <1>6, <3>1
    <3> QED BY <1>2, <2>2, <3>2 DEF Applied
  <2> QED BY <2>1, <2>2
<1>9. AtMostOnce'
  <2>1. CASE ~p
    BY <1>1, <2>1 DEF TraceInv, AtMostOnce
  <2>2. CASE p
    <3>1. log' = Append(log, c)
      BY <1>1, <2>2
    <3> HIDE DEF c
    <3>2. /\ DOMAIN log' = 1 .. Len(log) + 1 /\ DOMAIN log = 1 .. Len(log)
          /\ Len(log) \in Nat
          /\ \A i \in 1 .. Len(log) : log'[i] = log[i]
          /\ log'[Len(log) + 1] = c
      BY <1>6, <3>1
    <3>3. \A i \in 1 .. Len(log) : log'[i] # c
      BY <1>7, <3>2
    <3>4. \A i, j \in 1 .. Len(log) : log'[i] = log'[j] => i = j
      BY <3>2 DEF TraceInv, AtMostOnce
    <3> QED BY <1>2, <3>2, <3>3, <3>4 DEF AtMostOnce
  <2> QED BY <2>1, <2>2
<1> HIDE DEF Verdict, Applied, c
<1>10. WireInv'
  <2>1. \A s \in wire' : s.call # c /\ s \in wire
    BY <1>1, <1>3
  <2>2. \A s \in wire' : \A a \in replies' : a.call # s.call
    <3>1. \A a \in replies' : a \in replies \/ a.call = c
      BY <1>1, <1>2, AnswersType DEF c
    <3> QED BY <2>1, <3>1 DEF TraceInv, WireInv
  <2> QED BY <1>4, <1>5, <1>8, <2>1, <2>2 DEF TraceInv, WireInv
<1>11. RepliesInv'
  <2>1. \A a \in replies : /\ a.call # c
                           /\ pc'[a.call] = "inflight"
                           /\ IsSuccess(a.status) => Applied(a.call)'
                           /\ ~IsSuccess(a.status) /\ ~IsServerError(a.status)
                                 => ~Applied(a.call)'
                           /\ \A b \in replies : b.call = a.call => b = a
    BY <1>3, <1>4, <1>8 DEF TraceInv, RepliesInv
  <2>2. CASE replies' = replies
    BY <2>1, <2>2 DEF RepliesInv
  <2>3. CASE /\ pc[c] = "inflight"
             /\ \E a \in Answers(r, status) : replies' = replies \union {a}
    <3>1. PICK n \in Answers(r, status) : replies' = replies \union {n}
      BY <2>3
    <3>2. n.call = c /\ n.status = status
      BY <1>2, AnswersType DEF c
    <3>3. /\ IsSuccess(status) => p
          /\ ~IsSuccess(status) /\ ~IsServerError(status) => ~p
      BY <1>1, ProcessedTells
    <3> QED BY <1>4, <1>8, <2>1, <2>3, <3>1, <3>2, <3>3 DEF RepliesInv
  <2> QED BY <1>1, <2>2, <2>3 DEF c
<1>12. BetweenAttemptsInv'
  BY <1>3, <1>4, <1>8 DEF TraceInv, BetweenAttemptsInv
<1>13. VerdictSound'
  <2> SUFFICES ASSUME NEW d \in Calls
               PROVE  /\ Verdict(d)' = "done" => Applied(d)'
                      /\ Verdict(d)' = "refused" =>
                            ~Applied(d)' /\ \A s \in wire' : s.call # d
    BY DEF VerdictSound
  <2>1. CASE d = c
    BY <1>3, <1>5, <2>1
  <2>2. CASE d # c
    BY <1>1, <1>5, <1>8, <2>2 DEF TraceInv, VerdictSound
  <2> QED BY <2>1, <2>2
<1> QED BY <1>9, <1>10, <1>11, <1>12, <1>13 DEF TraceInv

(* TraceInv holds throughout.                                              *)
THEOREM TraceInvariance == Spec => []TraceInv
<1>1. Init => TraceInv
  BY DEF Init, TraceInv, WireInv, RepliesInv, BetweenAttemptsInv, AtMostOnce,
         VerdictSound, Verdict, Applied
<1>2. TypeOK /\ TraceInv /\ [Next]_vars => TraceInv'
  <2> SUFFICES ASSUME TypeOK, TraceInv, [Next]_vars PROVE TraceInv'
    OBVIOUS
  <2>1. ASSUME NEW c \in Calls, Start(c) PROVE TraceInv'
    <3>1. /\ ~Applied(c)
          /\ \A r \in wire : r.call # c
          /\ \A a \in replies : a.call # c
      BY <2>1, NoTrace DEF Start
    <3>2. /\ log' = log /\ wire' = wire /\ replies' = replies
          /\ \A d \in Calls : d # c => pc'[d] = pc[d] /\ outcome'[d] = outcome[d]
          /\ Verdict(c)' = "pending"
      BY <2>1 DEF Start, network, TypeOK, Verdict
    <3> QED BY <3>1, <3>2, OneCallSteps
  <2>2. ASSUME NEW c \in Calls, CtxDone(c) PROVE TraceInv'
    <3>1. pc' = pc /\ outcome' = outcome /\ log' = log /\ wire' = wire
          /\ replies' = replies
      BY <2>2 DEF CtxDone, network
    <3> QED BY <3>1 DEF TraceInv, WireInv, RepliesInv, BetweenAttemptsInv,
                        AtMostOnce, VerdictSound, Verdict, Applied
  <2>3. ASSUME NEW c \in Calls, RawRequest(c) PROVE TraceInv'
    BY <2>3, RawRequestKeepsTrace
  <2>4. ASSUME NEW c \in Calls, RawRequestRefused(c) PROVE TraceInv'
    <3>1. /\ ~Applied(c)
          /\ \A r \in wire : r.call # c
          /\ \A a \in replies : a.call # c
      BY <2>4, NoTrace DEF RawRequestRefused
    <3>2. /\ log' = log /\ wire' = wire /\ replies' = replies
          /\ \A d \in Calls : d # c => pc'[d] = pc[d] /\ outcome'[d] = outcome[d]
          /\ Verdict(c)' = "unknown"
      BY <2>4 DEF RawRequestRefused, Return, Transport, network, TypeOK, Verdict
    <3> QED BY <3>1, <3>2, OneCallSteps
  <2>5. ASSUME NEW c \in Calls, Succeed(c) PROVE TraceInv'
    <3>1. PICK r \in replies :
             /\ Answered(c, r) /\ IsSuccess(r.status)
             /\ Return(c, Decode(kind[c], r.data))
             /\ replies' = replies \ {r} /\ wire' = wire /\ log' = log
      BY <2>5 DEF Succeed
    <3>2. /\ \A s \in wire : s.call # c
          /\ \A a \in replies' : a.call # c
          /\ Applied(c)
      BY <3>1, OnlyTrace DEF Answered
    <3>3. Decode(kind[c], r.data).err \in {"none", "decode"}
      <4>1. kind[c] \in Kinds /\ r.data \in Datas
        BY DEF TypeOK, Reply
      <4> QED BY <4>1, DecodeType
    <3>4. /\ \A d \in Calls : d # c => pc'[d] = pc[d] /\ outcome'[d] = outcome[d]
          /\ pc'[c] = "returned" /\ Verdict(c)' = "done"
      BY <3>1, <3>3 DEF Return, TypeOK, Verdict
    <3> QED BY <3>1, <3>2, <3>4, OneCallSteps
  <2>6. ASSUME NEW c \in Calls, Fail(c) PROVE TraceInv'
    <3>1. PICK r \in replies :
             /\ Answered(c, r) /\ ~IsSuccess(r.status)
             /\ Return(c, APIError(r.status))
             /\ replies' = replies \ {r} /\ wire' = wire /\ log' = log
      BY <2>6 DEF Fail
    <3>2. /\ \A s \in wire : s.call # c
          /\ \A a \in replies' : a.call # c
          /\ ~IsServerError(r.status) => ~Applied(c)
      BY <3>1, OnlyTrace DEF Answered
    <3>3. /\ \A d \in Calls : d # c => pc'[d] = pc[d] /\ outcome'[d] = outcome[d]
          /\ pc'[c] = "returned"
          /\ Verdict(c)' = IF IsServerError(r.status) THEN "unknown" ELSE "refused"
      BY <3>1 DEF Return, APIError, TypeOK, Verdict
    <3> QED BY <3>1, <3>2, <3>3, OneCallSteps
  <2>7. ASSUME NEW c \in Calls, BackOff(c) PROVE TraceInv'
    <3>1. PICK r \in replies :
             /\ Answered(c, r) /\ IsRateLimited(r.status)
             /\ pc' = [pc EXCEPT ![c] = "waiting"] /\ outcome' = outcome
             /\ replies' = replies \ {r} /\ wire' = wire /\ log' = log
      BY <2>7 DEF BackOff, Retries
    <3>2. ~IsSuccess(r.status) /\ ~IsServerError(r.status)
      BY <3>1 DEF IsRateLimited, IsSuccess, IsServerError
    <3>3. /\ \A s \in wire : s.call # c
          /\ \A a \in replies' : a.call # c
          /\ ~Applied(c)
      BY <3>1, <3>2, OnlyTrace DEF Answered
    <3>4. /\ \A d \in Calls : d # c => pc'[d] = pc[d] /\ outcome'[d] = outcome[d]
          /\ Verdict(c)' = "pending"
      BY <3>1 DEF TypeOK, Verdict
    <3> QED BY <3>1, <3>3, <3>4, OneCallSteps
  <2>8. ASSUME NEW c \in Calls, Wake(c) PROVE TraceInv'
    <3>1. /\ ~Applied(c)
          /\ \A r \in wire : r.call # c
          /\ \A a \in replies : a.call # c
      BY <2>8, NoTrace DEF Wake
    <3>2. /\ log' = log /\ wire' = wire /\ replies' = replies
          /\ \A d \in Calls : d # c => pc'[d] = pc[d] /\ outcome'[d] = outcome[d]
          /\ Verdict(c)' = "pending"
      BY <2>8 DEF Wake, network, TypeOK, Verdict
    <3> QED BY <3>1, <3>2, OneCallSteps
  <2>9. ASSUME NEW c \in Calls, CancelWait(c) PROVE TraceInv'
    <3>1. /\ ~Applied(c)
          /\ \A r \in wire : r.call # c
          /\ \A a \in replies : a.call # c
      BY <2>9, NoTrace DEF CancelWait
    <3>2. /\ log' = log /\ wire' = wire /\ replies' = replies
          /\ \A d \in Calls : d # c => pc'[d] = pc[d] /\ outcome'[d] = outcome[d]
          /\ Verdict(c)' = "refused"
      BY <2>9 DEF CancelWait, Return, ContextDone, network, TypeOK, Verdict
    <3> QED BY <3>1, <3>2, OneCallSteps
  <2>10. ASSUME NEW c \in Calls, GiveUp(c) PROVE TraceInv'
    <3>1. /\ log' = log /\ wire' = wire /\ replies' \subseteq replies
          /\ \A a \in replies' : a.call # c
          /\ \A d \in Calls : d # c => pc'[d] = pc[d] /\ outcome'[d] = outcome[d]
          /\ pc'[c] = "returned" /\ Verdict(c)' = "unknown"
      BY <2>10 DEF GiveUp, Return, Transport, TypeOK, Verdict
    <3> QED BY <3>1, OneCallSteps
  <2>11. ASSUME NEW r \in wire, Serve(r) PROVE TraceInv'
    BY <2>11, ServeKeepsTrace
  <2>12. CASE UNCHANGED vars
    <3>1. pc' = pc /\ outcome' = outcome /\ log' = log /\ wire' = wire
          /\ replies' = replies
      BY <2>12 DEF vars, clientVars, network
    <3> QED BY <3>1 DEF TraceInv, WireInv, RepliesInv, BetweenAttemptsInv,
                        AtMostOnce, VerdictSound, Verdict, Applied
  <2> QED BY <2>1, <2>2, <2>3, <2>4, <2>5, <2>6, <2>7, <2>8, <2>9, <2>10, <2>11,
             <2>12 DEF Next, Step, RequestTimeout, CtxAbort, NetworkError, Quiescent
<1> QED BY <1>1, <1>2, TypeCorrect, PTL DEF Spec

(* Whatever is lost, late or throttled, the API processes no call twice.   *)
THEOREM NoCallTwice == Spec => []AtMostOnce
<1>1. TraceInv => AtMostOnce
  BY DEF TraceInv
<1> QED BY <1>1, TraceInvariance, PTL

(* A success means it happened; a refusal means it has not and cannot.     *)
THEOREM VerdictsAreSound == Spec => []VerdictSound
<1>1. TraceInv => VerdictSound
  BY DEF TraceInv
<1> QED BY <1>1, TraceInvariance, PTL

-----------------------------------------------------------------------------
(* The retry budget and the waits.                                         *)

(* What keeps the budget: the loop variable counts the requests.           *)
LEMMA LoopInvariance == Spec => [](LoopInv /\ RetryBudget)
<1> DEFINE Inv == LoopInv /\ RetryBudget
<1>1. TypeOK /\ Init => Inv
  <2>1. client \in Clients => Budget \in Nat /\ 0 < Budget
    BY ClientsAssumption DEF Budget
  <2> QED BY <2>1 DEF Init, TypeOK, LoopInv, RetryBudget, RateLimitedOut, NoOutcome
<1>2. TypeOK /\ Inv /\ [Next]_vars => Inv'
  <2> SUFFICES ASSUME TypeOK, Inv, [Next]_vars PROVE Inv'
    OBVIOUS
  <2>a. Budget \in Nat /\ 0 < Budget
    BY ClientsAssumption DEF TypeOK, Budget
  <2>b. ASSUME client' = client PROVE Budget' = Budget
    BY <2>b DEF Budget
  <2> USE DEF LoopInv, RetryBudget
  <2>1. ASSUME NEW c \in Calls, Start(c) PROVE Inv'
    BY <2>1, <2>b DEF Start, TypeOK, RateLimitedOut
  <2>2. ASSUME NEW c \in Calls, CtxDone(c) PROVE Inv'
    BY <2>2, <2>b DEF CtxDone, history, RateLimitedOut
  <2>3. ASSUME NEW c \in Calls, RawRequest(c) PROVE Inv'
    BY <2>3, <2>a, <2>b DEF RawRequest, TypeOK, RateLimitedOut
  <2>4. ASSUME NEW c \in Calls, RawRequestRefused(c) PROVE Inv'
    BY <2>4, <2>b DEF RawRequestRefused, Return, Transport, history, TypeOK,
                      RateLimitedOut
  <2>5. ASSUME NEW c \in Calls, Succeed(c) PROVE Inv'
    <3>1. PICK r \in replies :
             /\ pc' = [pc EXCEPT ![c] = "returned"]
             /\ outcome' = [outcome EXCEPT ![c] = Decode(kind[c], r.data)]
             /\ UNCHANGED <<client, attempt, sent>>
      BY <2>5 DEF Succeed, Return, history
    <3>2. Decode(kind[c], r.data).err # "api"
      <4>1. kind[c] \in Kinds /\ r.data \in Datas
        BY DEF TypeOK, Reply
      <4> QED BY <4>1, DecodeType
    <3> QED BY <3>1, <3>2, <2>b DEF TypeOK, RateLimitedOut
  <2>6. ASSUME NEW c \in Calls, Fail(c) PROVE Inv'
    <3>1. PICK r \in replies :
             /\ pc[c] = "inflight" /\ ~Retries(c, r.status)
             /\ pc' = [pc EXCEPT ![c] = "returned"]
             /\ outcome' = [outcome EXCEPT ![c] = APIError(r.status)]
             /\ UNCHANGED <<client, attempt, sent>>
      BY <2>6 DEF Fail, Return, history, Answered
    <3>2. sent[c] = attempt[c] + 1 /\ attempt[c] < Budget /\ attempt[c] \in Nat
      BY <3>1 DEF TypeOK
    <3>3. IsRateLimited(r.status) => sent[c] = Budget
      <4>1. client.maxRetries \in Nat
        BY ClientsAssumption DEF TypeOK
      <4> QED BY <3>1, <3>2, <4>1 DEF Retries, Budget
    <3>4. RateLimitedOut(c)' => IsRateLimited(r.status)
      BY <3>1 DEF TypeOK, RateLimitedOut, APIError
    <3>5. \A d \in Calls : d # c => (RateLimitedOut(d)' <=> RateLimitedOut(d))
      BY <3>1 DEF TypeOK, RateLimitedOut
    <3> QED BY <3>1, <3>2, <3>3, <3>4, <3>5, <2>a, <2>b DEF TypeOK
  <2>7. ASSUME NEW c \in Calls, BackOff(c) PROVE Inv'
    <3>1. PICK r \in replies :
             /\ pc[c] = "inflight" /\ Retries(c, r.status)
             /\ pc' = [pc EXCEPT ![c] = "waiting"]
             /\ UNCHANGED <<client, attempt, sent, outcome>>
      BY <2>7 DEF BackOff, Answered
    <3>2. attempt[c] + 1 < Budget
      <4>1. client.maxRetries \in Nat /\ attempt[c] \in Nat
        BY ClientsAssumption DEF TypeOK
      <4> QED BY <3>1, <4>1 DEF Retries, Budget
    <3>3. \A d \in Calls : RateLimitedOut(d)' <=> RateLimitedOut(d)
      BY <3>1 DEF RateLimitedOut
    <3> QED BY <3>1, <3>2, <3>3, <2>b DEF TypeOK
  <2>8. ASSUME NEW c \in Calls, Wake(c) PROVE Inv'
    BY <2>8, <2>a, <2>b DEF Wake, TypeOK, RateLimitedOut
  <2>9. ASSUME NEW c \in Calls, CancelWait(c) PROVE Inv'
    BY <2>9, <2>b DEF CancelWait, Return, ContextDone, history, TypeOK, RateLimitedOut
  <2>10. ASSUME NEW c \in Calls, GiveUp(c) PROVE Inv'
    BY <2>10, <2>b DEF GiveUp, Return, Transport, history, TypeOK, RateLimitedOut
  <2>11. ASSUME NEW r \in wire, Serve(r) PROVE Inv'
    BY <2>11, <2>b DEF Serve, clientVars, history, RateLimitedOut
  <2>12. CASE UNCHANGED vars
    BY <2>12, <2>b DEF vars, clientVars, history, RateLimitedOut
  <2> QED BY <2>1, <2>2, <2>3, <2>4, <2>5, <2>6, <2>7, <2>8, <2>9, <2>10, <2>11,
             <2>12 DEF Next, Step, RequestTimeout, CtxAbort, NetworkError, Quiescent
<1>3. Init => TypeOK
  BY DurationAssumption DEF Init, TypeOK, Kinds, NoOutcome, Duration
<1> QED BY <1>1, <1>2, <1>3, TypeCorrect, PTL DEF Spec

(* A call sends at most maxRetries + 1 requests, and one without retries;  *)
(* it reports a 429 only when they are spent (retry.go:33-48).             *)
THEOREM BudgetIsKept == Spec => []RetryBudget
<1>1. LoopInv /\ RetryBudget => RetryBudget
  OBVIOUS
<1> QED BY <1>1, LoopInvariance, PTL

(* Every cap a client may have leaves room in a Duration for the jitter.   *)
RoomForJitter == \A k \in Clients : EffectiveCap(k.retryMaxWait) + MaxRetryJitter <= MaxDuration

(* Only BackOff arms a timer: a call found waiting has just backed off, or *)
(* was waiting already, for the same time and the same answer.             *)
LEMMA OnlyBackOffArms ==
    ASSUME TypeOK, [Next]_vars
    PROVE  /\ client' = client
           /\ \A c \in Calls : pc'[c] = "waiting" =>
                 \/ BackOff(c)
                 \/ /\ pc[c] = "waiting" /\ wait'[c] = wait[c]
                    /\ attempt'[c] = attempt[c] /\ asked'[c] = asked[c]
<1> DEFINE Armed == \A d \in Calls : pc'[d] = "waiting" =>
                       \/ BackOff(d)
                       \/ /\ pc[d] = "waiting" /\ wait'[d] = wait[d]
                          /\ attempt'[d] = attempt[d] /\ asked'[d] = asked[d]
<1>1. ASSUME NEW c \in Calls, pc'[c] # "waiting" \/ BackOff(c),
             \A d \in Calls : d # c => /\ pc'[d] = pc[d] /\ wait'[d] = wait[d]
                                       /\ attempt'[d] = attempt[d]
                                       /\ asked'[d] = asked[d]
      PROVE  Armed
  BY <1>1
<1>2. ASSUME UNCHANGED <<pc, wait, attempt, asked>> PROVE Armed
  BY <1>2
<1> HIDE DEF Armed
<1>3. ASSUME NEW c \in Calls, Start(c) PROVE client' = client /\ Armed
  BY <1>1, <1>3 DEF Start, TypeOK
<1>4. ASSUME NEW c \in Calls, CtxDone(c) PROVE client' = client /\ Armed
  BY <1>2, <1>4 DEF CtxDone, history
<1>5. ASSUME NEW c \in Calls, RawRequest(c) PROVE client' = client /\ Armed
  BY <1>1, <1>5 DEF RawRequest, TypeOK
<1>6. ASSUME NEW c \in Calls, RawRequestRefused(c) PROVE client' = client /\ Armed
  BY <1>1, <1>6 DEF RawRequestRefused, Return, history, TypeOK
<1>7. ASSUME NEW c \in Calls, Succeed(c) \/ Fail(c) PROVE client' = client /\ Armed
  BY <1>1, <1>7 DEF Succeed, Fail, Return, history, TypeOK
<1>8. ASSUME NEW c \in Calls, BackOff(c) PROVE client' = client /\ Armed
  <2>1. /\ client' = client /\ attempt' = attempt
        /\ \A d \in Calls : d # c => /\ pc'[d] = pc[d] /\ wait'[d] = wait[d]
                                     /\ asked'[d] = asked[d]
    BY <1>8 DEF BackOff, TypeOK
  <2> QED BY <1>1, <1>8, <2>1
<1>9. ASSUME NEW c \in Calls, Wake(c) PROVE client' = client /\ Armed
  BY <1>1, <1>9 DEF Wake, TypeOK
<1>10. ASSUME NEW c \in Calls, CancelWait(c) PROVE client' = client /\ Armed
  BY <1>1, <1>10 DEF CancelWait, Return, history, TypeOK
<1>11. ASSUME NEW c \in Calls, GiveUp(c) PROVE client' = client /\ Armed
  BY <1>1, <1>11 DEF GiveUp, Return, history, TypeOK
<1>12. ASSUME NEW r \in wire, Serve(r) PROVE client' = client /\ Armed
  BY <1>2, <1>12 DEF Serve, clientVars, history
<1>13. ASSUME UNCHANGED vars PROVE client' = client /\ Armed
  BY <1>2, <1>13 DEF vars, clientVars, history
<1>14. client' = client /\ Armed
  BY <1>3, <1>4, <1>5, <1>6, <1>7, <1>8, <1>9, <1>10, <1>11, <1>12, <1>13
     DEF Next, Step, RequestTimeout, CtxAbort, NetworkError, Quiescent
<1> QED BY <1>14 DEF Armed

(* What BackOff arms: a wait that RetryWaits may draw for the header of a  *)
(* response, which becomes what the server has asked for.                  *)
LEMMA BackOffDraws ==
    ASSUME TypeOK, NEW c \in Calls, BackOff(c)
    PROVE  \E h \in Headers \union {-1} :
              /\ wait'[c] \in RetryWaits(attempt[c], ParseRetryAfter(h),
                                         client.retryMaxWait)
              /\ asked'[c] = Larger(0, h) * Second
              /\ attempt'[c] = attempt[c]
              /\ h \in Int /\ ParseRetryAfter(h) \in Int
              /\ attempt[c] \in Nat /\ client.retryMaxWait \in Duration
<1>1. PICK r \in replies :
         /\ \E w \in RetryWaits(attempt[c], ParseRetryAfter(r.header),
                                client.retryMaxWait) :
                wait' = [wait EXCEPT ![c] = w]
         /\ asked' = [asked EXCEPT ![c] = Larger(0, r.header) * Second]
         /\ UNCHANGED attempt
  BY DEF BackOff
<1>2. r.header \in Headers \union {-1}
  BY DEF TypeOK, Reply
<1>3. r.header \in Int
  <2>1. Headers \subseteq Int /\ -1 \in Int
    BY EnvironmentAssumption
  <2> QED BY <1>2, <2>1
<1>4. ParseRetryAfter(r.header) \in Int
  BY <1>3, ParseType, DurationAssumption DEF Duration
<1>5. attempt[c] \in Nat /\ client.retryMaxWait \in Duration
  BY ClientsAssumption DEF TypeOK
<1>6. wait'[c] \in RetryWaits(attempt[c], ParseRetryAfter(r.header),
                              client.retryMaxWait)
  BY <1>1 DEF TypeOK
<1>7. asked'[c] = Larger(0, r.header) * Second /\ attempt'[c] = attempt[c]
  BY <1>1 DEF TypeOK
<1> QED BY <1>2, <1>3, <1>4, <1>5, <1>6, <1>7

(* No wait exceeds the cap by more than half of it, or by maxRetryJitter   *)
(* or more (retry.go:78-85), whatever the server asks for, as long as the  *)
(* cap leaves a Duration room for the jitter.                              *)
THEOREM WaitsStayUnderTheCeiling ==
    ASSUME RoomForJitter
    PROVE  Spec => []WaitCeiling
<1>1. Init => WaitCeiling
  BY DEF Init, WaitCeiling
<1>2. TypeOK /\ WaitCeiling /\ [Next]_vars => WaitCeiling'
  <2> SUFFICES ASSUME TypeOK, WaitCeiling, [Next]_vars, NEW c \in Calls,
                      pc'[c] = "waiting"
               PROVE  /\ wait'[c] < EffectiveCap(client.retryMaxWait) + MaxRetryJitter
                      /\ 2 * wait'[c] <= 3 * EffectiveCap(client.retryMaxWait)
    BY OnlyBackOffArms DEF WaitCeiling
  <2>1. CASE BackOff(c)
    <3>1. EffectiveCap(client.retryMaxWait) + MaxRetryJitter <= MaxDuration
      BY DEF TypeOK, RoomForJitter
    <3> QED BY <2>1, <3>1, BackOffDraws, RetryWaitBounds
  <2>2. CASE pc[c] = "waiting" /\ wait'[c] = wait[c]
    BY <2>2 DEF WaitCeiling
  <2> QED BY <2>1, <2>2, OnlyBackOffArms
<1> QED BY <1>1, <1>2, TypeCorrect, PTL DEF Spec

(* The part of the curve below the cap is the power of two; the rest of it *)
(* is never below the cap.                                                 *)
LEMMA CurveOrCap ==
    ASSUME NEW a \in Nat, NEW cap \in Duration, NEW base \in Int, NEW x \in Int,
           base = Smaller(Larger(x, ExponentialBackoff(a)), cap)
    PROVE  \/ base >= cap
           \/ base >= 2^a * Second /\ base >= x
<1>1. CASE a >= BackoffLimit
  <2>1. ExponentialBackoff(a) = MaxDuration
    BY <1>1 DEF ExponentialBackoff
  <2> QED BY <2>1, DurationAssumption DEF Larger, Smaller, Duration
<1>2. CASE ~(a >= BackoffLimit)
  <2>1. a \in 0 .. BackoffLimit - 1
    BY <1>2, DurationAssumption
  <2> DEFINE curve == 2^a * Second
  <2>2. ExponentialBackoff(a) = curve /\ curve \in Int
    BY <1>2, <2>1, DurationAssumption DEF ExponentialBackoff
  <2> HIDE DEF curve
  <2>3. \/ base >= cap
        \/ base >= curve /\ base >= x
    BY <2>2, DurationAssumption DEF Larger, Smaller, Duration
  <2> QED BY <2>3 DEF curve
<1> QED BY <1>1, <1>2

(* A wait below the cap is at least the exponential curve and at least the *)
(* server's demand (retry.go:70-86), unless that overflows a Duration.     *)
THEOREM WaitsReachTheFloor ==
    ASSUME RoomForJitter
    PROVE  Spec => []WaitFloor
<1>1. Init => WaitFloor
  BY DEF Init, WaitFloor
<1>2. TypeOK /\ WaitFloor /\ [Next]_vars => WaitFloor'
  <2> SUFFICES ASSUME TypeOK, WaitFloor, [Next]_vars, NEW c \in Calls,
                      pc'[c] = "waiting"
               PROVE  \/ wait'[c] >= EffectiveCap(client.retryMaxWait)
                      \/ /\ wait'[c] >= 2^attempt'[c] * Second
                         /\ asked'[c] <= MaxDuration => wait'[c] >= asked'[c]
    BY OnlyBackOffArms DEF WaitFloor
  <2>1. CASE BackOff(c)
    <3> DEFINE cap == EffectiveCap(client.retryMaxWait)
    <3>1. PICK h \in Headers \union {-1} :
             /\ wait'[c] \in RetryWaits(attempt[c], ParseRetryAfter(h),
                                        client.retryMaxWait)
             /\ asked'[c] = Larger(0, h) * Second
             /\ attempt'[c] = attempt[c]
             /\ h \in Int /\ ParseRetryAfter(h) \in Int
             /\ attempt[c] \in Nat /\ client.retryMaxWait \in Duration
      BY <2>1, BackOffDraws
    <3> DEFINE base == BaseWait(attempt[c], ParseRetryAfter(h), client.retryMaxWait)
    <3>2. cap + MaxRetryJitter <= MaxDuration
      BY DEF TypeOK, RoomForJitter
    <3>3. base \in Int /\ wait'[c] \in Int /\ wait'[c] >= base
      <4>1. base \in Int
        BY <3>1, BaseWaitType
      <4>2. wait'[c] \in Int
        <5>1. RetryWaits(attempt[c], ParseRetryAfter(h), client.retryMaxWait)
                 \subseteq Duration
          BY <3>1, RetryWaitsType
        <5>2. Duration \subseteq Int
          BY DurationAssumption DEF Duration
        <5> QED BY <3>1, <5>1, <5>2
      <4>3. wait'[c] >= base
        BY <3>1, <3>2, RetryWaitBounds
      <4> QED BY <4>1, <4>2, <4>3
    <3>4. cap \in Duration
      BY <3>1, DurationAssumption DEF EffectiveCap, Duration
    <3>5. base = Smaller(Larger(ParseRetryAfter(h), ExponentialBackoff(attempt[c])), cap)
      BY DEF BaseWait
    <3> HIDE DEF base, cap
    <3>6. \/ base >= cap
          \/ base >= 2^attempt[c] * Second /\ base >= ParseRetryAfter(h)
      BY <3>1, <3>3, <3>4, <3>5, CurveOrCap
    <3>7. asked'[c] <= MaxDuration => ParseRetryAfter(h) = asked'[c]
      <4>1. CASE h >= 0
        BY <3>1, <4>1, ParseExact DEF Larger
      <4>2. CASE ~(h >= 0)
        BY <3>1, <4>2, DurationAssumption DEF Larger, ParseRetryAfter
      <4> QED BY <4>1, <4>2
    <3>8. CASE base >= cap
      BY <3>3, <3>4, <3>8 DEF cap, Duration
    <3>9. CASE base >= 2^attempt[c] * Second /\ base >= ParseRetryAfter(h)
      BY <3>1, <3>3, <3>7, <3>9, DurationAssumption
    <3> QED BY <3>6, <3>8, <3>9
  <2>2. CASE /\ pc[c] = "waiting" /\ wait'[c] = wait[c]
             /\ attempt'[c] = attempt[c] /\ asked'[c] = asked[c]
    BY <2>2 DEF WaitFloor
  <2> QED BY <2>1, <2>2, OnlyBackOffArms
<1> QED BY <1>1, <1>2, TypeCorrect, PTL DEF Spec

-----------------------------------------------------------------------------
(* The order of the effects.                                               *)

(* The calls that had returned when another began stay returned, and their *)
(* late effects are those of calls with an unknown verdict.                *)
OrderInv == /\ \A c \in Calls : \A d \in before[c] : pc[d] = "returned"
            /\ RealTimeOrder

(* The verdict on a call that has returned is final.                       *)
LEMMA ReturnedIsFinal ==
    ASSUME NEW d, pc[d] = "returned", pc'[d] = pc[d], outcome'[d] = outcome[d]
    PROVE  Verdict(d)' = Verdict(d)
BY DEF Verdict

(* A step of a call that has not returned cannot disturb the order: nobody *)
(* began after it.                                                         *)
LEMMA OwnStepKeepsOrder ==
    ASSUME TypeOK, OrderInv, NEW c \in Calls, pc[c] # "returned",
           log' = log, before' = before,
           \A d \in Calls : d # c => pc'[d] = pc[d] /\ outcome'[d] = outcome[d]
    PROVE  OrderInv'
<1>1. \A d, e \in Calls : e \in before[d] =>
         /\ pc[e] = "returned" /\ e # c
         /\ pc'[e] = pc[e] /\ Verdict(e)' = Verdict(e)
  BY ReturnedIsFinal DEF OrderInv
<1>2. \A i \in DOMAIN log : log[i] \in Calls
  BY DEF TypeOK
<1>3. RealTimeOrder'
  <2> SUFFICES ASSUME NEW i \in DOMAIN log, NEW j \in DOMAIN log, i < j,
                      log[j] \in before[log[i]]
               PROVE  Verdict(log[j])' = "unknown"
    <3>1. \A d, e \in Calls : e = d => Verdict(e)' = Verdict(d)'
      OBVIOUS
    <3> QED BY <1>2 DEF RealTimeOrder, Verdict
  <2>1. Verdict(log[j]) = "unknown"
    BY DEF OrderInv, RealTimeOrder
  <2>2. log[i] \in Calls /\ log[j] \in Calls
    BY <1>2
  <2> QED BY <1>1, <2>1, <2>2 DEF Verdict
<1>4. \A d \in Calls : \A e \in before'[d] : pc'[e] = "returned"
  BY <1>1 DEF TypeOK
<1> QED BY <1>3, <1>4 DEF OrderInv

(* The API's effect joins the log last: if its call had returned before a  *)
(* call already in the log began, it was a request given up on the wire.   *)
LEMMA ServeKeepsOrder ==
    ASSUME TypeOK, TraceInv, OrderInv, NEW r \in wire, Serve(r)
    PROVE  OrderInv'
<1>1. /\ log' = log \/ log' = Append(log, r.call)
      /\ pc' = pc /\ outcome' = outcome /\ before' = before
  BY DEF Serve, clientVars, history
<1>2. r.call \in Calls /\ log \in Seq(Calls)
  BY DEF TypeOK, Request
<1>3. pc[r.call] = "returned" => Verdict(r.call) = "unknown"
  BY DEF TraceInv, WireInv, Verdict
<1>4. RealTimeOrder'
  <2> SUFFICES ASSUME NEW i \in DOMAIN log', NEW j \in DOMAIN log', i < j,
                      log'[j] \in before[log'[i]]
               PROVE  Verdict(log'[j]) = "unknown"
    BY <1>1 DEF RealTimeOrder, Verdict
  <2>1. CASE log' = log
    <3>1. Verdict(log[j]) = "unknown"
      BY <2>1, <1>1 DEF OrderInv, RealTimeOrder
    <3> QED BY <2>1, <3>1
  <2>2. CASE log' = Append(log, r.call)
    <3>1. /\ DOMAIN log' = 1 .. Len(log) + 1 /\ DOMAIN log = 1 .. Len(log)
          /\ Len(log) \in Nat
          /\ \A k \in 1 .. Len(log) : log'[k] = log[k]
          /\ log'[Len(log) + 1] = r.call
      BY <1>2, <2>2
    <3>2. CASE j \in DOMAIN log
      <4>1. i \in DOMAIN log /\ log'[i] = log[i] /\ log'[j] = log[j]
        BY <3>1, <3>2
      <4>2. Verdict(log[j]) = "unknown"
        BY <3>2, <4>1 DEF OrderInv, RealTimeOrder
      <4> QED BY <4>1, <4>2
    <3>3. CASE j = Len(log) + 1
      <4>1. i \in 1 .. Len(log) /\ log'[i] = log[i] /\ log'[j] = r.call
        BY <3>1, <3>3
      <4>2. log[i] \in Calls
        BY <1>2, <3>1, <4>1
      <4>3. pc[r.call] = "returned"
        BY <4>1, <4>2 DEF OrderInv
      <4> QED BY <1>3, <4>1, <4>3
    <3> QED BY <3>1, <3>2, <3>3
  <2> QED BY <1>1, <2>1, <2>2
<1> QED BY <1>1, <1>4 DEF OrderInv

(* A call that begins now has no effect yet, and finds returned exactly    *)
(* the calls it then counts as earlier.                                    *)
LEMMA StartKeepsOrder ==
    ASSUME TypeOK, TraceInv, OrderInv, NEW c \in Calls, Start(c)
    PROVE  OrderInv'
<1>1. /\ log' = log /\ outcome' = outcome
      /\ pc[c] = "idle" /\ pc'[c] = "loop"
      /\ \A d \in Calls : d # c => pc'[d] = pc[d] /\ before'[d] = before[d]
      /\ before'[c] = {d \in Calls : pc[d] = "returned"}
      /\ log \in Seq(Calls)
  BY DEF Start, network, TypeOK
<1>2. \A i \in DOMAIN log : log[i] \in Calls /\ log[i] # c
  BY <1>1, NoTrace DEF Applied
<1>3. \A d \in Calls : d # c => Verdict(d)' = Verdict(d)
  BY <1>1 DEF Verdict
<1>4. RealTimeOrder'
  <2> SUFFICES ASSUME NEW i \in DOMAIN log, NEW j \in DOMAIN log, i < j,
                      log[j] \in before'[log[i]]
               PROVE  Verdict(log[j])' = "unknown"
    BY <1>1 DEF RealTimeOrder, Verdict
  <2>1. Verdict(log[j]) = "unknown"
    BY <1>1, <1>2 DEF OrderInv, RealTimeOrder
  <2>2. pc'[log[j]] = pc[log[j]]
    BY <1>1, <1>2
  <2> QED BY <1>1, <2>1, <2>2 DEF Verdict
<1>5. \A d \in Calls : \A e \in before'[d] : pc'[e] = "returned"
  <2>1. \A d \in Calls : \A e \in before'[d] : e \in Calls /\ pc[e] = "returned"
    BY <1>1 DEF OrderInv, TypeOK
  <2> QED BY <1>1, <2>1
<1> QED BY <1>4, <1>5 DEF OrderInv

(* A call made after another had returned is overtaken by it only if the   *)
(* verdict on the earlier one was unknown: a completed or a refused update *)
(* never overwrites a newer one.                                           *)
THEOREM RealTimeOrderIsKept == Spec => []RealTimeOrder
<1>1. Init => OrderInv
  BY DEF Init, OrderInv, RealTimeOrder
<1>2. TypeOK /\ TraceInv /\ OrderInv /\ [Next]_vars => OrderInv'
  <2> SUFFICES ASSUME TypeOK, TraceInv, OrderInv, [Next]_vars PROVE OrderInv'
    OBVIOUS
  <2>1. ASSUME NEW c \in Calls, Start(c) PROVE OrderInv'
    BY <2>1, StartKeepsOrder
  <2>2. ASSUME NEW c \in Calls, CtxDone(c) PROVE OrderInv'
    BY <2>2, OwnStepKeepsOrder DEF CtxDone, network, history
  <2>3. ASSUME NEW c \in Calls, RawRequest(c) PROVE OrderInv'
    BY <2>3, OwnStepKeepsOrder DEF RawRequest, TypeOK
  <2>4. ASSUME NEW c \in Calls, RawRequestRefused(c) PROVE OrderInv'
    BY <2>4, OwnStepKeepsOrder DEF RawRequestRefused, Return, network, history, TypeOK
  <2>5. ASSUME NEW c \in Calls, Succeed(c) \/ Fail(c) PROVE OrderInv'
    BY <2>5, OwnStepKeepsOrder DEF Succeed, Fail, Answered, Return, history, TypeOK
  <2>6. ASSUME NEW c \in Calls, BackOff(c) PROVE OrderInv'
    BY <2>6, OwnStepKeepsOrder DEF BackOff, Answered, TypeOK
  <2>7. ASSUME NEW c \in Calls, Wake(c) PROVE OrderInv'
    BY <2>7, OwnStepKeepsOrder DEF Wake, network, TypeOK
  <2>8. ASSUME NEW c \in Calls, CancelWait(c) PROVE OrderInv'
    BY <2>8, OwnStepKeepsOrder DEF CancelWait, Return, network, history, TypeOK
  <2>9. ASSUME NEW c \in Calls, GiveUp(c) PROVE OrderInv'
    BY <2>9, OwnStepKeepsOrder DEF GiveUp, Return, history, TypeOK
  <2>10. ASSUME NEW r \in wire, Serve(r) PROVE OrderInv'
    BY <2>10, ServeKeepsOrder
  <2>11. CASE UNCHANGED vars
    <3>1. pc' = pc /\ outcome' = outcome /\ log' = log /\ before' = before
      BY <2>11 DEF vars, clientVars, network, history
    <3> QED BY <3>1 DEF OrderInv, RealTimeOrder, Verdict
  <2> QED BY <2>1, <2>2, <2>3, <2>4, <2>5, <2>6, <2>7, <2>8, <2>9, <2>10, <2>11
          DEF Next, Step, RequestTimeout, CtxAbort, NetworkError, Quiescent
<1>3. OrderInv => RealTimeOrder
  BY DEF OrderInv
<1> QED BY <1>1, <1>2, <1>3, TypeCorrect, TraceInvariance, PTL DEF Spec

-----------------------------------------------------------------------------
(* Requests implements CallContract: every step of a call, of the network  *)
(* or of the API is a step of the contract, or invisible to it.            *)

Verdicts == [c \in Calls |-> Verdict(c)]

(* The contract's effects are the requests the API has processed.          *)
LEMMA EffectiveIsApplied == \A c : c \in Contract!Effective <=> Applied(c)
BY DEF Contract!Effective, Applied

(* A step that changes one verdict and no effect.                          *)
LEMMA OneVerdict ==
    ASSUME NEW c \in Calls, NEW v, Verdict(c)' = v,
           \A d \in Calls : d # c => Verdict(d)' = Verdict(d)
    PROVE  Verdicts' = [Verdicts EXCEPT ![c] = v]
BY DEF Verdicts

(* A call that ends ends with a verdict that its traces bear out.          *)
LEMMA EndStep ==
    ASSUME TypeOK, NEW c \in Calls, pc[c] \in {"loop", "inflight", "waiting"},
           pc' = [pc EXCEPT ![c] = "returned"],
           \A d \in Calls : d # c => outcome'[d] = outcome[d],
           log' = log,
           Verdict(c)' \in {"done", "refused", "unknown"},
           Verdict(c)' = "done" => Applied(c),
           Verdict(c)' = "refused" => ~Applied(c)
    PROVE  Contract!Next
<1> DEFINE v == Verdict(c)'
<1>1. Verdict(c) = "pending"
  BY DEF Verdict
<1>2. \A d \in Calls : d # c => Verdict(d)' = Verdict(d)
  BY DEF Verdict, TypeOK
<1>3. Verdicts' = [Verdicts EXCEPT ![c] = v]
  BY <1>2, OneVerdict
<1>4. Verdicts[c] = "pending"
  BY <1>1 DEF Verdicts
<1>5. v = "done" => c \in Contract!Effective
  BY EffectiveIsApplied
<1>6. v = "refused" => c \notin Contract!Effective
  BY EffectiveIsApplied
<1>7. v \in {"done", "refused", "unknown"}
  OBVIOUS
<1> HIDE DEF v
<1>8. Contract!End(c, v)
  BY <1>3, <1>4, <1>5, <1>6 DEF Contract!End, Verdicts
<1> QED BY <1>7, <1>8 DEF Contract!Next

(* Initial states map to initial states.                                   *)
LEMMA ContractInit == Init => Contract!Init
BY DEF Init, Contract!Init, Verdict

(* Every step maps to a step or a stutter.                                 *)
LEMMA ContractStep ==
    ASSUME TypeOK, TraceInv, [Next]_vars
    PROVE  [Contract!Next]_(Contract!vars)
<1> DEFINE Goal == [Contract!Next]_(Contract!vars)
<1>1. ASSUME \A d \in Calls : Verdict(d)' = Verdict(d), log' = log
      PROVE  Goal
  BY <1>1 DEF Contract!vars
<1>2. ASSUME Contract!Next PROVE Goal
  BY <1>2
<1> HIDE DEF Goal
<1>3. ASSUME NEW c \in Calls, Start(c) PROVE Goal
  <2>1. Verdict(c) = "idle" /\ Verdict(c)' = "pending" /\ log' = log
        /\ \A d \in Calls : d # c => Verdict(d)' = Verdict(d)
    BY <1>3 DEF Start, network, TypeOK, Verdict
  <2>2. Verdicts' = [Verdicts EXCEPT ![c] = "pending"] /\ Verdicts[c] = "idle"
    BY <2>1, OneVerdict DEF Verdicts
  <2>3. Contract!Begin(c)
    BY <2>1, <2>2 DEF Contract!Begin, Verdicts
  <2> QED BY <1>2, <2>3 DEF Contract!Next
<1>4. ASSUME NEW c \in Calls, CtxDone(c) PROVE Goal
  BY <1>1, <1>4 DEF CtxDone, network, Verdict
<1>5. ASSUME NEW c \in Calls, RawRequest(c) PROVE Goal
  BY <1>1, <1>5 DEF RawRequest, TypeOK, Verdict
<1>6. ASSUME NEW c \in Calls, RawRequestRefused(c) PROVE Goal
  <2>1. Verdict(c)' = "unknown"
    BY <1>6 DEF RawRequestRefused, Return, Transport, TypeOK, Verdict
  <2> QED BY <1>2, <1>6, <2>1, EndStep DEF RawRequestRefused, Return, network, TypeOK
<1>7. ASSUME NEW c \in Calls, Succeed(c) PROVE Goal
  <2>1. PICK r \in replies :
           /\ Answered(c, r) /\ IsSuccess(r.status)
           /\ Return(c, Decode(kind[c], r.data)) /\ log' = log
    BY <1>7 DEF Succeed
  <2>2. Applied(c)
    BY <2>1, OnlyTrace DEF Answered
  <2>3. Decode(kind[c], r.data).err \in {"none", "decode"}
    <3>1. kind[c] \in Kinds /\ r.data \in Datas
      BY DEF TypeOK, Reply
    <3> QED BY <3>1, DecodeType
  <2>4. Verdict(c)' = "done"
    BY <2>1, <2>3 DEF Return, TypeOK, Verdict
  <2> QED BY <1>2, <2>1, <2>2, <2>4, EndStep DEF Return, Answered, TypeOK
<1>8. ASSUME NEW c \in Calls, Fail(c) PROVE Goal
  <2>1. PICK r \in replies :
           /\ Answered(c, r) /\ ~IsSuccess(r.status)
           /\ Return(c, APIError(r.status)) /\ log' = log
    BY <1>8 DEF Fail
  <2>2. ~IsServerError(r.status) => ~Applied(c)
    BY <2>1, OnlyTrace DEF Answered
  <2>3. Verdict(c)' = IF IsServerError(r.status) THEN "unknown" ELSE "refused"
    BY <2>1 DEF Return, APIError, TypeOK, Verdict
  <2> QED BY <1>2, <2>1, <2>2, <2>3, EndStep DEF Return, Answered, TypeOK
<1>9. ASSUME NEW c \in Calls, BackOff(c) PROVE Goal
  <2>1. /\ pc[c] = "inflight" /\ pc' = [pc EXCEPT ![c] = "waiting"]
        /\ outcome' = outcome /\ log' = log
    BY <1>9 DEF BackOff, Answered
  <2> QED BY <1>1, <2>1 DEF TypeOK, Verdict
<1>10. ASSUME NEW c \in Calls, Wake(c) PROVE Goal
  BY <1>1, <1>10 DEF Wake, network, TypeOK, Verdict
<1>11. ASSUME NEW c \in Calls, CancelWait(c) PROVE Goal
  <2>1. Verdict(c)' = "refused"
    BY <1>11 DEF CancelWait, Return, ContextDone, TypeOK, Verdict
  <2>2. ~Applied(c)
    BY <1>11, NoTrace DEF CancelWait
  <2> QED BY <1>2, <1>11, <2>1, <2>2, EndStep DEF CancelWait, Return, network, TypeOK
<1>12. ASSUME NEW c \in Calls, GiveUp(c) PROVE Goal
  <2>1. Verdict(c)' = "unknown"
    BY <1>12 DEF GiveUp, Return, Transport, TypeOK, Verdict
  <2> QED BY <1>2, <1>12, <2>1, EndStep DEF GiveUp, Return, TypeOK
<1>13. ASSUME NEW r \in wire, Serve(r) PROVE Goal
  <2>1. /\ pc' = pc /\ outcome' = outcome
        /\ log' = log \/ log' = Append(log, r.call)
    BY <1>13 DEF Serve, clientVars
  <2>2. \A d \in Calls : Verdict(d)' = Verdict(d)
    BY <2>1 DEF Verdict
  <2>3. CASE log' = log
    BY <1>1, <2>2, <2>3
  <2>4. CASE log' = Append(log, r.call)
    <3>1. r.call \in Calls /\ Verdict(r.call) \in {"pending", "unknown"}
          /\ ~Applied(r.call)
      BY DEF TypeOK, Request, TraceInv, WireInv
    <3>2. r.call \notin Contract!Effective
      BY <3>1, EffectiveIsApplied
    <3>3. Verdicts[r.call] \in {"pending", "unknown"} /\ Verdicts' = Verdicts
      BY <2>2, <3>1 DEF Verdicts
    <3>4. Contract!TakeEffect(r.call)
      BY <2>4, <3>2, <3>3 DEF Contract!TakeEffect, Verdicts
    <3> QED BY <1>2, <3>1, <3>4 DEF Contract!Next
  <2> QED BY <2>1, <2>3, <2>4
<1>14. ASSUME UNCHANGED vars PROVE Goal
  <2>1. pc' = pc /\ outcome' = outcome /\ log' = log
    BY <1>14 DEF vars, clientVars, network
  <2> QED BY <1>1, <2>1 DEF Verdict
<1> QED BY <1>3, <1>4, <1>5, <1>6, <1>7, <1>8, <1>9, <1>10, <1>11, <1>12, <1>13,
           <1>14 DEF Next, Step, RequestTimeout, CtxAbort, NetworkError, Quiescent, Goal

(* Every behaviour of the calls is one the contract allows.                *)
THEOREM ContractIsKept == Spec => KeepsContract
<1>1. TypeOK /\ TraceInv /\ [Next]_vars => [Contract!Next]_(Contract!vars)
  BY ContractStep
<1> QED BY <1>1, ContractInit, TypeCorrect, TraceInvariance, PTL
        DEF Spec, KeepsContract, Contract!Spec
=============================================================================
