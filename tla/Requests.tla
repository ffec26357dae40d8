------------------------------ MODULE Requests ------------------------------
(***************************************************************************)
(* Concurrent calls through one Client: do/doList, requestWithRetry and    *)
(* rawRequest (firezone.go, retry.go, errors.go), with the HTTP transport  *)
(* and the Firezone API as their environment.                              *)
(*                                                                         *)
(* Every call is a thread.  Its control point is one of                    *)
(*   idle      not made yet                                                *)
(*   loop      about to make an attempt                                    *)
(*   inflight  inside httpClient.Do or io.ReadAll                          *)
(*   waiting   in the select between ctx.Done() and time.After(wait)       *)
(*   returned  back in the caller                                          *)
(***************************************************************************)
EXTENDS RetryPolicy, Sequences, FiniteSets

CONSTANTS Calls,    \* the calls made on the client
          Clients,  \* the configurations NewClient may have built
          Statuses, \* the HTTP statuses the API answers with
          Headers   \* the seconds in a Retry-After header; negative: none

ASSUME ClientsAssumption ==
    Clients \subseteq [retryEnabled : BOOLEAN, maxRetries : Nat,
                       requestTimeout : Nat, retryMaxWait : Duration]
ASSUME EnvironmentAssumption ==
    /\ Statuses \subseteq 200 .. 599
    /\ Headers \subseteq Int

VARIABLES client,  \* the Client, immutable once built
          pc,      \* control point of each call
          kind,    \* what the caller decodes: "nothing", "object", "list"
          attempt, \* the loop variable of requestWithRetry
          wait,    \* the timer armed by the last retryWait
          ctxDone, \* the caller's context is cancelled or past its deadline
          outcome, \* what the caller got
          wire,    \* requests on their way to the API
          replies, \* responses on their way back
          log,     \* the calls whose request the API has processed, in order
          \* history variables
          sent,    \* requests the call has put on the wire
          asked,   \* the Retry-After of the last 429, in true seconds
          slept,   \* total of the waits the call has completed
          before   \* the calls that had returned when this one began

clientVars == <<pc, kind, attempt, wait, ctxDone, outcome>>
network    == <<wire, replies, log>>
history    == <<sent, asked, slept, before>>
vars       == <<client, clientVars, network, history>>

-----------------------------------------------------------------------------
(* Responses.                                                              *)

\* Mutants: redirects taken for success; server errors retried too.
IsNotError(status)  == status \in 200 .. 399
IsTransient(status) == status = 429 \/ status \in 500 .. 599

IsSuccess(status)     == status \in 200 .. 299
IsRateLimited(status) == status = 429
IsServerError(status) == status \in 500 .. 599

Kinds == {"nothing", "object", "list"}
Datas == {"value", "null", "absent", "malformed", "empty"}

NoOutcome   == [err |-> "pending",   status |-> 0, filled |-> FALSE]
ContextDone == [err |-> "context",   status |-> 0, filled |-> FALSE]
BareContext == ContextDone \* Mutant: an aborted attempt reported as bare ctx.Err()
Transport   == [err |-> "transport", status |-> 0, filled |-> FALSE]
Decoded(b)  == [err |-> "none",      status |-> 0, filled |-> b]
DecodeError == [err |-> "decode",    status |-> 0, filled |-> FALSE]
APIError(s) == [err |-> "api",       status |-> s, filled |-> FALSE]

(* do and doList after a 2xx.  An empty body is success for do and an      *)
(* error for doList; "data": null leaves an object untouched and a list    *)
(* nil; a missing "data" is an error for an object and a nil list.         *)
Decode(k, data) ==
    CASE k = "nothing" -> Decoded(FALSE)
      [] k = "object"  -> IF data \in {"malformed", "absent"}
                          THEN DecodeError ELSE Decoded(data = "value")
      [] k = "list"    -> IF data \in {"malformed", "empty"}
                          THEN DecodeError ELSE Decoded(data = "value")

\* Mutant: the budget counted one too long.
RetriesOneMore(c, status) == /\ client.retryEnabled
                             /\ IsRateLimited(status)
                             /\ attempt[c] # client.maxRetries + 1

\* Mutant: the budget counted one too short.
RetriesOneLess(c, status) == /\ client.retryEnabled
                             /\ IsRateLimited(status)
                             /\ attempt[c] + 1 < client.maxRetries

(* Does requestWithRetry go round again after this status?                 *)
Retries(c, status) == /\ client.retryEnabled
                      /\ IsRateLimited(status)
                      /\ attempt[c] # client.maxRetries

-----------------------------------------------------------------------------
Request == [call : Calls, attempt : Nat]
Reply   == [call : Calls, attempt : Nat, status : Statuses,
            header : Headers \union {-1}, data : Datas]

Init == /\ client \in Clients
        /\ pc = [c \in Calls |-> "idle"]
        /\ kind = [c \in Calls |-> "nothing"]
        /\ attempt = [c \in Calls |-> 0]
        /\ wait = [c \in Calls |-> 0]
        /\ ctxDone = [c \in Calls |-> FALSE]
        /\ outcome = [c \in Calls |-> NoOutcome]
        /\ wire = {} /\ replies = {} /\ log = <<>>
        /\ sent = [c \in Calls |-> 0]
        /\ asked = [c \in Calls |-> 0]
        /\ slept = [c \in Calls |-> 0]
        /\ before = [c \in Calls |-> {}]

(* The caller enters do or doList.                                         *)
Start(c) ==
    /\ pc[c] = "idle"
    /\ \E k \in Kinds : kind' = [kind EXCEPT ![c] = k]
    /\ pc' = [pc EXCEPT ![c] = "loop"]
    /\ before' = [before EXCEPT ![c] = {d \in Calls : pc[d] = "returned"}]
    /\ UNCHANGED <<client, attempt, wait, ctxDone, outcome, network,
                   sent, asked, slept>>

(* The caller cancels its context, or its deadline passes.                 *)
CtxDone(c) ==
    /\ pc[c] # "returned" /\ ~ctxDone[c]
    /\ ctxDone' = [ctxDone EXCEPT ![c] = TRUE]
    /\ UNCHANGED <<client, pc, kind, attempt, wait, outcome, network, history>>

Return(c, o) == /\ pc' = [pc EXCEPT ![c] = "returned"]
                /\ outcome' = [outcome EXCEPT ![c] = o]

(* rawRequest with a live context: the request goes out.                   *)
RawRequest(c) ==
    /\ pc[c] = "loop" /\ ~ctxDone[c]
    /\ wire' = wire \union {[call |-> c, attempt |-> attempt[c]]}
    /\ pc' = [pc EXCEPT ![c] = "inflight"]
    /\ sent' = [sent EXCEPT ![c] = @ + 1]
    /\ UNCHANGED <<client, kind, attempt, wait, ctxDone, outcome,
                   replies, log, asked, slept, before>>

(* rawRequest with a finished context: Do fails before anything is sent.   *)
RawRequestRefused(c) ==
    /\ pc[c] = "loop" /\ ctxDone[c]
    /\ Return(c, Transport)
    /\ UNCHANGED <<client, kind, attempt, wait, ctxDone, network, history>>

(* The reply to the attempt the call is in.                                *)
Answered(c, r) == /\ pc[c] = "inflight"
                  /\ r \in replies /\ r.call = c /\ r.attempt = attempt[c]

(* A 2xx, read to its end and decoded.                                     *)
Succeed(c) ==
    \E r \in replies :
        /\ Answered(c, r) /\ IsSuccess(r.status)
        /\ Return(c, Decode(kind[c], r.data))
        /\ replies' = replies \ {r}
        /\ UNCHANGED <<client, kind, attempt, wait, ctxDone, wire, log, history>>

(* Any other status that the loop does not retry.                          *)
Fail(c) ==
    \E r \in replies :
        /\ Answered(c, r) /\ ~IsSuccess(r.status) /\ ~Retries(c, r.status)
        /\ Return(c, APIError(r.status))
        /\ replies' = replies \ {r}
        /\ UNCHANGED <<client, kind, attempt, wait, ctxDone, wire, log, history>>

(* A 429 within the budget: arm the timer and enter the select.            *)
BackOff(c) ==
    \E r \in replies :
        /\ Answered(c, r) /\ ~IsSuccess(r.status) /\ Retries(c, r.status)
        /\ \E w \in RetryWaits(attempt[c], ParseRetryAfter(r.header),
                               client.retryMaxWait) :
               wait' = [wait EXCEPT ![c] = w]
        /\ asked' = [asked EXCEPT ![c] = Larger(0, r.header) * Second]
        /\ pc' = [pc EXCEPT ![c] = "waiting"]
        /\ replies' = replies \ {r}
        /\ UNCHANGED <<client, kind, attempt, ctxDone, outcome, wire, log,
                       sent, slept, before>>

(* The timer fires first, or wins the draw when both are ready.            *)
Wake(c) ==
    /\ pc[c] = "waiting"
    /\ pc' = [pc EXCEPT ![c] = "loop"]
    /\ attempt' = [attempt EXCEPT ![c] = @ + 1]
    /\ wait' = [wait EXCEPT ![c] = 0]
    /\ slept' = [slept EXCEPT ![c] = @ + Larger(0, wait[c])]
    /\ UNCHANGED <<client, kind, ctxDone, outcome, network, sent, asked, before>>

(* The context finishes first, or wins the draw: a bare ctx.Err().         *)
CancelWait(c) ==
    /\ pc[c] = "waiting" /\ ctxDone[c]
    /\ Return(c, ContextDone)
    /\ wait' = [wait EXCEPT ![c] = 0]
    /\ UNCHANGED <<client, kind, attempt, ctxDone, network, history>>

(* Do or ReadAll fails: the attempt is given up, a response on its way is  *)
(* lost, and a request already on the wire stays there.                    *)
GiveUp(c) ==
    /\ pc[c] = "inflight"
    /\ Return(c, Transport)
    /\ replies' = {r \in replies : r.call # c}
    /\ UNCHANGED <<client, kind, attempt, wait, ctxDone, wire, log, history>>

\* Mutants: a deadline for the first attempt only; a context derived from
\* the caller's only when there is a request timeout.
FirstAttemptTimeout(c) == client.requestTimeout > 0 /\ attempt[c] = 0 /\ GiveUp(c)
CtxAbortWithTimeout(c) == client.requestTimeout > 0 /\ ctxDone[c] /\ GiveUp(c)

(* The per-attempt deadline of WithRequestTimeout.                         *)
RequestTimeout(c) == client.requestTimeout > 0 /\ GiveUp(c)
(* The caller's own context, which the per-attempt one is derived from.    *)
CtxAbort(c) == ctxDone[c] /\ GiveUp(c)
(* Refused or broken connections.                                          *)
NetworkError(c) == GiveUp(c)

-----------------------------------------------------------------------------
(* The API, outside this repository.  It refuses without an effect on 3xx  *)
(* and 4xx, processes the request on 2xx, and either on 5xx.  The response *)
(* is lost when nobody is reading it any more.                             *)

Processed(status) ==
    IF status \in 200 .. 299 THEN {TRUE}
    ELSE IF status \in 500 .. 599 THEN BOOLEAN ELSE {FALSE}

Answers(r, status) ==
    {[call |-> r.call, attempt |-> r.attempt, status |-> status,
      header |-> h, data |-> d] :
        h \in IF IsRateLimited(status) THEN Headers ELSE {-1},
        d \in IF IsSuccess(status) THEN Datas ELSE {"empty"}}

Serve(r) ==
    \E status \in Statuses :
        /\ \E p \in Processed(status) :
               log' = IF p THEN Append(log, r.call) ELSE log
        /\ wire' = wire \ {r}
        /\ IF pc[r.call] = "inflight" /\ attempt[r.call] = r.attempt
           THEN \E a \in Answers(r, status) : replies' = replies \union {a}
           ELSE UNCHANGED replies
        /\ UNCHANGED <<client, clientVars, history>>

-----------------------------------------------------------------------------
(* Everything a call does by itself once made.                             *)
Step(c) == \/ RawRequest(c) \/ RawRequestRefused(c)
           \/ Succeed(c) \/ Fail(c) \/ BackOff(c)
           \/ Wake(c) \/ CancelWait(c)
           \/ RequestTimeout(c) \/ CtxAbort(c)

(* All calls are back and nothing is on the wire.                          *)
Quiescent == /\ \A c \in Calls : pc[c] = "returned"
             /\ wire = {}
             /\ UNCHANGED vars

Next == \/ \E c \in Calls : Start(c) \/ CtxDone(c) \/ Step(c) \/ NetworkError(c)
        \/ \E r \in wire : Serve(r)
        \/ Quiescent

Spec == Init /\ [][Next]_vars

(* The Go runtime runs every goroutine and fires every timer.  Nothing is  *)
(* assumed of callers, the network or the API.                             *)
FairSpec == Spec /\ \A c \in Calls : WF_vars(Step(c))

-----------------------------------------------------------------------------
(* Properties.                                                             *)

TypeOK ==
    /\ client \in Clients
    /\ pc \in [Calls -> {"idle", "loop", "inflight", "waiting", "returned"}]
    /\ kind \in [Calls -> Kinds]
    /\ attempt \in [Calls -> Nat]
    /\ wait \in [Calls -> Duration]
    /\ ctxDone \in [Calls -> BOOLEAN]
    /\ outcome \in [Calls -> [err : {"pending", "none", "api", "transport",
                                     "context", "decode"},
                              status : Statuses \union {0}, filled : BOOLEAN]]
    /\ wire \subseteq Request
    /\ replies \subseteq Reply
    /\ log \in Seq(Calls)
    /\ sent \in [Calls -> Nat]
    /\ asked \in [Calls -> Nat]
    /\ slept \in [Calls -> Nat]
    /\ before \in [Calls -> SUBSET Calls]

Applied(c) == \E i \in DOMAIN log : log[i] = c

(* What an outcome tells the caller about the effect of its call.          *)
Verdict(c) ==
    IF pc[c] = "idle" THEN "idle"
    ELSE IF pc[c] # "returned" THEN "pending"
    ELSE IF outcome[c].err \in {"none", "decode"} THEN "done"
    ELSE IF \/ outcome[c].err = "context"
            \/ outcome[c].err = "api" /\ ~IsServerError(outcome[c].status)
         THEN "refused"
    ELSE "unknown"

(* No call is processed by the API twice, however often it is sent: only a *)
(* 429 is retried (retry.go:45), and a request that may have been          *)
(* processed is never sent again.                                          *)
AtMostOnce == \A i, j \in DOMAIN log : log[i] = log[j] => i = j

(* A nil or decoding error means the API has processed the request.  A     *)
(* bare context error, a 4xx and an exhausted 429 mean that it has not,    *)
(* and that no copy is on the wire that it still could process.            *)
VerdictSound ==
    \A c \in Calls :
        /\ Verdict(c) = "done" => Applied(c)
        /\ Verdict(c) = "refused" =>
              ~Applied(c) /\ \A r \in wire : r.call # c

(* A call made after another had returned is never overtaken by it, unless *)
(* the verdict on the earlier call was unknown: a timed out update may     *)
(* overwrite a newer one, a refused or completed one may not.              *)
RealTimeOrder ==
    \A i, j \in DOMAIN log :
        /\ i < j
        /\ log[j] \in before[log[i]]
        => Verdict(log[j]) = "unknown"

(* A call sends at most maxRetries + 1 requests, one without retries, and  *)
(* a 429 reaches the caller only when that budget is spent.                *)
Budget == IF client.retryEnabled THEN client.maxRetries + 1 ELSE 1
RateLimitedOut(c) == outcome[c].err = "api" /\ IsRateLimited(outcome[c].status)

RetryBudget ==
    \A c \in Calls : /\ sent[c] <= Budget
                     /\ RateLimitedOut(c) => sent[c] = Budget

(* The inductive invariant behind RetryBudget: the loop variable counts    *)
(* the requests sent, and a call waits only with a retry left.             *)
LoopInv ==
    \A c \in Calls :
        /\ pc[c] \in {"idle", "loop"} => sent[c] = attempt[c]
        /\ pc[c] \in {"inflight", "waiting"} => sent[c] = attempt[c] + 1
        /\ pc[c] = "waiting" => attempt[c] + 1 < Budget
        /\ attempt[c] < Budget
        /\ RateLimitedOut(c) => pc[c] = "returned"

(* A wait below the cap is at least the exponential curve and at least     *)
(* what the server asked for (retry.go:70-86).  A demand that overflows a  *)
(* Duration (errors.go:105) is lost, but never takes the wait below the    *)
(* curve.                                                                  *)
WaitFloor ==
    \A c \in Calls : pc[c] = "waiting" =>
        \/ wait[c] >= EffectiveCap(client.retryMaxWait)
        \/ /\ wait[c] >= 2^attempt[c] * Second
           /\ asked[c] <= MaxDuration => wait[c] >= asked[c]

(* No wait exceeds the cap by more than the jitter: half of the cap, and   *)
(* less than maxRetryJitter.                                               *)
WaitCeiling ==
    LET cap == EffectiveCap(client.retryMaxWait)
    IN  \A c \in Calls : pc[c] = "waiting" =>
            /\ wait[c] < cap + MaxRetryJitter
            /\ 2 * wait[c] <= 3 * cap

(* The inductive invariant behind AtMostOnce and VerdictSound.  A request  *)
(* on the wire is the only trace of its call and has had no effect yet; a  *)
(* response on its way is the only trace and tells what the effect was; a  *)
(* call between attempts has left no trace at all.                         *)
WireInv ==
    \A r \in wire :
        /\ pc[r.call] \in {"inflight", "returned"}
        /\ Verdict(r.call) \in {"pending", "unknown"}
        /\ ~Applied(r.call)
        /\ \A s \in wire : s.call = r.call => s = r
        /\ \A a \in replies : a.call # r.call

RepliesInv ==
    \A a \in replies :
        /\ pc[a.call] = "inflight"
        /\ IsSuccess(a.status) => Applied(a.call)
        /\ ~IsSuccess(a.status) /\ ~IsServerError(a.status) => ~Applied(a.call)
        /\ \A b \in replies : b.call = a.call => b = a

BetweenAttemptsInv ==
    \A c \in Calls : Applied(c) => pc[c] \in {"inflight", "returned"}

TraceInv == /\ WireInv
            /\ RepliesInv
            /\ BetweenAttemptsInv
            /\ AtMostOnce
            /\ VerdictSound

(* The calls as CallContract sees them: every step of every thread, of the *)
(* network and of the API is a step of the contract or invisible to it.    *)
Contract == INSTANCE CallContract
                WITH verdict <- [c \in Calls |-> Verdict(c)],
                     history <- log
KeepsContract == Contract!Spec

(* With a request timeout, every call comes back: nothing is needed from   *)
(* the network, the API or the caller's context.                           *)
EveryCallReturns ==
    \A c \in Calls :
        pc[c] = "loop" /\ client.requestTimeout > 0 ~> pc[c] = "returned"

(* With or without one, a call whose context is done comes back, from any  *)
(* control point: a hanging connection, a long wait, between attempts.     *)
CancelledCallReturns ==
    \A c \in Calls : pc[c] # "idle" /\ ctxDone[c] ~> pc[c] = "returned"

-----------------------------------------------------------------------------
(* What the documentation says and the code does not do.                   *)

(* "Waits escalate exponentially, never drop below the response's          *)
(* Retry-After header" (firezone.go:246).  The cap is applied last.        *)
NeverBelowRetryAfter ==
    \A c \in Calls : pc[c] = "waiting" => wait[c] >= asked[c]

(* "do performs a request and, on success, unmarshals the response's data  *)
(* field into out" (firezone.go:466).  A 2xx without a body or with a null *)
(* is a success that leaves out untouched.                                 *)
SuccessIsFilled ==
    \A c \in Calls : kind[c] = "object" /\ outcome[c].err = "none" => outcome[c].filled
=============================================================================
