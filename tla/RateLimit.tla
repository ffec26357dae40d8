----------------------------- MODULE RateLimit -----------------------------
(***************************************************************************)
(* The calls of Requests in time, on a healthy network, against the rate   *)
(* limit of the API (firezone.go:232-239): one token bucket per account,   *)
(* which holds Burst tokens and gets one every second.  A request that     *)
(* finds a token is processed; one that finds none is answered 429, with   *)
(* one second, after which there is a token again, as its Retry-After.     *)
(*                                                                         *)
(* Durations are counted in the unit of RetryPolicy, and so is what is in  *)
(* the bucket: a token is worth Second.                                    *)
(***************************************************************************)
EXTENDS Requests

CONSTANT Burst \* tokens the bucket holds

(* The API gives no other answers here.                                    *)
ASSUME RateLimitAssumption ==
    /\ Burst \in Nat \ {0}
    /\ Statuses = {200, 429} /\ Headers = {1}

VARIABLES level, \* of the bucket
          timer, \* time until the timer of a waiting call fires
          mark   \* history: requests processed when a call was first refused

bucketVars == <<level, timer, mark>>
allVars    == <<vars, bucketVars>>

NoMark == -1

(* Others have just emptied the bucket; it fills while no call is made.    *)
RateInit ==
    /\ Init
    /\ level = 0
    /\ timer = [c \in Calls |-> 0]
    /\ mark = [c \in Calls |-> NoMark]

-----------------------------------------------------------------------------
(* The goroutines.  A call may be made, and may send its first request, at *)
(* any time; what it decodes plays no part.                                *)
Arrive(c)  == Start(c) /\ kind'[c] = "nothing" /\ UNCHANGED bucketVars
Send(c)    == RawRequest(c) /\ UNCHANGED bucketVars
Finish(c)  == (Succeed(c) \/ Fail(c)) /\ UNCHANGED bucketVars

(* time.After(wait), which fires no earlier than asked.                    *)
Sleep(c) == /\ BackOff(c)
            /\ timer' = [timer EXCEPT ![c] = wait'[c]]
            /\ UNCHANGED <<level, mark>>
Rise(c)  == timer[c] = 0 /\ Wake(c) /\ UNCHANGED bucketVars

-----------------------------------------------------------------------------
(* The API.                                                                *)
AnsweredWith(status) ==
    \A a \in replies' \ replies : a.status = status /\ a.data = "empty"

Admit(r) ==
    /\ level >= Second
    /\ Serve(r) /\ AnsweredWith(200)
    /\ level' = level - Second
    /\ UNCHANGED <<timer, mark>>

Throttle(r) ==
    /\ level < Second
    /\ Serve(r) /\ AnsweredWith(429)
    /\ mark' = [mark EXCEPT ![r.call] = IF @ = NoMark THEN Len(log) ELSE @]
    /\ UNCHANGED <<level, timer>>

(* Time passes for the bucket and for every timer.                         *)
Tick ==
    /\ level' = Smaller(level + 1, Burst * Second)
    /\ timer' = [c \in Calls |-> Larger(timer[c] - 1, 0)]
    /\ <<level', timer'>> # <<level, timer>>
    /\ UNCHANGED <<vars, mark>>

-----------------------------------------------------------------------------
Goroutine(c) == Send(c) \/ Finish(c) \/ Sleep(c) \/ Rise(c)
API(r) == Admit(r) \/ Throttle(r)

AllReturned == (\A c \in Calls : pc[c] = "returned") /\ UNCHANGED allVars

RateNext == \/ \E c \in Calls : Arrive(c) \/ Goroutine(c)
            \/ \E r \in wire : API(r)
            \/ Tick
            \/ AllReturned

(* Time passes, goroutines run, and on a healthy network every request is  *)
(* answered; nothing is assumed about who is first.                        *)
RateSpec ==
    /\ RateInit /\ [][RateNext]_allVars
    /\ WF_allVars(Tick)
    /\ \A c \in Calls : /\ WF_allVars(Goroutine(c))
                        /\ WF_allVars(\E r \in wire : r.call = c /\ API(r))

-----------------------------------------------------------------------------
(* The tokens that the wait before a retry is worth: 1, 2, 4, ... seconds,  *)
(* cut at the cap, and never more than the bucket holds.                   *)
Worth(i, cap, burst) == Smaller(Smaller(2^i, cap), burst)

(* And those of the first n retries together.                              *)
Patience(n, cap, burst) ==
    LET sum[i \in Nat] == IF i = 0 THEN 0 ELSE sum[i - 1] + Worth(i - 1, cap, burst)
    IN  sum[n]

OwnPatience ==
    IF client.retryEnabled
    THEN Patience(client.maxRetries, EffectiveCap(client.retryMaxWait) \div Second, Burst)
    ELSE 0

(* A call is told "rate limited" only when as many requests of others as    *)
(* its waits are worth were let in before it since it was first refused:   *)
(* it never loses by retrying too early or too often, with any number of   *)
(* calls that retry beside it, in any order (retry.go:70-81, 16-21).       *)
RefusedOnlyBehindAQueue ==
    \A c \in Calls : RateLimitedOut(c) => Len(log) - mark[c] >= OwnPatience

(* Its inductive invariant.  Lead is how many requests have been let in     *)
(* since a call was first refused, beyond what its waits so far are worth. *)
(* While it waits, they, the bucket and the rest of the wait are worth the *)
(* wait; after it, they and the bucket leave no debt, so that an attempt   *)
(* that finds no token was not too early.                                  *)
OwnCap == EffectiveCap(client.retryMaxWait) \div Second
Lead(c) == Len(log) - mark[c] - Patience(attempt[c], OwnCap, Burst)

InTurn(c) ==
    /\ mark[c] <= Len(log)
    /\ mark[c] = NoMark => attempt[c] = 0 /\ pc[c] # "waiting"
    /\ pc[c] = "idle" => mark[c] = NoMark
    /\ pc[c] = "waiting" =>
          /\ Lead(c) >= 0
          /\ Lead(c) * Second + level + timer[c]
                >= Worth(attempt[c], OwnCap, Burst) * Second
    /\ pc[c] \in {"loop", "inflight"} /\ mark[c] # NoMark =>
          Lead(c) + Burst >= 0 /\ Lead(c) * Second + level >= 0

QueueInv ==
    /\ level \in 0 .. Burst * Second
    /\ timer \in [Calls -> Nat]
    /\ mark \in [Calls -> Nat \union {NoMark}]
    /\ \A c \in Calls : InTurn(c)
    /\ \A r \in wire : pc[r.call] = "inflight" /\ attempt[r.call] = r.attempt
    /\ \A a \in replies : IsRateLimited(a.status) =>
          mark[a.call] # NoMark /\ Lead(a.call) >= 0
    /\ RefusedOnlyBehindAQueue

(* No more calls at a time than its patience, and every one of them gets    *)
(* through: nobody always loses (retry.go:76-81, firezone.go:229-239).     *)
EveryCallServed ==
    \A c \in Calls :
        pc[c] = "loop" /\ Cardinality(Calls) <= OwnPatience
            ~> pc[c] = "returned" /\ outcome[c].err = "none"
=============================================================================
