---------------------------- MODULE RetryPolicy ----------------------------
(***************************************************************************)
(* How long a rate limited call waits before its next attempt (retry.go)   *)
(* and how the Retry-After header becomes a duration (errors.go).          *)
(*                                                                         *)
(* A duration is a signed integer of the width of Go's time.Duration, in   *)
(* any unit: Second is one second in that unit, MaxDuration the largest    *)
(* value.  Arithmetic that leaves the range wraps around.                  *)
(***************************************************************************)
EXTENDS Integers

CONSTANTS Second,              \* time.Second
          MaxDuration,         \* math.MaxInt64
          BackoffLimit,        \* the attempt from which the curve is cut (30)
          DefaultMaxRetryWait, \* defaultMaxRetryWait (30 s)
          MaxRetryJitter       \* maxRetryJitter (2 s)

Duration == -MaxDuration - 1 .. MaxDuration

(* The part of the exponential curve below BackoffLimit is representable,  *)
(* and the two built-in bounds are positive durations.                     *)
ASSUME DurationAssumption ==
    /\ Second \in Nat \ {0}
    /\ MaxDuration \in Nat \ {0}
    /\ BackoffLimit \in Nat
    /\ \A a \in 0 .. BackoffLimit - 1 : 2^a * Second \in 1 .. MaxDuration
    /\ DefaultMaxRetryWait \in 1 .. MaxDuration
    /\ MaxRetryJitter \in 1 .. MaxDuration

-----------------------------------------------------------------------------
(* Two's complement: what the machine stores for the integer x.            *)
Wrap(x) ==
    LET span == 2 * (MaxDuration + 1)
    IN  IF x \in Duration THEN x
        ELSE ((x + MaxDuration + 1) % span) - (MaxDuration + 1)

\* Mutant: min for max.
LargerSwapped(a, b) == IF a >= b THEN b ELSE a

Larger(a, b)  == IF a >= b THEN a ELSE b
Smaller(a, b) == IF a <= b THEN a ELSE b

(* Retry-After.  A header is the number of seconds it spells; an absent or *)
(* unparsable one is a negative number.  Sscanf refuses a number that does *)
(* not fit an int; one that fits is multiplied in the duration's width.    *)
ParseRetryAfter(header) ==
    IF header \in 0 .. MaxDuration THEN Wrap(header * Second) ELSE 0

\* Mutant: waits that do not grow.
FlatBackoff(attempt) == Second

(* 1 s, 2 s, 4 s, ... and the largest duration from BackoffLimit on.       *)
ExponentialBackoff(attempt) ==
    IF attempt >= BackoffLimit THEN MaxDuration ELSE 2^attempt * Second

(* Client.maxRetryWait: WithRetryMaxWait stores any duration; zero and     *)
(* negative ones mean the default.                                         *)
EffectiveCap(retryMaxWait) ==
    IF retryMaxWait > 0 THEN retryMaxWait ELSE DefaultMaxRetryWait

(* The paddings retryJitter can draw for a base wait.  Zero is always      *)
(* among them: it is also the fallback when the random source fails.       *)
Jitters(base) ==
    LET window == Smaller(base \div 2, MaxRetryJitter)
    IN  {0} \union 0 .. window - 1

\* Mutant: the cap bounds the curve only, not the server's demand.
BaseWaitUncapped(attempt, retryAfter, retryMaxWait) ==
    Larger(retryAfter, Smaller(ExponentialBackoff(attempt),
                               EffectiveCap(retryMaxWait)))

\* Mutant: the demand or the curve, whichever is shorter.
BaseWaitEither(attempt, retryAfter, retryMaxWait) ==
    Smaller(Smaller(retryAfter, ExponentialBackoff(attempt)),
            EffectiveCap(retryMaxWait))

(* The wait before jitter: the server's demand or the curve, then the cap. *)
BaseWait(attempt, retryAfter, retryMaxWait) ==
    Smaller(Larger(retryAfter, ExponentialBackoff(attempt)),
            EffectiveCap(retryMaxWait))

(* Every duration retryWait can return.                                    *)
RetryWaits(attempt, retryAfter, retryMaxWait) ==
    LET base == BaseWait(attempt, retryAfter, retryMaxWait)
    IN  {Wrap(base + j) : j \in Jitters(base)}
=============================================================================
