-------------------------- MODULE RateLimitProofs --------------------------
(***************************************************************************)
(* Theorems about RateLimit, for any number of calls, every budget, cap    *)
(* and bucket: no call is told "rate limited" before as many requests of   *)
(* others as its waits are worth were let in.                              *)
(***************************************************************************)
EXTENDS RateLimit, RequestsProofs, FiniteSetTheorems, WellFoundedInduction

(* A property of numbers that some number lacks is lacked by a least one.  *)
LEMMA LeastNumber ==
    ASSUME NEW T, T \subseteq Nat, T # {}
    PROVE  \E m \in T : \A j \in T : m <= j
<1>1. PICK m \in T : \A j \in T : ~(<<j, m>> \in OpToRel(<, Nat))
  BY NatLessThanWellFounded, WFMin, Zenon
<1>2. \A j \in T : ~(j < m)
  BY <1>1 DEF OpToRel
<1> QED BY <1>2

LEMMA PowerOfTwo == ASSUME NEW i \in Nat PROVE 2^i \in Nat
<1>1. IsFiniteSet(1 .. i) /\ Cardinality(1 .. i) = i
  BY FS_Interval
<1>2. Cardinality(SUBSET (1 .. i)) = 2^i /\ IsFiniteSet(SUBSET (1 .. i))
  BY <1>1, FS_SUBSET
<1> QED BY <1>2, FS_CardinalityType

-----------------------------------------------------------------------------
(* Sums.                                                                   *)

SumUpTo(n, f, g) == /\ g \in [0 .. n -> Nat] /\ g[0] = 0
                    /\ \A i \in 1 .. n : g[i] = g[i - 1] + f[i - 1]

(* Every sequence of numbers has sums up to any point.                     *)
LEMMA SumsExist ==
    ASSUME NEW f \in [Nat -> Nat], NEW n \in Nat
    PROVE  \E g : SumUpTo(n, f, g)
<1> DEFINE T == {k \in Nat : ~ \E g : SumUpTo(k, f, g)}
<1>1. SUFFICES ASSUME T # {} PROVE FALSE
  OBVIOUS
<1>2. PICK m \in T : \A j \in T : m <= j
  BY <1>1, LeastNumber
<1>3. CASE m = 0
  <2>1. SumUpTo(0, f, [i \in 0 .. 0 |-> 0])
    BY DEF SumUpTo
  <2> QED BY <1>3, <2>1
<1>4. CASE m # 0
  <2>1. m - 1 \in Nat /\ m - 1 \notin T /\ m \in Nat
    BY <1>2, <1>4
  <2>2. PICK g : SumUpTo(m - 1, f, g)
    BY <2>1
  <2> DEFINE h == [i \in 0 .. m |-> IF i = m THEN g[m - 1] + f[m - 1] ELSE g[i]]
  <2>a. \A i \in 0 .. m - 1 : g[i] \in Nat /\ f[i] \in Nat
    <3>1. g \in [0 .. m - 1 -> Nat]
      BY <2>2 DEF SumUpTo
    <3> HIDE DEF T
    <3>2. \A i \in 0 .. m - 1 : i \in Nat
      BY <2>1
    <3> QED BY <3>1, <3>2
  <2>b. m - 1 \in 0 .. m - 1 /\ m \in Nat \ {0}
    BY <2>1
  <2>c. g[0] = 0 /\ \A i \in 1 .. m - 1 : g[i] = g[i - 1] + f[i - 1]
    BY <2>2 DEF SumUpTo
  <2>d. \A i \in 0 .. m : h[i] = IF i = m THEN g[m - 1] + f[m - 1] ELSE g[i]
    OBVIOUS
  <2>e. h[m] = g[m - 1] + f[m - 1] /\ \A i \in 0 .. m - 1 : h[i] = g[i]
    BY <2>b, <2>d
  <2>3. h \in [0 .. m -> Nat]
    BY <2>a, <2>b
  <2> HIDE DEF h
  <2>4. \A i \in 1 .. m : h[i] = h[i - 1] + f[i - 1]
    <3> SUFFICES ASSUME NEW i \in 1 .. m PROVE h[i] = h[i - 1] + f[i - 1]
      OBVIOUS
    <3>1. i - 1 \in 0 .. m - 1 /\ (i = m \/ i \in 1 .. m - 1)
      BY <2>b
    <3> QED BY <2>b, <2>c, <2>e, <3>1
  <2>5. h[0] = 0
    BY <2>b, <2>c, <2>e
  <2>6. SumUpTo(m, f, h)
    BY <2>3, <2>4, <2>5 DEF SumUpTo
  <2> QED BY <2>6
<1> QED BY <1>3, <1>4

(* And only one.                                                           *)
LEMMA SumsAgree ==
    ASSUME NEW f \in [Nat -> Nat], NEW n \in Nat, NEW m \in Nat, n <= m,
           NEW g, SumUpTo(n, f, g), NEW h, SumUpTo(m, f, h), NEW k \in 0 .. n
    PROVE  g[k] = h[k]
<1> DEFINE T == {i \in 0 .. n : g[i] # h[i]}
<1>1. SUFFICES ASSUME T # {} PROVE FALSE
  OBVIOUS
<1>2. PICK l \in T : \A j \in T : l <= j
  <2>1. T \subseteq Nat
    OBVIOUS
  <2> HIDE DEF T
  <2> QED BY <1>1, <2>1, LeastNumber
<1>3. l # 0
  BY DEF SumUpTo
<1>4. l - 1 \in 0 .. n /\ l - 1 \notin T /\ l \in 1 .. n /\ l \in 1 .. m
  BY <1>2, <1>3
<1>5. g[l] = g[l - 1] + f[l - 1] /\ h[l] = h[l - 1] + f[l - 1] /\ g[l - 1] = h[l - 1]
  BY <1>4 DEF SumUpTo
<1> QED BY <1>2, <1>5

(* So the recursion of Patience defines a function.                        *)
LEMMA SumIsDefined ==
    ASSUME NEW f \in [Nat -> Nat]
    PROVE  \E p : /\ p \in [Nat -> Nat]
                  /\ p = [i \in Nat |-> IF i = 0 THEN 0 ELSE p[i - 1] + f[i - 1]]
<1> DEFINE G(n) == CHOOSE g : SumUpTo(n, f, g)
           p    == [n \in Nat |-> G(n)[n]]
<1>1. \A n \in Nat : SumUpTo(n, f, G(n))
  BY SumsExist
<1> HIDE DEF G
<1>2. p \in [Nat -> Nat]
  BY <1>1 DEF SumUpTo
<1>3. p[0] = 0
  BY <1>1 DEF SumUpTo
<1>4. ASSUME NEW n \in Nat, n # 0 PROVE p[n] = p[n - 1] + f[n - 1]
  <2>1. n - 1 \in Nat /\ n - 1 <= n /\ n - 1 \in 0 .. n - 1 /\ n \in 1 .. n
    BY <1>4
  <2>2. SumUpTo(n, f, G(n)) /\ SumUpTo(n - 1, f, G(n - 1))
    BY <1>1, <2>1
  <2>3. G(n - 1)[n - 1] = G(n)[n - 1]
    BY <2>1, <2>2, SumsAgree
  <2>4. G(n)[n] = G(n)[n - 1] + f[n - 1]
    BY <2>1, <2>2 DEF SumUpTo
  <2> QED BY <2>1, <2>3, <2>4
<1>5. p = [i \in Nat |-> IF i = 0 THEN 0 ELSE p[i - 1] + f[i - 1]]
  <2>1. \A i \in Nat : p[i] = IF i = 0 THEN 0 ELSE p[i - 1] + f[i - 1]
    BY <1>3, <1>4
  <2> HIDE DEF p
  <2> QED BY <1>2, <2>1
<1> QED BY <1>2, <1>5

(* What Patience is worth: nothing without a retry, and with every retry   *)
(* the wait before it more.                                                *)
LEMMA PatienceAdds ==
    ASSUME NEW cap \in Nat, NEW burst \in Nat
    PROVE  /\ Patience(0, cap, burst) = 0
           /\ \A n \in Nat :
                 /\ Worth(n, cap, burst) \in Nat /\ Worth(n, cap, burst) <= burst
                 /\ Patience(n, cap, burst) \in Nat
                 /\ Patience(n + 1, cap, burst)
                       = Patience(n, cap, burst) + Worth(n, cap, burst)
<1> DEFINE f   == [i \in Nat |-> Worth(i, cap, burst)]
           sum == CHOOSE s : s = [i \in Nat |-> IF i = 0 THEN 0
                                    ELSE s[i - 1] + Worth(i - 1, cap, burst)]
<1>1. \A i \in Nat : Worth(i, cap, burst) \in Nat /\ Worth(i, cap, burst) <= burst
  BY PowerOfTwo DEF Worth, Smaller
<1>2. f \in [Nat -> Nat]
  BY <1>1
<1>3. PICK p : /\ p \in [Nat -> Nat]
               /\ p = [i \in Nat |-> IF i = 0 THEN 0 ELSE p[i - 1] + f[i - 1]]
  BY <1>2, SumIsDefined
<1>4. p = [i \in Nat |-> IF i = 0 THEN 0 ELSE p[i - 1] + Worth(i - 1, cap, burst)]
  <2>1. \A i \in Nat : i # 0 => f[i - 1] = Worth(i - 1, cap, burst)
    OBVIOUS
  <2> HIDE DEF f
  <2> QED BY <1>3, <2>1
<1>5. sum = [i \in Nat |-> IF i = 0 THEN 0 ELSE sum[i - 1] + Worth(i - 1, cap, burst)]
  BY <1>4
<1>6. \A n \in Nat : Patience(n, cap, burst) = sum[n]
  BY DEF Patience
<1> HIDE DEF sum
<1>7. sum[0] = 0 /\ \A n \in Nat : sum[n + 1] = sum[n] + Worth(n, cap, burst)
  BY <1>5
<1>8. \A n \in Nat : sum[n] \in Nat
  <2> DEFINE T == {n \in Nat : sum[n] \notin Nat}
  <2>1. SUFFICES ASSUME T # {} PROVE FALSE
    OBVIOUS
  <2>2. PICK m \in T : \A j \in T : m <= j
    BY <2>1, LeastNumber
  <2>3. m # 0
    BY <1>7
  <2>4. m - 1 \in Nat /\ m - 1 \notin T
    BY <2>2, <2>3
  <2>5. sum[m] = sum[m - 1] + Worth(m - 1, cap, burst)
    BY <1>7, <2>4
  <2> QED BY <1>1, <2>2, <2>4, <2>5
<1> QED BY <1>1, <1>6, <1>7, <1>8

-----------------------------------------------------------------------------
(* A wait.                                                                 *)

LEMMA ProductGrows ==
    ASSUME NEW x \in Int, NEW y \in Int, NEW s \in Nat, x <= y
    PROVE  x * s \in Int /\ y * s \in Int /\ x * s <= y * s
OBVIOUS

LEMMA NextProduct ==
    ASSUME NEW x \in Int, NEW s \in Nat
    PROVE  (x + 1) * s = x * s + s /\ x * s \in Int
OBVIOUS

(* Less than a token is no token.                                          *)
LEMMA NoDebt ==
    ASSUME NEW x \in Int, NEW s \in Nat, NEW l \in Nat, l < s, x * s + l >= 0
    PROVE  x >= 0
<1> SUFFICES ASSUME x + 1 <= 0 PROVE FALSE
  OBVIOUS
<1>1. (x + 1) * s <= 0 * s /\ 0 * s = 0
  BY ProductGrows
<1>2. x * s + s <= 0 /\ x * s \in Int
  BY <1>1, NextProduct
<1> QED BY <1>2

LEMMA WholePart ==
    ASSUME NEW x \in Nat, NEW s \in Nat \ {0}
    PROVE  x \div s \in Nat /\ (x \div s) * s <= x
OBVIOUS

(* Every wait is as long as it is worth (retry.go:76-86).                  *)
LEMMA WaitIsWorth ==
    ASSUME NEW a \in Nat, NEW ra \in Int, NEW m \in Duration,
           EffectiveCap(m) + MaxRetryJitter <= MaxDuration,
           NEW w \in RetryWaits(a, ra, m)
    PROVE  /\ w \in Nat
           /\ w >= Worth(a, EffectiveCap(m) \div Second, Burst) * Second
<1> DEFINE cap == EffectiveCap(m)
           q   == cap \div Second
           x   == Worth(a, q, Burst)
<1>1. cap \in 1 .. MaxDuration /\ MaxDuration \in Nat /\ Second \in Nat \ {0}
  BY CapType, DurationAssumption
<1>2. w \in Duration /\ w >= BaseWait(a, ra, m) /\ BaseWait(a, ra, m) \in 1 .. MaxDuration
  BY RetryWaitsType, RetryWaitBounds, BaseWaitType
<1>3. BaseWait(a, ra, m) >= Smaller(ExponentialBackoff(a), cap)
  <2>1. ExponentialBackoff(a) \in 1 .. MaxDuration
    BY BackoffType
  <2> QED BY <1>1, <2>1 DEF BaseWait, Larger, Smaller
<1> HIDE DEF cap
<1>4. q \in Nat /\ q * Second <= cap
  BY <1>1, WholePart
<1> HIDE DEF q
<1>5. 2^a \in Nat /\ x \in Nat /\ x <= 2^a /\ x <= q
  BY <1>4, PowerOfTwo, RateLimitAssumption DEF Worth, Smaller
<1> HIDE DEF x
<1>6. x * Second <= cap
  <2>1. x * Second <= q * Second /\ x * Second \in Int /\ q * Second \in Int
    BY <1>1, <1>4, <1>5, ProductGrows
  <2> QED BY <1>1, <1>4, <2>1
<1>7. x * Second <= ExponentialBackoff(a)
  <2>1. CASE a >= BackoffLimit
    <3>1. ExponentialBackoff(a) = MaxDuration
      BY <2>1 DEF ExponentialBackoff
    <3>2. x * Second \in Int
      BY <1>1, <1>5
    <3> QED BY <1>1, <1>6, <3>1, <3>2
  <2>2. CASE ~(a >= BackoffLimit)
    BY <1>1, <1>5, <2>2, ProductGrows DEF ExponentialBackoff
  <2> QED BY <2>1, <2>2
<1>8. Smaller(ExponentialBackoff(a), cap) >= x * Second
  BY <1>6, <1>7 DEF Smaller
<1>9. w \in Nat /\ w >= x * Second
  <2>1. x * Second \in Int /\ Smaller(ExponentialBackoff(a), cap) \in Int
    BY <1>1, <1>5, BackoffType DEF Smaller
  <2> QED BY <1>1, <1>2, <1>3, <1>8, <2>1 DEF Duration
<1> QED BY <1>9 DEF x, q, cap
-----------------------------------------------------------------------------
(* The behaviours of RateLimit are behaviours of Requests.                 *)

LEMMA RateStep == [RateNext]_allVars => [Next]_vars
<1> SUFFICES ASSUME [RateNext]_allVars PROVE [Next]_vars
  OBVIOUS
<1>1. CASE UNCHANGED allVars
  BY <1>1 DEF allVars
<1>2. ASSUME NEW c \in Calls, Arrive(c) PROVE [Next]_vars
  BY <1>2 DEF Arrive, Next
<1>3. ASSUME NEW c \in Calls, Goroutine(c) PROVE [Next]_vars
  BY <1>3 DEF Goroutine, Send, Finish, Sleep, Rise, Next, Step
<1>4. ASSUME NEW r \in wire, API(r) PROVE [Next]_vars
  BY <1>4 DEF API, Admit, Throttle, Next
<1>5. CASE Tick
  BY <1>5 DEF Tick
<1>6. CASE AllReturned
  BY <1>6 DEF AllReturned, allVars
<1> QED BY <1>1, <1>2, <1>3, <1>4, <1>5, <1>6 DEF RateNext

LEMMA RateSpecImplementsSpec == RateSpec => Spec
<1>1. RateInit => Init
  BY DEF RateInit
<1> QED BY <1>1, RateStep, PTL DEF RateSpec, Spec

-----------------------------------------------------------------------------
(* What the steps of the API do.                                           *)

LEMMA Served ==
    ASSUME TypeOK, TraceInv, QueueInv, NEW r \in wire, NEW s \in Statuses,
           Serve(r), AnsweredWith(s)
    PROVE  /\ r.call \in Calls
           /\ \E a : replies' = replies \union {a} /\ a.call = r.call /\ a.status = s
           /\ IsSuccess(s) => log' = Append(log, r.call)
           /\ ~IsSuccess(s) /\ ~IsServerError(s) => log' = log
           /\ wire' \subseteq wire
           /\ UNCHANGED <<client, pc, attempt, outcome>>
<1>1. r \in Request /\ r.call \in Calls
  BY DEF TypeOK, Request
<1>2. pc[r.call] = "inflight" /\ attempt[r.call] = r.attempt
  BY DEF QueueInv
<1>3. PICK status \in Statuses :
         /\ \E p \in Processed(status) : log' = IF p THEN Append(log, r.call) ELSE log
         /\ \E a \in Answers(r, status) : replies' = replies \union {a}
  BY <1>2 DEF Serve
<1>4. PICK a \in Answers(r, status) : replies' = replies \union {a}
  BY <1>3
<1>5. a.call = r.call /\ a.status = status
  BY <1>1, AnswersType
<1>6. a \notin replies
  BY <1>5 DEF TraceInv, WireInv
<1>7. status = s
  BY <1>4, <1>5, <1>6 DEF AnsweredWith
<1>8. /\ IsSuccess(s) => Processed(s) = {TRUE}
      /\ ~IsSuccess(s) /\ ~IsServerError(s) => Processed(s) = {FALSE}
  BY ProcessedTells
<1>9. PICK p \in Processed(s) : log' = IF p THEN Append(log, r.call) ELSE log
  BY <1>3, <1>7
<1>10. /\ IsSuccess(s) => log' = Append(log, r.call)
       /\ ~IsSuccess(s) /\ ~IsServerError(s) => log' = log
  <2>1. ASSUME IsSuccess(s) PROVE log' = Append(log, r.call)
    <3>1. p = TRUE
      BY <1>8, <1>9, <2>1
    <3> QED BY <1>9, <3>1
  <2>2. ASSUME ~IsSuccess(s), ~IsServerError(s) PROVE log' = log
    <3>1. p = FALSE
      BY <1>8, <1>9, <2>2
    <3> QED BY <1>9, <3>1
  <2> QED BY <2>1, <2>2
<1>11. wire' \subseteq wire /\ UNCHANGED <<client, pc, attempt, outcome>>
  BY DEF Serve, clientVars
<1> QED BY <1>1, <1>4, <1>5, <1>7, <1>10, <1>11

(* A cap is worth a number of seconds, and what a call has waited for is   *)
(* a number of tokens.                                                     *)
LEMMA OwnNumbers ==
    ASSUME TypeOK
    PROVE  /\ OwnCap \in Nat /\ Len(log) \in Nat
           /\ \A i \in Nat :
                 /\ Worth(i, OwnCap, Burst) \in Nat
                 /\ Worth(i, OwnCap, Burst) <= Burst
                 /\ Patience(i, OwnCap, Burst) \in Nat
                 /\ Patience(i + 1, OwnCap, Burst)
                       = Patience(i, OwnCap, Burst) + Worth(i, OwnCap, Burst)
           /\ Patience(0, OwnCap, Burst) = 0
           /\ Second \in Nat \ {0} /\ Burst \in Nat \ {0}
           /\ \A c \in Calls : attempt[c] \in Nat
<1>1. client.retryMaxWait \in Duration
  BY ClientsAssumption DEF TypeOK
<1>2. EffectiveCap(client.retryMaxWait) \in Nat /\ Second \in Nat \ {0}
  BY <1>1, CapType, DurationAssumption
<1>3. OwnCap \in Nat
  BY <1>2, WholePart DEF OwnCap
<1>4. Burst \in Nat \ {0} /\ Burst \in Nat
  BY RateLimitAssumption
<1> HIDE DEF OwnCap
<1>5. /\ Patience(0, OwnCap, Burst) = 0
      /\ \A i \in Nat :
            /\ Worth(i, OwnCap, Burst) \in Nat /\ Worth(i, OwnCap, Burst) <= Burst
            /\ Patience(i, OwnCap, Burst) \in Nat
            /\ Patience(i + 1, OwnCap, Burst)
                  = Patience(i, OwnCap, Burst) + Worth(i, OwnCap, Burst)
  BY <1>3, <1>4, PatienceAdds
<1>6. Len(log) \in Nat /\ \A c \in Calls : attempt[c] \in Nat
  BY DEF TypeOK
<1> QED BY <1>2, <1>3, <1>4, <1>5, <1>6

LEMMA LeadType ==
    ASSUME TypeOK, QueueInv, NEW c \in Calls
    PROVE  Lead(c) \in Int /\ mark[c] \in Int /\ timer[c] \in Nat /\ level \in Nat
<1>1. /\ mark \in [Calls -> Nat \union {NoMark}] /\ timer \in [Calls -> Nat]
      /\ level \in 0 .. Burst * Second
  BY DEF QueueInv
<1>2. mark[c] \in Int /\ timer[c] \in Nat
  BY <1>1 DEF NoMark
<1>3. level \in Nat
  BY <1>1
<1>4. /\ Patience(attempt[c], OwnCap, Burst) \in Nat /\ Len(log) \in Nat
  BY OwnNumbers
<1> HIDE DEF OwnCap
<1>5. Lead(c) \in Int
  BY <1>2, <1>4 DEF Lead
<1> QED BY <1>2, <1>3, <1>5
(* A call that stands still while no request is let in keeps its turn.     *)
LEMMA TurnKept ==
    ASSUME NEW c \in Calls, InTurn(c), client' = client, log' = log, level' = level,
           mark' = mark, pc'[c] = pc[c], attempt'[c] = attempt[c], timer'[c] = timer[c]
    PROVE  InTurn(c)' /\ Lead(c)' = Lead(c)
<1>1. OwnCap' = OwnCap
  BY DEF OwnCap
<1> HIDE DEF OwnCap
<1>2. Lead(c)' = Lead(c)
  BY <1>1 DEF Lead
<1> HIDE DEF Lead
<1> QED BY <1>1, <1>2 DEF InTurn

(* A step of one call, with no request let in.                             *)
LEMMA CallKeepsQueue ==
    ASSUME QueueInv, TypeOK, NEW c \in Calls, client' = client, log' = log,
           level' = level, mark' = mark,
           timer' \in [Calls -> Nat],
           \A d \in Calls : d # c =>
              /\ pc'[d] = pc[d] /\ attempt'[d] = attempt[d]
              /\ timer'[d] = timer[d] /\ outcome'[d] = outcome[d],
           InTurn(c)',
           RateLimitedOut(c)' => Len(log) - mark[c] >= OwnPatience,
           \A r \in wire' : \/ r \in wire /\ r.call # c
                            \/ r.call = c /\ pc'[c] = "inflight" /\ attempt'[c] = r.attempt,
           \A a \in replies' : a \in replies /\ a.call # c
    PROVE  QueueInv'
<1>1. ASSUME NEW d \in Calls, d # c PROVE InTurn(d)' /\ Lead(d)' = Lead(d)
  <2>1. InTurn(d)
    BY DEF QueueInv
  <2> QED BY <1>1, <2>1, TurnKept
<1>2. \A d \in Calls : InTurn(d)'
  BY <1>1
<1>3. \A r \in wire' : pc'[r.call] = "inflight" /\ attempt'[r.call] = r.attempt
  <2> SUFFICES ASSUME NEW r \in wire'
               PROVE  pc'[r.call] = "inflight" /\ attempt'[r.call] = r.attempt
    OBVIOUS
  <2>1. CASE r \in wire /\ r.call # c
    <3>1. r.call \in Calls /\ pc[r.call] = "inflight" /\ attempt[r.call] = r.attempt
      BY <2>1 DEF TypeOK, Request, QueueInv
    <3> QED BY <2>1, <3>1
  <2>2. CASE r.call = c /\ pc'[c] = "inflight" /\ attempt'[c] = r.attempt
    BY <2>2
  <2> QED BY <2>1, <2>2
<1>4. ASSUME NEW a \in replies', IsRateLimited(a.status)
      PROVE  mark'[a.call] # NoMark /\ Lead(a.call)' >= 0
  <2>1. a.call \in Calls /\ a.call # c /\ a \in replies
    BY DEF TypeOK, Reply
  <2>2. mark[a.call] # NoMark /\ Lead(a.call) >= 0
    BY <1>4, <2>1 DEF QueueInv
  <2> QED BY <1>1, <2>1, <2>2
<1>5. RefusedOnlyBehindAQueue'
  <2>1. OwnPatience' = OwnPatience
    BY DEF OwnPatience
  <2> HIDE DEF OwnPatience
  <2> SUFFICES ASSUME NEW d \in Calls, RateLimitedOut(d)'
               PROVE  Len(log) - mark[d] >= OwnPatience
    BY <2>1 DEF RefusedOnlyBehindAQueue
  <2>2. CASE d = c
    BY <2>2
  <2>3. CASE d # c
    BY <2>3 DEF QueueInv, RefusedOnlyBehindAQueue, RateLimitedOut
  <2> QED BY <2>2, <2>3
<1>6. level' \in 0 .. Burst * Second /\ mark' \in [Calls -> Nat \union {NoMark}]
  BY DEF QueueInv
<1> HIDE DEF InTurn, Lead, RefusedOnlyBehindAQueue
<1> QED BY <1>2, <1>3, <1>4, <1>5, <1>6 DEF QueueInv

LEMMA ArriveKeepsQueue ==
    ASSUME TypeOK, TraceInv, QueueInv, NEW c \in Calls, Arrive(c)
    PROVE  QueueInv'
<1>1. /\ pc[c] = "idle" /\ pc' = [pc EXCEPT ![c] = "loop"]
      /\ UNCHANGED <<client, attempt, outcome, wire, replies, log, level, timer, mark>>
  BY DEF Arrive, Start, network, bucketVars
<1>2. /\ \A r \in wire : r.call # c
      /\ \A a \in replies : a.call # c
  BY <1>1, NoTrace
<1>3. mark[c] = NoMark /\ InTurn(c)
  BY <1>1 DEF QueueInv, InTurn
<1>4. InTurn(c)'
  BY <1>1, <1>3 DEF InTurn, TypeOK
<1>5. RateLimitedOut(c)' => Len(log) - mark[c] >= OwnPatience
  BY <1>1 DEF RateLimitedOut, QueueInv, RefusedOnlyBehindAQueue
<1>6. timer' \in [Calls -> Nat]
  BY <1>1 DEF QueueInv
<1> QED BY <1>1, <1>2, <1>4, <1>5, <1>6, CallKeepsQueue DEF TypeOK

LEMMA SendKeepsQueue ==
    ASSUME TypeOK, TraceInv, QueueInv, NEW c \in Calls, Send(c)
    PROVE  QueueInv'
<1> DEFINE q == [call |-> c, attempt |-> attempt[c]]
<1>1. /\ pc[c] = "loop" /\ pc' = [pc EXCEPT ![c] = "inflight"]
      /\ wire' = wire \union {q}
      /\ UNCHANGED <<client, attempt, outcome, replies, log, level, timer, mark>>
  BY DEF Send, RawRequest, bucketVars
<1>2. /\ \A r \in wire : r.call # c
      /\ \A a \in replies : a.call # c
  BY <1>1, NoTrace
<1>3. q.call = c /\ q.attempt = attempt[c]
  OBVIOUS
<1> HIDE DEF q
<1>4. InTurn(c)
  BY DEF QueueInv
<1>5. pc'[c] = "inflight" /\ \A d \in Calls : d # c => pc'[d] = pc[d]
  BY <1>1 DEF TypeOK
<1>6. InTurn(c)'
  <2>1. OwnCap' = OwnCap
    BY <1>1 DEF OwnCap
  <2> HIDE DEF OwnCap
  <2>2. Lead(c)' = Lead(c)
    BY <1>1, <2>1 DEF Lead
  <2> HIDE DEF Lead
  <2> QED BY <1>1, <1>4, <1>5, <2>2 DEF InTurn
<1>7. RateLimitedOut(c)' => Len(log) - mark[c] >= OwnPatience
  BY <1>1 DEF RateLimitedOut, QueueInv, RefusedOnlyBehindAQueue
<1>8. timer' \in [Calls -> Nat]
  BY <1>1 DEF QueueInv
<1> QED BY <1>1, <1>2, <1>3, <1>5, <1>6, <1>7, <1>8, CallKeepsQueue
(* A call that gives up with a 429 has no debt left, or never waited.      *)
LEMMA FinishKeepsQueue ==
    ASSUME TypeOK, TraceInv, QueueInv, NEW c \in Calls, Finish(c)
    PROVE  QueueInv'
<1>1. PICK r \in replies :
         /\ Answered(c, r)
         /\ \/ IsSuccess(r.status) /\ Return(c, Decode(kind[c], r.data))
            \/ ~IsSuccess(r.status) /\ ~Retries(c, r.status) /\ Return(c, APIError(r.status))
         /\ replies' = replies \ {r}
         /\ UNCHANGED <<client, attempt, wire, log, level, timer, mark>>
  BY DEF Finish, Succeed, Fail, bucketVars
<1>2. /\ pc' = [pc EXCEPT ![c] = "returned"] /\ r.call = c /\ r \in Reply
      /\ \A d \in Calls : d # c => outcome'[d] = outcome[d]
  BY <1>1 DEF Return, Answered, TypeOK
<1>3. /\ \A q \in wire : q.call # c
      /\ \A a \in replies' : a.call # c
  BY <1>1, <1>2, OnlyTrace
<1>4. pc'[c] = "returned" /\ \A d \in Calls : d # c => pc'[d] = pc[d]
  BY <1>2 DEF TypeOK
<1>5. mark[c] <= Len(log) /\ (mark[c] = NoMark => attempt[c] = 0)
  BY DEF QueueInv, InTurn
<1>6. InTurn(c)'
  BY <1>1, <1>4, <1>5 DEF InTurn
<1>7. ASSUME RateLimitedOut(c)' PROVE Len(log) - mark[c] >= OwnPatience
  <2>1. IsRateLimited(r.status) /\ ~Retries(c, r.status)
    <3>1. CASE IsSuccess(r.status) /\ Return(c, Decode(kind[c], r.data))
      <4>1. outcome'[c] = Decode(kind[c], r.data)
        BY <3>1 DEF Return, TypeOK
      <4>2. Decode(kind[c], r.data).err # "api"
        BY <1>2, DecodeType DEF TypeOK, Reply
      <4> QED BY <1>7, <4>1, <4>2 DEF RateLimitedOut
    <3>2. CASE ~IsSuccess(r.status) /\ ~Retries(c, r.status) /\ Return(c, APIError(r.status))
      <4>1. outcome'[c] = APIError(r.status)
        BY <3>2 DEF Return, TypeOK
      <4> QED BY <1>7, <3>2, <4>1 DEF RateLimitedOut, APIError
    <3> QED BY <1>1, <3>1, <3>2
  <2>2. mark[c] # NoMark /\ Lead(c) >= 0
    BY <1>2, <2>1 DEF QueueInv
  <2>3. CASE ~client.retryEnabled
    <3>1. OwnPatience = 0
      BY <2>3 DEF OwnPatience
    <3>2. mark[c] \in Int /\ Len(log) \in Nat
      BY LeadType, OwnNumbers
    <3> QED BY <1>5, <3>1, <3>2
  <2>4. CASE client.retryEnabled
    <3>1. attempt[c] = client.maxRetries
      BY <2>1, <2>4 DEF Retries
    <3>2. OwnPatience = Patience(attempt[c], OwnCap, Burst)
      BY <2>4, <3>1 DEF OwnPatience, OwnCap
    <3>3. /\ Patience(attempt[c], OwnCap, Burst) \in Nat
          /\ mark[c] \in Int /\ Len(log) \in Nat
      BY OwnNumbers, LeadType
    <3> HIDE DEF OwnCap
    <3> QED BY <2>2, <3>2, <3>3 DEF Lead
  <2> QED BY <2>3, <2>4
<1>8. timer' \in [Calls -> Nat]
  BY <1>1 DEF QueueInv
<1> QED BY <1>1, <1>2, <1>3, <1>4, <1>6, <1>7, <1>8, CallKeepsQueue

(* A wait covers what it is worth from its first moment.                   *)
LEMMA SleepKeepsQueue ==
    ASSUME RoomForJitter, TypeOK, TraceInv, QueueInv, NEW c \in Calls, Sleep(c)
    PROVE  QueueInv'
<1>1. PICK r \in replies :
         /\ Answered(c, r) /\ Retries(c, r.status)
         /\ replies' = replies \ {r}
         /\ pc' = [pc EXCEPT ![c] = "waiting"]
         /\ timer' = [timer EXCEPT ![c] = wait'[c]]
         /\ UNCHANGED <<client, attempt, outcome, wire, log, level, mark>>
  BY DEF Sleep, BackOff
<1>2. r.call = c /\ mark[c] # NoMark /\ Lead(c) >= 0
  BY <1>1 DEF Answered, Retries, QueueInv
<1>3. /\ \A q \in wire : q.call # c
      /\ \A a \in replies' : a.call # c
  BY <1>1, <1>2, OnlyTrace
<1>4. pc'[c] = "waiting" /\ \A d \in Calls : d # c => pc'[d] = pc[d]
  BY <1>1 DEF TypeOK
<1>5. /\ wait'[c] \in Nat
      /\ wait'[c] >= Worth(attempt[c], OwnCap, Burst) * Second
  <2>1. BackOff(c)
    BY DEF Sleep
  <2>2. PICK h \in Headers \union {-1} :
           /\ wait'[c] \in RetryWaits(attempt[c], ParseRetryAfter(h), client.retryMaxWait)
           /\ ParseRetryAfter(h) \in Int
           /\ attempt[c] \in Nat /\ client.retryMaxWait \in Duration
    BY <2>1, BackOffDraws
  <2>3. EffectiveCap(client.retryMaxWait) + MaxRetryJitter <= MaxDuration
    BY DEF RoomForJitter, TypeOK
  <2> QED BY <2>2, <2>3, WaitIsWorth DEF OwnCap
<1>6. timer' \in [Calls -> Nat] /\ timer'[c] = wait'[c]
      /\ \A d \in Calls : d # c => timer'[d] = timer[d]
  BY <1>1, <1>5 DEF QueueInv
<1>7. InTurn(c)'
  <2>1. OwnCap' = OwnCap
    BY <1>1 DEF OwnCap
  <2>2. /\ Lead(c) \in Int /\ Second \in Nat \ {0} /\ level \in Nat
        /\ Worth(attempt[c], OwnCap, Burst) \in Nat
    BY OwnNumbers, LeadType
  <2> HIDE DEF OwnCap
  <2>3. Lead(c)' = Lead(c)
    BY <1>1, <2>1 DEF Lead
  <2> HIDE DEF Lead
  <2>4. Lead(c) * Second \in Nat
    BY <1>2, <2>2
  <2>5. Worth(attempt[c], OwnCap, Burst) * Second \in Nat
    BY <2>2
  <2>6. Lead(c) * Second + level + wait'[c] >= Worth(attempt[c], OwnCap, Burst) * Second
    BY <1>5, <2>2, <2>4, <2>5
  <2>7. mark[c] <= Len(log)
    BY DEF QueueInv, InTurn
  <2> QED BY <1>1, <1>2, <1>4, <1>6, <2>1, <2>3, <2>6, <2>7 DEF InTurn
<1>8. RateLimitedOut(c)' => Len(log) - mark[c] >= OwnPatience
  BY <1>1 DEF RateLimitedOut, QueueInv, RefusedOnlyBehindAQueue
<1> QED BY <1>1, <1>2, <1>3, <1>4, <1>6, <1>7, <1>8, CallKeepsQueue

(* What a wait was worth has been let in or is in the bucket when it ends. *)
LEMMA RiseKeepsQueue ==
    ASSUME TypeOK, TraceInv, QueueInv, NEW c \in Calls, Rise(c)
    PROVE  QueueInv'
<1>1. /\ pc[c] = "waiting" /\ pc' = [pc EXCEPT ![c] = "loop"] /\ timer[c] = 0
      /\ attempt' = [attempt EXCEPT ![c] = @ + 1]
      /\ UNCHANGED <<client, outcome, wire, replies, log, level, timer, mark>>
  BY DEF Rise, Wake, network, bucketVars
<1>2. /\ \A q \in wire : q.call # c
      /\ \A a \in replies : a.call # c
  BY <1>1, NoTrace
<1>3. /\ pc'[c] = "loop" /\ attempt'[c] = attempt[c] + 1
      /\ \A d \in Calls : d # c => pc'[d] = pc[d] /\ attempt'[d] = attempt[d]
  BY <1>1 DEF TypeOK
<1>4. /\ mark[c] <= Len(log) /\ mark[c] # NoMark /\ Lead(c) >= 0
      /\ Lead(c) * Second + level + timer[c] >= Worth(attempt[c], OwnCap, Burst) * Second
  BY <1>1 DEF QueueInv, InTurn
<1>5. InTurn(c)'
  <2> DEFINE x == Worth(attempt[c], OwnCap, Burst)
  <2>1. OwnCap' = OwnCap
    BY <1>1 DEF OwnCap
  <2>2. /\ Lead(c) \in Int /\ Second \in Nat \ {0} /\ level \in Nat
        /\ x \in Nat /\ x <= Burst /\ Burst \in Nat
        /\ attempt[c] \in Nat /\ mark[c] \in Int /\ Len(log) \in Nat
        /\ Patience(attempt[c], OwnCap, Burst) \in Nat
        /\ Patience(attempt[c] + 1, OwnCap, Burst) = Patience(attempt[c], OwnCap, Burst) + x
    BY OwnNumbers, LeadType
  <2> HIDE DEF OwnCap
  <2>3. Lead(c)' = Lead(c) - x
    BY <1>1, <1>3, <2>1, <2>2 DEF Lead
  <2> HIDE DEF Lead
  <2>4. Lead(c)' + Burst >= 0
    BY <1>4, <2>2, <2>3
  <2>5. Lead(c) * Second + level >= x * Second
    <3>1. Lead(c) * Second \in Int
      BY <2>2
    <3> HIDE DEF x
    <3> QED BY <1>1, <1>4, <2>2, <3>1 DEF x
  <2> HIDE DEF x
  <2>6. (Lead(c) - x) * Second = Lead(c) * Second - x * Second
    BY <2>2
  <2>7. Lead(c) * Second \in Int /\ x * Second \in Int
    BY <2>2
  <2>8. Lead(c)' * Second + level >= 0
    <3> DEFINE y == Lead(c) * Second
               z == x * Second
    <3>1. Lead(c)' * Second = y - z
      BY <2>3, <2>6
    <3>2. y \in Int /\ z \in Int /\ y + level >= z /\ level \in Nat
      BY <2>2, <2>5, <2>7
    <3> HIDE DEF y, z
    <3> QED BY <3>1, <3>2
  <2> QED BY <1>1, <1>3, <1>4, <2>4, <2>8 DEF InTurn
<1>6. RateLimitedOut(c)' => Len(log) - mark[c] >= OwnPatience
  BY <1>1 DEF RateLimitedOut, QueueInv, RefusedOnlyBehindAQueue
<1>7. timer' \in [Calls -> Nat]
  BY <1>1 DEF QueueInv
<1> QED BY <1>1, <1>2, <1>3, <1>5, <1>6, <1>7, CallKeepsQueue
-----------------------------------------------------------------------------
(* The API and the bucket.                                                 *)

(* A request that is let in pays its token, and every other call's turn    *)
(* comes nearer.                                                           *)
LEMMA AdmitKeepsQueue ==
    ASSUME TypeOK, TraceInv, QueueInv, NEW r \in wire, Admit(r)
    PROVE  QueueInv'
<1>0. IsSuccess(200) /\ ~IsRateLimited(200) /\ 200 \in Statuses
  BY RateLimitAssumption DEF IsSuccess, IsRateLimited
<1>1. PICK a : /\ replies' = replies \union {a} /\ ~IsRateLimited(a.status)
               /\ log' = Append(log, r.call) /\ r.call \in Calls /\ wire' \subseteq wire
               /\ UNCHANGED <<client, pc, attempt, outcome>>
  BY <1>0, Served DEF Admit
<1>2. level >= Second /\ level' = level - Second /\ UNCHANGED <<timer, mark>>
  BY DEF Admit
<1>3. Len(log') = Len(log) + 1 /\ Len(log) \in Nat
  BY <1>1 DEF TypeOK
<1>4. OwnCap' = OwnCap /\ OwnPatience' = OwnPatience
  BY <1>1 DEF OwnCap, OwnPatience
<1>5. OwnPatience \in Int
  <2>1. client.maxRetries \in Nat
    BY ClientsAssumption DEF TypeOK
  <2>2. Patience(client.maxRetries, OwnCap, Burst) \in Nat
    <3>1. \A i \in Nat : Patience(i, OwnCap, Burst) \in Nat
      BY OwnNumbers
    <3> QED BY <2>1, <3>1
  <2> QED BY <2>2 DEF OwnPatience, OwnCap
<1>6. ASSUME NEW c \in Calls
      PROVE  Lead(c)' = Lead(c) + 1 /\ Lead(c) \in Int
  <2>1. /\ Patience(attempt[c], OwnCap, Burst) \in Nat /\ mark[c] \in Int
        /\ Lead(c) \in Int
    BY OwnNumbers, LeadType
  <2> HIDE DEF OwnCap
  <2>2. Lead(c)' = Len(log') - mark[c] - Patience(attempt[c], OwnCap, Burst)
    BY <1>1, <1>2, <1>4 DEF Lead
  <2>3. Lead(c) = Len(log) - mark[c] - Patience(attempt[c], OwnCap, Burst)
    BY DEF Lead
  <2> QED BY <1>3, <2>1, <2>2, <2>3
<1> HIDE DEF OwnCap, OwnPatience
<1>7. ASSUME NEW c \in Calls
      PROVE  InTurn(c)'
  <2> DEFINE y == Lead(c) * Second
             w == Worth(attempt[c], OwnCap, Burst) * Second
  <2>1. /\ Second \in Nat \ {0} /\ level \in Nat /\ timer[c] \in Nat
        /\ mark[c] \in Int /\ Burst \in Nat /\ Worth(attempt[c], OwnCap, Burst) \in Nat
    BY OwnNumbers, LeadType
  <2>2. Lead(c)' = Lead(c) + 1 /\ Lead(c) \in Int
    BY <1>6
  <2>3. InTurn(c)
    BY DEF QueueInv
  <2>4. Lead(c)' * Second = y + Second /\ y \in Int /\ w \in Int
    <3> HIDE DEF Lead
    <3>1. Second \in Nat /\ Lead(c) \in Int /\ Lead(c)' = Lead(c) + 1
      BY <2>1, <2>2
    <3>2. (Lead(c) + 1) * Second = Lead(c) * Second + Second /\ Lead(c) * Second \in Int
      BY <3>1, NextProduct
    <3>3. w \in Int
      BY <2>1
    <3> QED BY <3>1, <3>2, <3>3
  <2>5. w' = w
    BY <1>1, <1>4
  <2> HIDE DEF Lead
  <2>6. pc[c] = "waiting" => Lead(c) >= 0 /\ y + level + timer[c] >= w
    BY <2>3 DEF InTurn
  <2>7. pc[c] \in {"loop", "inflight"} /\ mark[c] # NoMark =>
           Lead(c) + Burst >= 0 /\ y + level >= 0
    BY <2>3 DEF InTurn
  <2>8. /\ mark[c] <= Len(log) /\ (mark[c] = NoMark => attempt[c] = 0 /\ pc[c] # "waiting")
        /\ (pc[c] = "idle" => mark[c] = NoMark)
    BY <2>3 DEF InTurn
  <2>9. w' = Worth(attempt'[c], OwnCap', Burst) * Second
    OBVIOUS
  <2> HIDE DEF y, w
  <2>10. pc[c] = "waiting" =>
            Lead(c)' >= 0 /\ Lead(c)' * Second + level' + timer'[c] >= w'
    BY <1>2, <2>1, <2>2, <2>4, <2>5, <2>6
  <2>11. pc[c] \in {"loop", "inflight"} /\ mark[c] # NoMark =>
            Lead(c)' + Burst >= 0 /\ Lead(c)' * Second + level' >= 0
    BY <1>2, <2>1, <2>2, <2>4, <2>7
  <2>12. mark[c] <= Len(log')
    BY <1>3, <2>1, <2>8
  <2> QED BY <1>1, <1>2, <2>8, <2>9, <2>10, <2>11, <2>12 DEF InTurn
<1>8. level' \in 0 .. Burst * Second
  <2>a. Burst \in Nat /\ Second \in Nat
    BY OwnNumbers
  <2>1. Burst * Second \in Nat /\ Second \in Nat
    BY <2>a
  <2> QED BY <1>2, <2>1 DEF QueueInv
<1>9. \A q \in wire' : pc'[q.call] = "inflight" /\ attempt'[q.call] = q.attempt
  BY <1>1 DEF QueueInv
<1>10. ASSUME NEW b \in replies', IsRateLimited(b.status)
       PROVE  mark'[b.call] # NoMark /\ Lead(b.call)' >= 0
  <2>1. b \in replies /\ b.call \in Calls
    BY <1>1, <1>10 DEF TypeOK, Reply
  <2>2. mark[b.call] # NoMark /\ Lead(b.call) >= 0
    BY <1>10, <2>1 DEF QueueInv
  <2>3. Lead(b.call)' = Lead(b.call) + 1 /\ Lead(b.call) \in Int
    BY <1>6, <2>1
  <2> QED BY <1>2, <2>2, <2>3
<1>11. RefusedOnlyBehindAQueue'
  <2> SUFFICES ASSUME NEW c \in Calls, RateLimitedOut(c)'
               PROVE  Len(log') - mark'[c] >= OwnPatience
    BY <1>4 DEF RefusedOnlyBehindAQueue
  <2>1. RateLimitedOut(c)
    BY <1>1 DEF RateLimitedOut
  <2>2. Len(log) - mark[c] >= OwnPatience /\ mark[c] \in Int
    BY <2>1, LeadType DEF QueueInv, RefusedOnlyBehindAQueue
  <2> QED BY <1>2, <1>3, <1>5, <2>2
<1>12. mark' \in [Calls -> Nat \union {NoMark}] /\ timer' \in [Calls -> Nat]
  BY <1>2 DEF QueueInv
<1> HIDE DEF InTurn, Lead, RefusedOnlyBehindAQueue
<1> QED BY <1>7, <1>8, <1>9, <1>10, <1>11, <1>12 DEF QueueInv
(* A request that finds no token was not sent before its turn.             *)
LEMMA ThrottleKeepsQueue ==
    ASSUME TypeOK, TraceInv, LoopInv, QueueInv, NEW r \in wire, Throttle(r)
    PROVE  QueueInv'
<1> DEFINE c == r.call
<1>0. ~IsSuccess(429) /\ ~IsServerError(429) /\ 429 \in Statuses
  BY RateLimitAssumption DEF IsSuccess, IsServerError
<1>1. PICK a : /\ replies' = replies \union {a} /\ a.call = c
               /\ log' = log /\ c \in Calls /\ wire' \subseteq wire
               /\ UNCHANGED <<client, pc, attempt, outcome>>
  BY <1>0, Served DEF Throttle
<1>2. /\ level < Second /\ UNCHANGED <<level, timer>> /\ pc[c] = "inflight"
      /\ mark' = [mark EXCEPT ![c] = IF @ = NoMark THEN Len(log) ELSE @]
  BY DEF Throttle, QueueInv
<1> HIDE DEF c
<1>3. OwnCap' = OwnCap /\ OwnPatience' = OwnPatience
  BY <1>1 DEF OwnCap, OwnPatience
<1>4. /\ Second \in Nat \ {0} /\ Burst \in Nat /\ level \in Nat /\ Len(log) \in Nat
      /\ Lead(c) \in Int /\ mark[c] \in Int /\ Patience(0, OwnCap, Burst) = 0
  BY <1>1, OwnNumbers, LeadType
<1> HIDE DEF OwnCap, OwnPatience
<1>5. /\ mark' \in [Calls -> Nat \union {NoMark}]
      /\ \A d \in Calls : d # c => mark'[d] = mark[d]
      /\ mark'[c] = IF mark[c] = NoMark THEN Len(log) ELSE mark[c]
  BY <1>1, <1>2, <1>4 DEF QueueInv
<1>6. InTurn(c)
  BY <1>1 DEF QueueInv
<1>7. mark'[c] # NoMark /\ mark'[c] <= Len(log) /\ Lead(c)' \in Nat
  <2>1. CASE mark[c] = NoMark
    <3>1. attempt[c] = 0 /\ mark'[c] = Len(log)
      BY <1>5, <1>6, <2>1 DEF InTurn
    <3>2. Lead(c)' = Len(log) - mark'[c] - Patience(0, OwnCap, Burst)
      BY <1>1, <1>3, <3>1 DEF Lead
    <3> QED BY <1>4, <3>1, <3>2 DEF NoMark
  <2>2. CASE mark[c] # NoMark
    <3>1. mark'[c] = mark[c]
      BY <1>5, <2>2
    <3>2. Lead(c)' = Lead(c)
      BY <1>1, <1>3, <3>1 DEF Lead
    <3> HIDE DEF Lead
    <3>3. Lead(c) * Second + level >= 0 /\ mark[c] <= Len(log)
      BY <1>2, <1>6, <2>2 DEF InTurn
    <3>4. Lead(c) >= 0
      BY <1>2, <1>4, <3>3, NoDebt
    <3> QED BY <1>4, <2>2, <3>1, <3>2, <3>3, <3>4
  <2> QED BY <2>1, <2>2
<1>8. InTurn(c)'
  <2>1. Lead(c)' * Second + level >= 0 /\ Lead(c)' + Burst >= 0
    <3>1. Lead(c)' * Second \in Nat
      BY <1>4, <1>7
    <3> QED BY <1>4, <1>7, <3>1
  <2> HIDE DEF Lead
  <2> QED BY <1>1, <1>2, <1>7, <2>1 DEF InTurn
<1>9. ASSUME NEW d \in Calls, d # c PROVE InTurn(d)' /\ Lead(d)' = Lead(d)
  <2>1. InTurn(d) /\ mark'[d] = mark[d]
    BY <1>5, <1>9 DEF QueueInv
  <2>2. Lead(d)' = Lead(d)
    BY <1>1, <1>3, <2>1 DEF Lead
  <2> HIDE DEF Lead
  <2> QED BY <1>1, <1>2, <1>3, <2>1, <2>2 DEF InTurn
<1>10. \A d \in Calls : InTurn(d)'
  BY <1>8, <1>9
<1>11. ASSUME NEW b \in replies', IsRateLimited(b.status)
       PROVE  mark'[b.call] # NoMark /\ Lead(b.call)' >= 0
  <2>1. CASE b.call = c
    BY <1>7, <2>1
  <2>2. CASE b.call # c
    <3>1. b \in replies /\ b.call \in Calls
      BY <1>1, <2>2 DEF TypeOK, Reply
    <3>2. mark[b.call] # NoMark /\ Lead(b.call) >= 0
      BY <1>11, <3>1 DEF QueueInv
    <3> QED BY <1>5, <1>9, <2>2, <3>1, <3>2
  <2> QED BY <2>1, <2>2
<1>12. RefusedOnlyBehindAQueue'
  <2> SUFFICES ASSUME NEW d \in Calls, RateLimitedOut(d)'
               PROVE  Len(log) - mark'[d] >= OwnPatience
    BY <1>1, <1>3 DEF RefusedOnlyBehindAQueue
  <2>1. RateLimitedOut(d)
    BY <1>1 DEF RateLimitedOut
  <2>2. d # c
    BY <1>2, <2>1 DEF LoopInv
  <2>3. Len(log) - mark[d] >= OwnPatience
    BY <2>1 DEF QueueInv, RefusedOnlyBehindAQueue
  <2> QED BY <1>5, <2>2, <2>3
<1>13. level' \in 0 .. Burst * Second /\ timer' \in [Calls -> Nat]
  BY <1>2 DEF QueueInv
<1>14. \A q \in wire' : pc'[q.call] = "inflight" /\ attempt'[q.call] = q.attempt
  BY <1>1 DEF QueueInv
<1> HIDE DEF InTurn, Lead, RefusedOnlyBehindAQueue
<1> QED BY <1>5, <1>10, <1>11, <1>12, <1>13, <1>14 DEF QueueInv

(* Time that a timer loses the bucket gains, until it is full, and then it *)
(* holds more than any wait is worth.                                      *)
LEMMA TickKeepsQueue ==
    ASSUME TypeOK, QueueInv, Tick
    PROVE  QueueInv'
<1>1. /\ level' = Smaller(level + 1, Burst * Second)
      /\ timer' = [c \in Calls |-> Larger(timer[c] - 1, 0)]
      /\ UNCHANGED <<client, pc, attempt, outcome, wire, replies, log, mark>>
  BY DEF Tick, vars, clientVars, network
<1>2. OwnCap' = OwnCap /\ OwnPatience' = OwnPatience
  BY <1>1 DEF OwnCap, OwnPatience
<1>3. Second \in Nat \ {0} /\ Burst \in Nat
  BY OwnNumbers
<1>4. Burst * Second \in Nat
  BY <1>3
<1>5. level \in 0 .. Burst * Second /\ timer \in [Calls -> Nat]
  BY DEF QueueInv
<1>6. level' \in 0 .. Burst * Second /\ (level' = level + 1 \/ level' = Burst * Second)
  <2> DEFINE full == Burst * Second
  <2>1. full \in Nat /\ level \in 0 .. full /\ level' = Smaller(level + 1, full)
    BY <1>1, <1>4, <1>5
  <2> HIDE DEF full
  <2>2. level' \in 0 .. full /\ (level' = level + 1 \/ level' = full)
    BY <2>1 DEF Smaller
  <2> QED BY <2>2 DEF full
<1>7. timer' \in [Calls -> Nat] /\ \A c \in Calls : timer'[c] + 1 >= timer[c]
  BY <1>1, <1>5 DEF Larger
<1>8. \A c \in Calls : Lead(c)' = Lead(c)
  BY <1>1, <1>2 DEF Lead
<1>9. ASSUME NEW c \in Calls PROVE InTurn(c)'
  <2> DEFINE y == Lead(c) * Second
             w == Worth(attempt[c], OwnCap, Burst) * Second
             full == Burst * Second
  <2>1. /\ Lead(c) \in Int /\ level \in Nat /\ level' \in Nat
        /\ timer[c] \in Nat /\ timer'[c] \in Nat /\ timer'[c] + 1 >= timer[c]
        /\ Worth(attempt[c], OwnCap, Burst) \in Nat
        /\ Worth(attempt[c], OwnCap, Burst) <= Burst
    <3>1. level' \in Nat /\ timer'[c] \in Nat /\ timer'[c] + 1 >= timer[c]
      BY <1>4, <1>6, <1>7
    <3>2. Lead(c) \in Int /\ level \in Nat /\ timer[c] \in Nat
      BY LeadType
    <3>3. attempt[c] \in Nat /\ \A i \in Nat : /\ Worth(i, OwnCap, Burst) \in Nat
                                             /\ Worth(i, OwnCap, Burst) <= Burst
      BY OwnNumbers
    <3> QED BY <3>1, <3>2, <3>3
  <2>2. y \in Int /\ w \in Int /\ full \in Int /\ w <= full
    BY <1>3, <2>1, ProductGrows
  <2>3. Lead(c) >= 0 => y >= 0
    BY <1>3, <2>1
  <2>4. Lead(c) + Burst >= 0 => y + full >= 0
    <3> HIDE DEF Lead
    <3>1. (Lead(c) + Burst) * Second = y + full
      BY <1>3, <2>1
    <3>2. Lead(c) + Burst >= 0 => (Lead(c) + Burst) * Second >= 0
      BY <1>3, <2>1
    <3> QED BY <3>1, <3>2
  <2>5. InTurn(c) /\ Lead(c)' = Lead(c)
    BY <1>8 DEF QueueInv
  <2>12. level' = level + 1 \/ level' = full
    BY <1>6
  <2> HIDE DEF Lead
  <2>6. pc[c] = "waiting" => Lead(c) >= 0 /\ y + level + timer[c] >= w
    BY <2>5 DEF InTurn
  <2>7. pc[c] \in {"loop", "inflight"} /\ mark[c] # NoMark =>
           Lead(c) + Burst >= 0 /\ y + level >= 0
    BY <2>5 DEF InTurn
  <2> HIDE DEF y, w, full
  <2>8. pc[c] = "waiting" => Lead(c) >= 0 /\ y + level' + timer'[c] >= w
    BY <2>1, <2>2, <2>3, <2>6, <2>12
  <2>9. pc[c] \in {"loop", "inflight"} /\ mark[c] # NoMark =>
           Lead(c) + Burst >= 0 /\ y + level' >= 0
    <3> SUFFICES ASSUME Lead(c) + Burst >= 0, y + level >= 0
                 PROVE  Lead(c) + Burst >= 0 /\ y + level' >= 0
      BY <2>7
    <3>1. y + full >= 0
      BY <2>4
    <3>2. CASE level' = level + 1
      BY <2>1, <2>2, <3>2
    <3>3. CASE level' = full
      BY <3>1, <3>3
    <3> QED BY <2>12, <3>2, <3>3
  <2>10. pc[c] = "waiting" => Lead(c)' * Second + level' + timer'[c]
                                 >= Worth(attempt'[c], OwnCap', Burst) * Second
    BY <1>1, <1>2, <2>5, <2>8 DEF y, w
  <2>11. pc[c] \in {"loop", "inflight"} /\ mark[c] # NoMark => Lead(c)' * Second + level' >= 0
    BY <2>5, <2>9 DEF y
  <2> QED BY <1>1, <2>5, <2>6, <2>7, <2>10, <2>11 DEF InTurn
<1>10. RefusedOnlyBehindAQueue'
  <2> HIDE DEF OwnPatience
  <2> QED BY <1>1, <1>2 DEF RefusedOnlyBehindAQueue, RateLimitedOut, QueueInv
<1>11. \A b \in replies' : IsRateLimited(b.status) =>
          mark'[b.call] # NoMark /\ Lead(b.call)' >= 0
  <2> HIDE DEF Lead
  <2> SUFFICES ASSUME NEW b \in replies, IsRateLimited(b.status)
               PROVE  mark[b.call] # NoMark /\ Lead(b.call)' >= 0
    BY <1>1
  <2>1. b.call \in Calls
    BY DEF TypeOK, Reply
  <2> QED BY <1>8, <2>1 DEF QueueInv
<1>12. \A q \in wire' : pc'[q.call] = "inflight" /\ attempt'[q.call] = q.attempt
  BY <1>1 DEF QueueInv
<1>13. mark' \in [Calls -> Nat \union {NoMark}]
  BY <1>1 DEF QueueInv
<1> HIDE DEF InTurn, Lead, RefusedOnlyBehindAQueue
<1> QED BY <1>6, <1>7, <1>9, <1>10, <1>11, <1>12, <1>13 DEF QueueInv

-----------------------------------------------------------------------------
(* A call is told "rate limited" only when as many requests of others as   *)
(* its waits are worth were let in since it was first refused, with any    *)
(* number of calls beside it, in any order: it is never too early or too   *)
(* often that it retries (retry.go:70-81, firezone.go:229-239).            *)
THEOREM NobodyLosesOutOfTurn ==
    ASSUME RoomForJitter
    PROVE  RateSpec => []RefusedOnlyBehindAQueue
<1>1. RateInit => QueueInv
  <2> SUFFICES ASSUME RateInit PROVE QueueInv
    OBVIOUS
  <2>1. /\ level = 0 /\ wire = {} /\ replies = {} /\ log = <<>>
        /\ timer = [c \in Calls |-> 0] /\ mark = [c \in Calls |-> NoMark]
        /\ \A c \in Calls : pc[c] = "idle" /\ attempt[c] = 0 /\ outcome[c] = NoOutcome
    BY DEF RateInit, Init
  <2>2. Second \in Nat /\ Burst \in Nat
    BY DurationAssumption, RateLimitAssumption
  <2>3. level \in 0 .. Burst * Second
    <3>1. Burst * Second \in Nat
      BY <2>2
    <3> QED BY <2>1, <3>1
  <2>4. \A c \in Calls : InTurn(c)
    BY <2>1 DEF InTurn, NoMark
  <2>5. RefusedOnlyBehindAQueue
    BY <2>1 DEF RefusedOnlyBehindAQueue, RateLimitedOut, NoOutcome
  <2> HIDE DEF InTurn, RefusedOnlyBehindAQueue
  <2> QED BY <2>1, <2>3, <2>4, <2>5 DEF QueueInv
<1>2. TypeOK /\ TraceInv /\ LoopInv /\ QueueInv /\ [RateNext]_allVars => QueueInv'
  <2> SUFFICES ASSUME TypeOK, TraceInv, LoopInv, QueueInv, [RateNext]_allVars
               PROVE  QueueInv'
    OBVIOUS
  <2>1. ASSUME NEW c \in Calls, Arrive(c) PROVE QueueInv'
    BY <2>1, ArriveKeepsQueue
  <2>2. ASSUME NEW c \in Calls, Send(c) PROVE QueueInv'
    BY <2>2, SendKeepsQueue
  <2>3. ASSUME NEW c \in Calls, Finish(c) PROVE QueueInv'
    BY <2>3, FinishKeepsQueue
  <2>4. ASSUME NEW c \in Calls, Sleep(c) PROVE QueueInv'
    BY <2>4, SleepKeepsQueue
  <2>5. ASSUME NEW c \in Calls, Rise(c) PROVE QueueInv'
    BY <2>5, RiseKeepsQueue
  <2>6. ASSUME NEW r \in wire, Admit(r) PROVE QueueInv'
    BY <2>6, AdmitKeepsQueue
  <2>7. ASSUME NEW r \in wire, Throttle(r) PROVE QueueInv'
    BY <2>7, ThrottleKeepsQueue
  <2>8. CASE Tick
    BY <2>8, TickKeepsQueue
  <2>9. CASE UNCHANGED allVars
    BY <2>9 DEF allVars, vars, clientVars, network, history, bucketVars, QueueInv, InTurn,
                Lead, OwnCap, RefusedOnlyBehindAQueue, RateLimitedOut, OwnPatience
  <2> HIDE DEF QueueInv
  <2> QED BY <2>1, <2>2, <2>3, <2>4, <2>5, <2>6, <2>7, <2>8, <2>9
          DEF RateNext, Goroutine, API, AllReturned
<1>3. QueueInv => RefusedOnlyBehindAQueue
  BY DEF QueueInv
<1> QED BY <1>1, <1>2, <1>3, RateSpecImplementsSpec, TypeCorrect, TraceInvariance,
           LoopInvariance, PTL DEF RateSpec
=============================================================================
