---------------------------- MODULE MCRequests ----------------------------
(***************************************************************************)
(* Small instances of Requests for TLC.  Durations are scaled down: the    *)
(* second is 2 units, so that the jitter of a one-second wait is 0 and of  *)
(* longer ones is not, and the range ends a little above the longest wait. *)
(***************************************************************************)
EXTENDS Requests, TLC

Config(enabled, retries, timeout, cap) ==
    [retryEnabled |-> enabled, maxRetries |-> retries,
     requestTimeout |-> timeout, retryMaxWait |-> cap]

(* One call: retries in every number with every kind of cap, or none, with *)
(* and without a request timeout.                                          *)
SoloClients ==
    {Config(TRUE, n, t, m) : n \in 0 .. 3, t \in {0, 1}, m \in {-1, 3, 9}}
    \union {Config(FALSE, n, t, 0) : n \in {0, 2}, t \in {0, 1}}

(* Two calls on one client: with a retry and a timeout, and with neither.  *)
PairClients == {Config(TRUE, 1, 1, 7), Config(FALSE, 0, 0, 7)}

SomeClients == SoloClients \union PairClients

(* None, none at all, within the cap, beyond it, beyond a Duration.        *)
SomeHeaders == {-1, 0, 1, 4, 30}

NoHeaders == {-1}

First == CHOOSE c \in Calls : TRUE

(* The bound of the run: a client of SoloClients is used by one call, and  *)
(* the two calls of a client of PairClients get no Retry-After and no 404. *)
(* It cuts off beginnings of calls and answers of the API, neither of      *)
(* which is under a fairness condition.                                    *)
Scope ==
    IF client \in PairClients
    THEN \A a \in replies : a.header = -1 /\ a.status # 404
    ELSE \A c \in Calls \ {First} : pc[c] = "idle" /\ ~ctxDone[c]

(* A Retry-After longer than the cap of a wait.                            *)
LongHeaders == {120}

(* The client NewClient builds without options.                            *)
DefaultClient == {Config(TRUE, 10, 30, 0)}
=============================================================================
