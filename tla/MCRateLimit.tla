---------------------------- MODULE MCRateLimit ----------------------------
EXTENDS RateLimit

Config(retries, cap) == [retryEnabled |-> TRUE, maxRetries |-> retries,
                         requestTimeout |-> 0, retryMaxWait |-> cap]

(* Two retries, with the patience for the queue that three calls can form,  *)
(* and with a cap of one second that leaves too little of it.              *)
SomeClients == {Config(2, 0), Config(2, 2)}

OneSecond == {1}

(* The default budget, cap and burst: "a bit over two minutes of sustained  *)
(* throttling" (firezone.go:238-239), in tokens.                           *)
ASSUME DefaultPatience == Patience(10, 30, 20) \in 120 .. 140
=============================================================================
