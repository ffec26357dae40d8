-------------------------- MODULE MCClientOptions --------------------------
EXTENDS ClientOptions

(* Every combination of what checkBaseURL looks at.                        *)
AllURLs == [parses : {TRUE}, scheme : {"https", "other"}, host : BOOLEAN,
            query : BOOLEAN, fragment : BOOLEAN]
           \union {[parses |-> FALSE, scheme |-> "other", host |-> FALSE,
                    query |-> FALSE, fragment |-> FALSE]}

(* Each option with good and bad arguments, and two good ones where order  *)
(* can show.                                                               *)
SomeOptions ==
    {[option |-> "WithHTTPClient", hc |-> h] : h \in {"nil", "own"}}
    \union {[option |-> "WithUserAgent", ua |-> u] : u \in {"", "own"}}
    \union {[option |-> "WithRequestTimeout", d |-> d] : d \in {-1, 0, 5}}
    \union {[option |-> "WithRetry", enabled |-> e, max |-> m] :
               e \in BOOLEAN, m \in {-1, 0, 3}}
    \union {[option |-> "WithRetryMaxWait", d |-> d] : d \in {-1, 4}}
=============================================================================
