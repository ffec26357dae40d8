--------------------------- MODULE ClientOptions ---------------------------
(***************************************************************************)
(* NewClient (firezone.go): check the base URL, then apply the options to  *)
(* a client with defaults, in order, up to the first that is refused.      *)
(***************************************************************************)
EXTENDS Integers, Sequences

CONSTANTS URLs,       \* the base URLs, as url.Parse sees them
          Options,    \* the options callers pass
          MaxOptions  \* bound: how many options one call passes

(* host: u.Host is not empty.  query: RawQuery or ForceQuery.              *)
URL == [parses : BOOLEAN, scheme : {"http", "https", "other"},
        host : BOOLEAN, query : BOOLEAN, fragment : BOOLEAN]

WithHTTPClient == [option : {"WithHTTPClient"}, hc : {"nil", "own"}]
WithUserAgent  == [option : {"WithUserAgent"}, ua : {"", "own"}]
WithTimeout    == [option : {"WithRequestTimeout"}, d : Int]
WithRetry      == [option : {"WithRetry"}, enabled : BOOLEAN, max : Int]
WithMaxWait    == [option : {"WithRetryMaxWait"}, d : Int]

ASSUME InputsAssumption ==
    /\ URLs \subseteq URL
    /\ \A o \in Options :
          \/ o \in WithHTTPClient \/ o \in WithUserAgent \/ o \in WithTimeout
          \/ o \in WithRetry \/ o \in WithMaxWait
    /\ MaxOptions \in Nat

VARIABLES url, opts, \* the arguments
          pc,        \* "check", "apply", "built" or "failed"
          next,      \* index of the option to apply next
          client,    \* the Client under construction
          err        \* 0, the index of the refused option, or -1: the URL

vars == <<url, opts, pc, next, client, err>>

Defaults == [httpClient |-> "private", userAgent |-> "default",
             requestTimeout |-> 30, retryEnabled |-> TRUE, maxRetries |-> 10,
             retryMaxWait |-> 0]

\* Mutant: any scheme.
AcceptableAnyScheme(u) == u.parses /\ u.host /\ ~u.query /\ ~u.fragment

(* url.Parse and checkBaseURL.                                             *)
Acceptable(u) == /\ u.parses
                 /\ u.scheme \in {"http", "https"}
                 /\ u.host
                 /\ ~u.query
                 /\ ~u.fragment

\* Mutant: WithRetry takes any budget.
RefusedAnyBudget(o) == \/ o.option = "WithHTTPClient" /\ o.hc = "nil"
                       \/ o.option = "WithUserAgent" /\ o.ua = ""
                       \/ o.option = "WithRequestTimeout" /\ o.d < 0

(* The error path of each option.  WithRetryMaxWait has none.              *)
Refused(o) == \/ o.option = "WithHTTPClient" /\ o.hc = "nil"
              \/ o.option = "WithUserAgent" /\ o.ua = ""
              \/ o.option = "WithRequestTimeout" /\ o.d < 0
              \/ o.option = "WithRetry" /\ o.max < 0

(* The fields each option assigns.                                         *)
Apply(c, o) ==
    CASE o.option = "WithHTTPClient"     -> [c EXCEPT !.httpClient = o.hc]
      [] o.option = "WithUserAgent"      -> [c EXCEPT !.userAgent = o.ua]
      [] o.option = "WithRequestTimeout" -> [c EXCEPT !.requestTimeout = o.d]
      [] o.option = "WithRetry"          -> [c EXCEPT !.retryEnabled = o.enabled,
                                                      !.maxRetries = o.max]
      [] o.option = "WithRetryMaxWait"   -> [c EXCEPT !.retryMaxWait = o.d]

Init == /\ url \in URLs
        /\ opts \in UNION {[1 .. n -> Options] : n \in 0 .. MaxOptions}
        /\ pc = "check" /\ next = 1 /\ client = Defaults /\ err = 0

CheckBaseURL ==
    /\ pc = "check"
    /\ IF Acceptable(url) THEN pc' = "apply" /\ UNCHANGED err
                          ELSE pc' = "failed" /\ err' = -1
    /\ UNCHANGED <<url, opts, next, client>>

\* Mutant: every option starts again from the defaults.
ApplyOptionAfresh ==
    /\ pc = "apply" /\ next \in DOMAIN opts /\ ~Refused(opts[next])
    /\ client' = Apply(Defaults, opts[next])
    /\ next' = next + 1
    /\ UNCHANGED <<url, opts, pc, err>>

ApplyOption ==
    /\ pc = "apply" /\ next \in DOMAIN opts /\ ~Refused(opts[next])
    /\ client' = Apply(client, opts[next])
    /\ next' = next + 1
    /\ UNCHANGED <<url, opts, pc, err>>

\* Mutant: a refused option is noted and skipped.
SkipOption ==
    /\ pc = "apply" /\ next \in DOMAIN opts /\ Refused(opts[next])
    /\ next' = next + 1 /\ err' = next
    /\ UNCHANGED <<url, opts, pc, client>>

RefuseOption ==
    /\ pc = "apply" /\ next \in DOMAIN opts /\ Refused(opts[next])
    /\ pc' = "failed" /\ err' = next
    /\ UNCHANGED <<url, opts, next, client>>

Build == /\ pc = "apply" /\ next \notin DOMAIN opts
         /\ pc' = "built"
         /\ UNCHANGED <<url, opts, next, client, err>>

Terminated == pc \in {"built", "failed"} /\ UNCHANGED vars

Next == CheckBaseURL \/ ApplyOption \/ RefuseOption \/ Build \/ Terminated

Spec == Init /\ [][Next]_vars

-----------------------------------------------------------------------------
(* Types, and what holds of the client under construction at every moment, *)
(* not only at the end: no option ever stores a value it should refuse.    *)
TypeOK ==
    /\ url \in URLs
    /\ opts \in Seq(Options)
    /\ pc \in {"check", "apply", "built", "failed"}
    /\ next \in 1 .. Len(opts) + 1
    /\ client \in [httpClient : {"private", "own"}, userAgent : {"default", "own"},
                   requestTimeout : Nat, retryEnabled : BOOLEAN, maxRetries : Nat,
                   retryMaxWait : Int]
    /\ err \in Int

(* A client that is built can make a request, whatever mixture of options  *)
(* it was given: the retry loop runs at least once, no attempt starts past *)
(* its deadline, and there is an HTTP client, a user agent and an absolute *)
(* URL (firezone.go:145-148, 216-219, 250-254, 280-287).                   *)
BuiltClientWorks ==
    pc = "built" =>
        /\ client.maxRetries >= 0 /\ client.requestTimeout >= 0
        /\ client.httpClient # "nil"
        /\ client.userAgent # ""
        /\ url.parses /\ url.scheme # "other" /\ url.host

(* Each field of a built client is what the last option about it said, and *)
(* the default if none did: WithRetry sets both of its fields, and options *)
(* about different fields do not disturb each other, in any order.         *)
LastOptionWins ==
    LET Last(name) == {i \in DOMAIN opts :
                          /\ opts[i].option = name
                          /\ \A j \in DOMAIN opts :
                                opts[j].option = name => j <= i}
        Field(name, value(_), default) ==
            IF Last(name) = {} THEN default
            ELSE value(opts[CHOOSE i \in Last(name) : TRUE])
        Hc(o) == o.hc  Ua(o) == o.ua  D(o) == o.d
        Enabled(o) == o.enabled  Retries(o) == o.max
    IN  pc = "built" =>
            client = [httpClient |-> Field("WithHTTPClient", Hc, "private"),
                      userAgent |-> Field("WithUserAgent", Ua, "default"),
                      requestTimeout |-> Field("WithRequestTimeout", D, 30),
                      retryEnabled |-> Field("WithRetry", Enabled, TRUE),
                      maxRetries |-> Field("WithRetry", Retries, 10),
                      retryMaxWait |-> Field("WithRetryMaxWait", D, 0)]

(* Construction fails exactly when the URL or some option is unacceptable, *)
(* and reports the URL before any option and the first bad option before   *)
(* any later one (firezone.go:133-139): a bad option is never masked by a  *)
(* good one of the same kind after it.                                     *)
FirstErrorReported ==
    LET bad == {i \in DOMAIN opts : Refused(opts[i])}
    IN  /\ pc = "built" => Acceptable(url) /\ bad = {}
        /\ pc = "failed" =>
              IF ~Acceptable(url) THEN err = -1
              ELSE err \in bad /\ \A i \in bad : err <= i
=============================================================================
