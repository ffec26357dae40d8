------------------------ MODULE ClientOptionsProofs ------------------------
(***************************************************************************)
(* Theorems about NewClient, for any options and any number of them.       *)
(***************************************************************************)
EXTENDS ClientOptions, TLAPS

(* The five kinds of options and the fields each one has.                  *)
LEMMA OptionKinds ==
    ASSUME NEW o \in Options
    PROVE  \/ o.option = "WithHTTPClient" /\ o.hc \in {"nil", "own"}
           \/ o.option = "WithUserAgent" /\ o.ua \in {"", "own"}
           \/ o.option = "WithRequestTimeout" /\ o.d \in Int
           \/ o.option = "WithRetry" /\ o.enabled \in BOOLEAN /\ o.max \in Int
           \/ o.option = "WithRetryMaxWait" /\ o.d \in Int
BY InputsAssumption
   DEF WithHTTPClient, WithUserAgent, WithTimeout, WithRetry, WithMaxWait

Clients == [httpClient : {"private", "own"}, userAgent : {"default", "own"},
            requestTimeout : Nat, retryEnabled : BOOLEAN, maxRetries : Nat,
            retryMaxWait : Int]

(* An option that is not refused keeps a client well formed.               *)
LEMMA ApplyType ==
    ASSUME NEW o \in Options, NEW c \in Clients, ~Refused(o)
    PROVE  Apply(c, o) \in Clients
<1>1. CASE o.option = "WithHTTPClient" /\ o.hc \in {"nil", "own"}
  BY <1>1 DEF Clients, Apply, Refused
<1>2. CASE o.option = "WithUserAgent" /\ o.ua \in {"", "own"}
  BY <1>2 DEF Clients, Apply, Refused
<1>3. CASE o.option = "WithRequestTimeout" /\ o.d \in Int
  BY <1>3 DEF Clients, Apply, Refused
<1>4. CASE o.option = "WithRetry" /\ o.enabled \in BOOLEAN /\ o.max \in Int
  <2>1. o.max \in Nat
    BY <1>4 DEF Refused
  <2>2. Apply(c, o) = [c EXCEPT !.retryEnabled = o.enabled, !.maxRetries = o.max]
    BY <1>4 DEF Apply
  <2>3. [c EXCEPT !.retryEnabled = o.enabled] \in Clients
    BY <1>4 DEF Clients
  <2>4. \A d \in Clients : [d EXCEPT !.maxRetries = o.max] \in Clients
    BY <2>1 DEF Clients
  <2> QED BY <2>2, <2>3, <2>4
<1>5. CASE o.option = "WithRetryMaxWait" /\ o.d \in Int
  BY <1>5 DEF Clients, Apply, Refused
<1> QED BY <1>1, <1>2, <1>3, <1>4, <1>5, OptionKinds

(* The client under construction never holds a value an option refuses.    *)
THEOREM TypeCorrect == Spec => []TypeOK
<1>1. Init => TypeOK
  <2> SUFFICES ASSUME Init PROVE TypeOK
    OBVIOUS
  <2>1. PICK n \in 0 .. MaxOptions : opts \in [1 .. n -> Options]
    BY DEF Init
  <2>2. n \in Nat
    BY InputsAssumption
  <2>3. opts \in Seq(Options) /\ Len(opts) \in Nat
    BY <2>1, <2>2
  <2> QED BY <2>3 DEF Init, TypeOK, Defaults
<1>2. TypeOK /\ [Next]_vars => TypeOK'
  <2> SUFFICES ASSUME TypeOK, [Next]_vars PROVE TypeOK'
    OBVIOUS
  <2>1. client \in Clients /\ Len(opts) \in Nat /\ DOMAIN opts = 1 .. Len(opts)
    BY DEF TypeOK, Clients
  <2>2. CASE CheckBaseURL
    BY <2>2 DEF CheckBaseURL, TypeOK
  <2>3. CASE ApplyOption
    <3>1. opts[next] \in Options
      BY <2>1, <2>3 DEF ApplyOption, TypeOK
    <3>2. client' \in Clients
      BY <2>1, <2>3, <3>1, ApplyType DEF ApplyOption
    <3> QED BY <2>1, <2>3, <3>2 DEF ApplyOption, TypeOK, Clients
  <2>4. CASE RefuseOption
    BY <2>1, <2>4 DEF RefuseOption, TypeOK
  <2>5. CASE Build
    BY <2>5 DEF Build, TypeOK
  <2>6. CASE UNCHANGED vars
    BY <2>6 DEF vars, TypeOK
  <2> QED BY <2>2, <2>3, <2>4, <2>5, <2>6 DEF Next, Terminated
<1> QED BY <1>1, <1>2, PTL DEF Spec

(* How far construction has got.                                           *)
Progress ==
    /\ pc \in {"apply", "built"} =>
          Acceptable(url) /\ \A i \in 1 .. next - 1 : ~Refused(opts[i])
    /\ pc = "built" => next = Len(opts) + 1
    /\ pc = "check" => next = 1

(* Construction has met no bad option before the one it is at.             *)
LEMMA ProgressInvariance == Spec => [](Progress /\ FirstErrorReported)
<1> DEFINE Inv == Progress /\ FirstErrorReported
<1>1. Init => Inv
  BY DEF Init, Progress, FirstErrorReported
<1>2. TypeOK /\ Inv /\ [Next]_vars => Inv'
  <2> SUFFICES ASSUME TypeOK, Inv, [Next]_vars PROVE Inv'
    OBVIOUS
  <2>1. Len(opts) \in Nat /\ DOMAIN opts = 1 .. Len(opts) /\ next \in 1 .. Len(opts) + 1
    BY DEF TypeOK
  <2> USE DEF Progress, FirstErrorReported
  <2>2. CASE CheckBaseURL
    BY <2>1, <2>2 DEF CheckBaseURL, Acceptable
  <2>3. CASE ApplyOption
    <3>1. pc' = "apply" /\ url' = url /\ opts' = opts /\ next' = next + 1
          /\ ~Refused(opts[next]) /\ pc = "apply"
      BY <2>3 DEF ApplyOption
    <3>2. Refused(opts[next])' <=> Refused(opts'[next'])
      BY DEF Refused
    <3>3. \A i \in 1 .. next' - 1 : ~Refused(opts[i])
      <4> TAKE i \in 1 .. next' - 1
      <4>1. i \in 1 .. next - 1 \/ i = next
        BY <2>1, <3>1
      <4> QED BY <3>1, <4>1
    <3> QED BY <3>1, <3>3 DEF Acceptable, Refused
  <2>4. CASE RefuseOption
    <3>1. pc' = "failed" /\ err' = next /\ url' = url /\ opts' = opts /\ next' = next
          /\ pc = "apply" /\ next \in DOMAIN opts /\ Refused(opts[next])
      BY <2>4 DEF RefuseOption
    <3>2. \A i \in DOMAIN opts : Refused(opts[i]) => next <= i
      BY <2>1, <3>1
    <3> QED BY <3>1, <3>2 DEF Acceptable, Refused
  <2>5. CASE Build
    <3>1. pc' = "built" /\ UNCHANGED <<url, opts, next>> /\ pc = "apply"
          /\ next = Len(opts) + 1
      BY <2>1, <2>5 DEF Build
    <3>2. {i \in DOMAIN opts : Refused(opts[i])} = {}
      BY <2>1, <3>1
    <3> QED BY <2>1, <3>1, <3>2 DEF Acceptable, Refused
  <2>6. CASE UNCHANGED vars
    <3>1. UNCHANGED <<url, opts, pc, next, err>>
      BY <2>6 DEF vars
    <3> QED BY <3>1 DEF Acceptable, Refused
  <2> QED BY <2>2, <2>3, <2>4, <2>5, <2>6 DEF Next, Terminated
<1> QED BY <1>1, <1>2, TypeCorrect, PTL DEF Spec

(* Construction fails exactly for a bad URL or a bad option, and reports   *)
(* the first of them (firezone.go:133-139, 331-335).                       *)
THEOREM FirstErrorIsReported == Spec => []FirstErrorReported
<1>1. Progress /\ FirstErrorReported => FirstErrorReported
  OBVIOUS
<1> QED BY <1>1, ProgressInvariance, PTL

(* A built client can make requests: it satisfies ClientsAssumption of     *)
(* Requests, has an HTTP client and a user agent, and an absolute URL.     *)
THEOREM BuiltClientsWork == Spec => []BuiltClientWorks
<1>1. TypeOK /\ FirstErrorReported => BuiltClientWorks
  <2> SUFFICES ASSUME TypeOK, FirstErrorReported, pc = "built"
               PROVE  /\ client.maxRetries >= 0 /\ client.requestTimeout >= 0
                      /\ client.httpClient # "nil"
                      /\ client.userAgent # ""
                      /\ url.parses /\ url.scheme # "other" /\ url.host
    BY DEF BuiltClientWorks
  <2>1. client.maxRetries >= 0 /\ client.requestTimeout >= 0
    BY DEF TypeOK
  <2>2. client.httpClient # "nil" /\ client.userAgent # ""
    BY DEF TypeOK
  <2>3. Acceptable(url)
    BY DEF FirstErrorReported
  <2>4. url.parses /\ url.scheme # "other" /\ url.host
    BY <2>3, Zenon DEF Acceptable
  <2> QED BY <2>1, <2>2, <2>4
<1> QED BY <1>1, TypeCorrect, FirstErrorIsReported, PTL

-----------------------------------------------------------------------------
(* What the options applied so far have said.                              *)

Silent(name) == \A j \in 1 .. next - 1 : opts[j].option # name

Latest(name, i) == /\ opts[i].option = name
                   /\ \A j \in 1 .. next - 1 : opts[j].option = name => j <= i

(* The client under construction holds, in every field, the value of the   *)
(* last option applied about it, and the default before the first.         *)
HttpClientInv == \/ Silent("WithHTTPClient") /\ client.httpClient = "private"
                 \/ \E i \in 1 .. next - 1 : /\ Latest("WithHTTPClient", i)
                                             /\ client.httpClient = opts[i].hc
UserAgentInv  == \/ Silent("WithUserAgent") /\ client.userAgent = "default"
                 \/ \E i \in 1 .. next - 1 : /\ Latest("WithUserAgent", i)
                                             /\ client.userAgent = opts[i].ua
TimeoutInv    == \/ Silent("WithRequestTimeout") /\ client.requestTimeout = 30
                 \/ \E i \in 1 .. next - 1 : /\ Latest("WithRequestTimeout", i)
                                             /\ client.requestTimeout = opts[i].d
RetryInv      == \/ Silent("WithRetry") /\ client.retryEnabled = TRUE
                                        /\ client.maxRetries = 10
                 \/ \E i \in 1 .. next - 1 : /\ Latest("WithRetry", i)
                                             /\ client.retryEnabled = opts[i].enabled
                                             /\ client.maxRetries = opts[i].max
MaxWaitInv    == \/ Silent("WithRetryMaxWait") /\ client.retryMaxWait = 0
                 \/ \E i \in 1 .. next - 1 : /\ Latest("WithRetryMaxWait", i)
                                             /\ client.retryMaxWait = opts[i].d

FieldsInv == /\ HttpClientInv
             /\ UserAgentInv
             /\ TimeoutInv
             /\ RetryInv
             /\ MaxWaitInv

(* Applying one more option: it is the latest of its own kind, and leaves  *)
(* the latest of every other kind what it was.                             *)
LEMMA OneMoreOption ==
    ASSUME NEW n \in Nat \ {0}, next = n, next' = n + 1, opts' = opts, NEW name
    PROVE  /\ opts[n].option = name => Latest(name, n)'
           /\ opts[n].option # name =>
                 /\ Silent(name) => Silent(name)'
                 /\ \A i \in 1 .. n - 1 : Latest(name, i) => Latest(name, i)'
<1>1. \A j \in 1 .. next' - 1 : j <= n /\ (j \in 1 .. n - 1 \/ j = n)
  OBVIOUS
<1>2. opts[n].option = name => Latest(name, n)'
  BY <1>1 DEF Latest
<1>3. opts[n].option # name /\ Silent(name) => Silent(name)'
  BY <1>1 DEF Silent
<1>4. ASSUME opts[n].option # name, NEW i \in 1 .. n - 1, Latest(name, i)
      PROVE  Latest(name, i)'
  BY <1>1, <1>4 DEF Latest
<1> QED BY <1>2, <1>3, <1>4

(* The value the last of the options opts[1 .. n] about name sets.         *)
LEMMA LatestIsLast ==
    ASSUME TypeOK, next = Len(opts) + 1, NEW name
    PROVE  LET Last == {i \in DOMAIN opts :
                           /\ opts[i].option = name
                           /\ \A j \in DOMAIN opts :
                                 opts[j].option = name => j <= i}
           IN  /\ Silent(name) => Last = {}
               /\ \A i \in 1 .. next - 1 : Latest(name, i) =>
                     Last # {} /\ (CHOOSE k \in Last : TRUE) = i
<1> DEFINE Last == {i \in DOMAIN opts :
                       /\ opts[i].option = name
                       /\ \A j \in DOMAIN opts : opts[j].option = name => j <= i}
<1>1. DOMAIN opts = 1 .. next - 1 /\ Len(opts) \in Nat
  BY DEF TypeOK
<1>2. Silent(name) => Last = {}
  BY <1>1 DEF Silent
<1>3. ASSUME NEW i \in 1 .. next - 1, Latest(name, i)
      PROVE  Last # {} /\ (CHOOSE k \in Last : TRUE) = i
  <2>1. Last = {i}
    BY <1>1, <1>3 DEF Latest
  <2> HIDE DEF Last
  <2> QED BY <2>1
<1> QED BY <1>2, <1>3

(* Every option leaves a client whose fields are what was said last.       *)
LEMMA FieldsInvariance == Spec => []FieldsInv
<1>1. Init => FieldsInv
  BY DEF Init, Defaults, Silent, FieldsInv, HttpClientInv, UserAgentInv, TimeoutInv,
         RetryInv, MaxWaitInv
<1>2. TypeOK /\ FieldsInv /\ [Next]_vars => FieldsInv'
  <2> SUFFICES ASSUME TypeOK, FieldsInv, [Next]_vars PROVE FieldsInv'
    OBVIOUS
  <2>1. ASSUME UNCHANGED <<opts, next, client>> PROVE FieldsInv'
    BY <2>1 DEF FieldsInv, HttpClientInv, UserAgentInv, TimeoutInv, RetryInv,
                MaxWaitInv, Silent, Latest
  <2>2. CASE ApplyOption
    <3> DEFINE o == opts[next]
    <3>1. /\ opts' = opts /\ next' = next + 1 /\ client' = Apply(client, o)
          /\ o \in Options /\ next \in Nat \ {0} /\ client \in Clients
      BY <2>2 DEF ApplyOption, TypeOK, Clients
    <3>2. PICK n \in Nat \ {0} : n = next
      BY <3>1
    <3>3. 1 .. n - 1 \subseteq 1 .. next' - 1 /\ n \in 1 .. next' - 1
      BY <3>1, <3>2
    <3>4. \A name : /\ opts[n].option = name => Latest(name, n)'
                    /\ opts[n].option # name =>
                          /\ Silent(name) => Silent(name)'
                          /\ \A i \in 1 .. n - 1 : Latest(name, i) => Latest(name, i)'
      BY <3>1, <3>2, OneMoreOption
    <3> HIDE DEF Latest, Silent
    <3>5. HttpClientInv'
      <4>1. CASE o.option = "WithHTTPClient"
        <5>1. client'.httpClient = opts'[n].hc
          BY <3>1, <3>2, <4>1 DEF Apply, Clients
        <5> QED BY <3>1, <3>2, <3>3, <3>4, <4>1, <5>1 DEF HttpClientInv
      <4>2. CASE o.option # "WithHTTPClient"
        <5>1. client'.httpClient = client.httpClient
          BY <3>1, <4>2, OptionKinds DEF Apply, Clients
        <5> QED BY <3>1, <3>2, <3>3, <3>4, <4>2, <5>1 DEF FieldsInv, HttpClientInv
      <4> QED BY <4>1, <4>2
    <3>6. UserAgentInv'
      <4>1. CASE o.option = "WithUserAgent"
        <5>1. client'.userAgent = opts'[n].ua
          BY <3>1, <3>2, <4>1 DEF Apply, Clients
        <5> QED BY <3>1, <3>2, <3>3, <3>4, <4>1, <5>1 DEF UserAgentInv
      <4>2. CASE o.option # "WithUserAgent"
        <5>1. client'.userAgent = client.userAgent
          BY <3>1, <4>2, OptionKinds DEF Apply, Clients
        <5> QED BY <3>1, <3>2, <3>3, <3>4, <4>2, <5>1 DEF FieldsInv, UserAgentInv
      <4> QED BY <4>1, <4>2
    <3>7. TimeoutInv'
      <4>1. CASE o.option = "WithRequestTimeout"
        <5>1. client'.requestTimeout = opts'[n].d
          BY <3>1, <3>2, <4>1 DEF Apply, Clients
        <5> QED BY <3>1, <3>2, <3>3, <3>4, <4>1, <5>1 DEF TimeoutInv
      <4>2. CASE o.option # "WithRequestTimeout"
        <5>1. client'.requestTimeout = client.requestTimeout
          BY <3>1, <4>2, OptionKinds DEF Apply, Clients
        <5> QED BY <3>1, <3>2, <3>3, <3>4, <4>2, <5>1 DEF FieldsInv, TimeoutInv
      <4> QED BY <4>1, <4>2
    <3>8. RetryInv'
      <4>1. CASE o.option = "WithRetry"
        <5>1. client' = [client EXCEPT !.retryEnabled = o.enabled, !.maxRetries = o.max]
          BY <3>1, <4>1 DEF Apply
        <5>2. client'.retryEnabled = opts'[n].enabled /\ client'.maxRetries = opts'[n].max
          BY <3>1, <3>2, <5>1 DEF Clients
        <5> QED BY <3>1, <3>2, <3>3, <3>4, <4>1, <5>2 DEF RetryInv
      <4>2. CASE o.option # "WithRetry"
        <5>1. /\ client'.retryEnabled = client.retryEnabled
              /\ client'.maxRetries = client.maxRetries
          BY <3>1, <4>2, OptionKinds DEF Apply, Clients
        <5> QED BY <3>1, <3>2, <3>3, <3>4, <4>2, <5>1 DEF FieldsInv, RetryInv
      <4> QED BY <4>1, <4>2
    <3>9. MaxWaitInv'
      <4>1. CASE o.option = "WithRetryMaxWait"
        <5>1. client'.retryMaxWait = opts'[n].d
          BY <3>1, <3>2, <4>1 DEF Apply, Clients
        <5> QED BY <3>1, <3>2, <3>3, <3>4, <4>1, <5>1 DEF MaxWaitInv
      <4>2. CASE o.option # "WithRetryMaxWait"
        <5>1. client'.retryMaxWait = client.retryMaxWait
          BY <3>1, <4>2, OptionKinds DEF Apply, Clients
        <5> QED BY <3>1, <3>2, <3>3, <3>4, <4>2, <5>1 DEF FieldsInv, MaxWaitInv
      <4> QED BY <4>1, <4>2
    <3> QED BY <3>5, <3>6, <3>7, <3>8, <3>9 DEF FieldsInv
  <2> QED BY <2>1, <2>2 DEF Next, CheckBaseURL, RefuseOption, Build, Terminated, vars
<1> QED BY <1>1, <1>2, TypeCorrect, PTL DEF Spec

(* The client that NewClient returns is what the last option about each of *)
(* its fields said, in whatever order the options came (firezone.go:133).  *)
THEOREM LastOptionsWin == Spec => []LastOptionWins
<1>1. TypeOK /\ Progress /\ FieldsInv => LastOptionWins
  <2> SUFFICES ASSUME TypeOK, Progress, FieldsInv, pc = "built" PROVE LastOptionWins
    BY DEF LastOptionWins
  <2> DEFINE Last(name) == {i \in DOMAIN opts :
                               /\ opts[i].option = name
                               /\ \A j \in DOMAIN opts :
                                     opts[j].option = name => j <= i}
             The(name) == opts[CHOOSE i \in Last(name) : TRUE]
  <2>1. \A name : /\ Silent(name) => Last(name) = {}
                  /\ \A i \in 1 .. next - 1 : Latest(name, i) =>
                        Last(name) # {} /\ The(name) = opts[i]
    <3>1. next = Len(opts) + 1
      BY DEF Progress
    <3> QED BY <3>1, LatestIsLast
  <2> HIDE DEF Last, The
  <2>2. client.httpClient = IF Last("WithHTTPClient") = {} THEN "private"
                            ELSE The("WithHTTPClient").hc
    BY <2>1 DEF FieldsInv, HttpClientInv
  <2>3. client.userAgent = IF Last("WithUserAgent") = {} THEN "default"
                           ELSE The("WithUserAgent").ua
    BY <2>1 DEF FieldsInv, UserAgentInv
  <2>4. client.requestTimeout = IF Last("WithRequestTimeout") = {} THEN 30
                                ELSE The("WithRequestTimeout").d
    BY <2>1 DEF FieldsInv, TimeoutInv
  <2>5. /\ client.retryEnabled = IF Last("WithRetry") = {} THEN TRUE
                                 ELSE The("WithRetry").enabled
        /\ client.maxRetries = IF Last("WithRetry") = {} THEN 10
                               ELSE The("WithRetry").max
    BY <2>1 DEF FieldsInv, RetryInv
  <2>6. client.retryMaxWait = IF Last("WithRetryMaxWait") = {} THEN 0
                              ELSE The("WithRetryMaxWait").d
    BY <2>1 DEF FieldsInv, MaxWaitInv
  <2>7. client = [httpClient |-> client.httpClient, userAgent |-> client.userAgent,
                  requestTimeout |-> client.requestTimeout,
                  retryEnabled |-> client.retryEnabled,
                  maxRetries |-> client.maxRetries,
                  retryMaxWait |-> client.retryMaxWait]
    BY DEF TypeOK
  <2> QED BY <2>2, <2>3, <2>4, <2>5, <2>6, <2>7, Zenon DEF LastOptionWins, Last, The
<1> QED BY <1>1, TypeCorrect, ProgressInvariance, FieldsInvariance, PTL

(* What requestWithRetry and rawRequest read of a client (retry.go:33-57,  *)
(* firezone.go:422-424), as ClientsAssumption of Requests has it.          *)
EngineFields == [retryEnabled |-> client.retryEnabled,
                 maxRetries |-> client.maxRetries,
                 requestTimeout |-> client.requestTimeout,
                 retryMaxWait |-> client.retryMaxWait]

(* A client that NewClient returns is one of those that Requests assumes,  *)
(* if the caps that callers pass are Durations: no mixture of options      *)
(* builds a client with a budget or a timeout below zero, or with a cap    *)
(* that nobody passed (firezone.go:145-148, 250-254, 280-287).             *)
THEOREM BuiltClientsFitTheEngine ==
    ASSUME NEW Duration, 0 \in Duration,
           \A o \in Options : o.option = "WithRetryMaxWait" => o.d \in Duration
    PROVE  Spec => [](pc = "built" =>
                        EngineFields \in [retryEnabled : BOOLEAN, maxRetries : Nat,
                                          requestTimeout : Nat, retryMaxWait : Duration])
<1>1. TypeOK /\ FieldsInv =>
         (pc = "built" =>
            EngineFields \in [retryEnabled : BOOLEAN, maxRetries : Nat,
                              requestTimeout : Nat, retryMaxWait : Duration])
  <2> SUFFICES ASSUME TypeOK, FieldsInv
               PROVE  EngineFields \in [retryEnabled : BOOLEAN, maxRetries : Nat,
                                        requestTimeout : Nat, retryMaxWait : Duration]
    OBVIOUS
  <2>1. /\ client.retryEnabled \in BOOLEAN /\ client.maxRetries \in Nat
        /\ client.requestTimeout \in Nat
    BY DEF TypeOK
  <2>2. client.retryMaxWait \in Duration
    <3>1. CASE client.retryMaxWait = 0
      BY <3>1
    <3>2. CASE \E i \in 1 .. next - 1 : /\ Latest("WithRetryMaxWait", i)
                                        /\ client.retryMaxWait = opts[i].d
      <4>1. PICK i \in 1 .. next - 1 : /\ Latest("WithRetryMaxWait", i)
                                       /\ client.retryMaxWait = opts[i].d
        BY <3>2
      <4>2. opts[i] \in Options
        BY DEF TypeOK
      <4> QED BY <4>1, <4>2 DEF Latest
    <3> QED BY <3>1, <3>2 DEF FieldsInv, MaxWaitInv
  <2> QED BY <2>1, <2>2 DEF EngineFields
<1> QED BY <1>1, TypeCorrect, FieldsInvariance, PTL
=============================================================================
