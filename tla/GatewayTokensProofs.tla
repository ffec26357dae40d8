------------------------ MODULE GatewayTokensProofs ------------------------
(***************************************************************************)
(* What a caller can rely on about Gateway tokens, for any callers and any *)
(* number of calls.  The order in which calls took effect is all there is  *)
(* to it: the newest token of a Gateway is the last that was minted, the   *)
(* one in use is older than one that waits, what a Get has seen in use     *)
(* stays the oldest that can work, and a Delete is final because the call  *)
(* that could create the Gateway has had its effect.                       *)
(***************************************************************************)
EXTENDS GatewayTokens, SequenceTheorems, TLAPS

Effective == Contract!Effective

Verdicts == {"idle", "pending", "done", "refused", "unknown"}
Methods  == {"none", "Provision", "RotateToken", "Get", "Delete"}
Tokens   == Calls \union {None}

KindsInv ==
    /\ verdict \in [Calls -> Verdicts]
    /\ history \in Seq(Calls)
    /\ roster \in Rosters
    /\ request \in [Calls -> [method : Methods, gateway : Tokens]]
    /\ gateway \in [Calls -> [exists : BOOLEAN, used : Tokens, spare : Tokens, expired : BOOLEAN]]
    /\ host \in [Calls -> Tokens]
    /\ secret \in [Calls -> BOOLEAN]
    /\ seen \in [Calls -> [GatewayTokenID : Tokens, RotatedAt : BOOLEAN]]
    /\ before \in [Calls -> SUBSET Calls]

(* A call takes effect once, if its verdict allows it.                      *)
ContractInv ==
    /\ \A i, j \in DOMAIN history : history[i] = history[j] => i = j
    /\ \A c \in Effective : verdict[c] \in {"pending", "done", "unknown"}
    /\ \A c \in Calls : verdict[c] = "done" => c \in Effective

(* A Provision is about the Gateway it creates, any other call about one    *)
(* that has been created.  What was done before a call comes before it.    *)
RequestInv ==
    \A c \in Calls :
        /\ request[c].method = "none" <=> verdict[c] = "idle"
        /\ request[c].method = "Provision" => request[c].gateway = c
        /\ request[c].method \in {"RotateToken", "Get", "Delete"} =>
               LET p == request[c].gateway
               IN  p \in Effective /\ request[p].method = "Provision"
        /\ secret[c] => Mints(c) /\ verdict[c] = "done"
        /\ \A m \in before[c] : verdict[m] \notin {"idle", "pending"}
        /\ c \in Effective => \A m \in before[c] : verdict[m] = "done" => Later(m, c)

Newest(p) == IF gateway[p].spare # None THEN gateway[p].spare ELSE gateway[p].used

TokenOf(t, p) == t \in Effective /\ t \in Mint(p)

(* The tokens of a Gateway: the newest is the last that was minted.         *)
GatewayInv ==
    \A p \in Calls :
        /\ gateway[p].exists => /\ p \in Effective /\ request[p].method = "Provision"
                                /\ TokenOf(Newest(p), p)
        /\ ~gateway[p].exists => gateway[p] = NoGateway
        /\ \A t \in {gateway[p].used, gateway[p].spare} : t # None => TokenOf(t, p)
        /\ host[p] # None => host[p] \in Mint(p)
        /\ gateway[p].used # None /\ gateway[p].spare # None
               => Later(gateway[p].used, gateway[p].spare)
        /\ gateway[p].expired => gateway[p].used # None /\ gateway[p].spare # None
        /\ gateway[p].exists => \A m \in Mint(p) : m \in Effective
               => m = Newest(p) \/ Later(m, Newest(p))

(* It is gone for good when a Delete has taken effect, and not before.      *)
DeletedInv ==
    \A p \in Calls :
        p \in Effective /\ request[p].method = "Provision" =>
            (gateway[p].exists <=> \A d \in Deletions(p) : d \notin Effective)

(* What a Get has seen in use is the oldest token that can still work, and  *)
(* if nothing was pending it was the newest then.                          *)
SeenInv ==
    \A g \in Calls :
        LET u == seen[g].GatewayTokenID
            p == request[g].gateway
        IN  u # None =>
               /\ request[g].method = "Get" /\ g \in Effective
               /\ TokenOf(u, p)
               /\ \A t \in Calls : Later(t, u) => t # gateway[p].used /\ t # gateway[p].spare
               /\ ~seen[g].RotatedAt => \A c \in before[g] :
                      c \in Mint(p) /\ verdict[c] = "done" => c = u \/ Later(c, u)

IInv == KindsInv /\ ContractInv /\ RequestInv /\ GatewayInv /\ DeletedInv /\ SeenInv

-----------------------------------------------------------------------------
(* The order in which calls took effect is one.                             *)
LEMMA LaterOrders ==
    ASSUME KindsInv, ContractInv
    PROVE  /\ Effective \subseteq Calls
           /\ \A x, y : Later(x, y) => x \in Effective /\ y \in Effective /\ ~Later(y, x) /\ x # y
           /\ \A x, y \in Effective : x = y \/ Later(x, y) \/ Later(y, x)
           /\ \A x, y, z : Later(x, y) /\ Later(y, z) => Later(x, z)
<1>1. history \in Seq(Calls) /\ DOMAIN history \subseteq Nat /\ \A i \in DOMAIN history : history[i] \in Calls
  BY DEF KindsInv
<1>2. \A i, j \in DOMAIN history : i < j \/ j < i \/ i = j
  BY <1>1
<1>3. \A i, j, k \in DOMAIN history : (i < j => ~(j < i)) /\ (i < j /\ j < k => i < k)
  BY <1>1
<1>4. \A i, j \in DOMAIN history : history[i] = history[j] => i = j
  BY DEF ContractInv
<1>5. \A x : x \in Effective <=> \E i \in DOMAIN history : history[i] = x
  BY DEF Effective, Contract!Effective
<1> QED BY <1>1, <1>2, <1>3, <1>4, <1>5 DEF Later

(* A call that takes effect comes after all that have.                      *)
LEMMA Appended ==
    ASSUME KindsInv, ContractInv, NEW c \in Calls, c \notin Effective,
           history' = Append(history, c)
    PROVE  /\ Effective' = Effective \union {c}
           /\ \A x, y : Later(x, y)' <=> Later(x, y) \/ (y = c /\ x \in Effective)
           /\ history' \in Seq(Calls)
           /\ (\A i, j \in DOMAIN history : history[i] = history[j] => i = j)'
<1> DEFINE n == Len(history)
<1>1. n \in Nat /\ DOMAIN history = 1 .. n /\ \A i \in 1 .. n : history[i] \in Calls
  BY DEF KindsInv
<1>2. /\ history' \in Seq(Calls) /\ DOMAIN history' = 1 .. n + 1
      /\ \A i \in 1 .. n : history'[i] = history[i]
      /\ history'[n + 1] = c
  BY DEF KindsInv
<1> HIDE DEF n
<1>3. \A i : i \in 1 .. n + 1 <=> i \in 1 .. n \/ i = n + 1
  BY <1>1
<1>4. \A i \in 1 .. n : i < n + 1 /\ ~(n + 1 < i)
  BY <1>1
<1>5. ~(n + 1 < n + 1)
  BY <1>1
<1>6. \A x : x \in Effective <=> \E i \in 1 .. n : history[i] = x
  BY <1>1 DEF Effective, Contract!Effective
<1>7. \A x : x \in Effective' <=> \E i \in 1 .. n + 1 : history'[i] = x
  BY <1>2 DEF Effective, Contract!Effective
<1>8. \A x, y : Later(x, y) <=> \E i, j \in 1 .. n : history[i] = x /\ history[j] = y /\ i < j
  BY <1>1 DEF Later
<1>9. \A x, y : Later(x, y)' <=> \E i, j \in 1 .. n + 1 : history'[i] = x /\ history'[j] = y /\ i < j
  BY <1>2 DEF Later
<1>10. Effective' = Effective \union {c}
  BY <1>2, <1>3, <1>6, <1>7
<1>11. \A x, y : Later(x, y)' <=> Later(x, y) \/ (y = c /\ x \in Effective)
  BY <1>2, <1>3, <1>4, <1>5, <1>6, <1>8, <1>9
<1>12. \A i, j \in 1 .. n + 1 : history'[i] = history'[j] => i = j
  BY <1>1, <1>2, <1>3, <1>6 DEF ContractInv
<1> QED BY <1>2, <1>10, <1>11, <1>12

LEMMA SameHistory ==
    ASSUME history' = history
    PROVE  Effective' = Effective /\ \A x, y : Later(x, y)' <=> Later(x, y)
BY DEF Effective, Contract!Effective, Later

-----------------------------------------------------------------------------
LEMMA InitIInv == Init => IInv
<1> SUFFICES ASSUME Init PROVE IInv
  OBVIOUS
<1>1. history = <<>> /\ verdict = [c \in Calls |-> "idle"]
  BY DEF Init, Contract!Init
<1>2. Effective = {}
  BY <1>1 DEF Effective, Contract!Effective
<1>3. KindsInv
  BY <1>1 DEF Init, KindsInv, Verdicts, Methods, Tokens, Unmade, NoGateway, Snapshot
<1>4. ContractInv
  BY <1>1, <1>2 DEF ContractInv
<1>5. RequestInv
  BY <1>1, <1>2 DEF Init, RequestInv, Unmade
<1>6. GatewayInv
  BY <1>2 DEF Init, GatewayInv, NoGateway
<1>7. DeletedInv /\ SeenInv
  BY <1>2 DEF Init, DeletedInv, SeenInv, Snapshot, NoGateway
<1> QED BY <1>3, <1>4, <1>5, <1>6, <1>7 DEF IInv

(* A new call has had no effect, and is about a Gateway that exists or is   *)
(* yet to be created by it.                                                *)
LEMMA SendKeepsInv ==
    ASSUME IInv, NEW c \in Calls, NEW method \in Methods \ {"none"}, NEW p \in Calls,
           Send(c, method, p),
           method = "Provision" => p = c,
           method # "Provision" => gateway[p].exists
    PROVE  IInv'
<1> USE DEF IInv
<1>1. /\ verdict[c] = "idle" /\ verdict' = [verdict EXCEPT ![c] = "pending"]
      /\ request' = [request EXCEPT ![c] = [method |-> method, gateway |-> p]]
      /\ before' = [before EXCEPT ![c] = Returned]
      /\ UNCHANGED <<history, roster, gateway, host, secret, seen>>
  BY DEF Send, Contract!Begin
<1>2. Effective' = Effective /\ \A x, y : Later(x, y)' <=> Later(x, y)
  BY <1>1, SameHistory
<1>3. c \notin Effective /\ request[c].method = "none" /\ ~secret[c]
  BY <1>1 DEF ContractInv, RequestInv
<1>4. \A x \in Calls : /\ x # c => request'[x] = request[x] /\ before'[x] = before[x]
                                    /\ verdict'[x] = verdict[x]
                       /\ x = c => /\ request'[x].method = method /\ request'[x].gateway = p
                                    /\ before'[x] = Returned /\ verdict'[x] = "pending"
  BY <1>1 DEF KindsInv
<1>5. Effective \subseteq Calls /\ \A x, y : Later(x, y) => x \in Effective /\ y \in Effective
  BY LaterOrders
<1>6. \A q, x \in Calls : /\ x # c => (x \in Mint(q)' <=> x \in Mint(q))
                                       /\ (x \in Deletions(q)' <=> x \in Deletions(q))
  BY <1>4 DEF Mint, Mints, Deletions
<1>7. KindsInv'
  <2>1. [method |-> method, gateway |-> p] \in [method : Methods, gateway : Tokens]
    BY DEF Methods, Tokens
  <2>2. Returned \in SUBSET Calls
    BY DEF Returned
  <2> QED BY <1>1, <2>1, <2>2 DEF KindsInv, Verdicts
<1>8. ContractInv'
  BY <1>1, <1>2, <1>3, <1>4, <1>5 DEF ContractInv
<1>9. RequestInv'
  <2> SUFFICES ASSUME NEW x \in Calls
               PROVE  (/\ request[x].method = "none" <=> verdict[x] = "idle"
                       /\ request[x].method = "Provision" => request[x].gateway = x
                       /\ request[x].method \in {"RotateToken", "Get", "Delete"} =>
                              /\ request[x].gateway \in Effective
                              /\ request[request[x].gateway].method = "Provision"
                       /\ secret[x] => Mints(x) /\ verdict[x] = "done"
                       /\ \A m \in before[x] : verdict[m] \notin {"idle", "pending"}
                       /\ x \in Effective => \A m \in before[x] : verdict[m] = "done" => Later(m, x))'
    BY DEF RequestInv
  <2>1. before[x] \subseteq Calls
    BY DEF KindsInv
  <2>2. CASE x # c
    <3>1. \A m \in before[x] : m # c
      BY <1>1, <2>1 DEF RequestInv
    <3>2. request[x].method \in {"RotateToken", "Get", "Delete"} => request[x].gateway # c
      BY <1>3 DEF RequestInv
    <3> QED BY <1>1, <1>2, <1>4, <1>5, <2>1, <2>2, <3>1, <3>2 DEF RequestInv, Mints
  <2>3. CASE x = c
    <3>1. \A m \in Returned : m \in Calls /\ verdict[m] \notin {"idle", "pending"} /\ m # c
      BY <1>1 DEF Returned
    <3>2. method # "Provision" => p # c /\ p \in Effective /\ request[p].method = "Provision"
      BY <1>3 DEF GatewayInv
    <3>3. method # "none"
      OBVIOUS
    <3> QED BY <1>1, <1>2, <1>3, <1>4, <2>3, <3>1, <3>2, <3>3
  <2> QED BY <2>2, <2>3
<1>10. GatewayInv'
  <2>1. \A q \in Calls : host[q] # c
    BY <1>3, NoneAssumption DEF GatewayInv, Mint, Mints
  <2> QED BY <1>1, <1>2, <1>3, <1>4, <1>5, <1>6, <2>1 DEF GatewayInv, TokenOf, Newest, KindsInv, Tokens
<1>11. DeletedInv'
  BY <1>1, <1>2, <1>3, <1>4, <1>5, <1>6 DEF DeletedInv, Deletions
<1>12. SeenInv'
  <2> SUFFICES ASSUME NEW g \in Calls, seen[g].GatewayTokenID # None
               PROVE  LET u == seen[g].GatewayTokenID
                          q == request[g].gateway
                      IN  (/\ request[g].method = "Get" /\ g \in Effective
                           /\ TokenOf(u, q)
                           /\ \A t \in Calls : Later(t, u) => t # gateway[q].used /\ t # gateway[q].spare
                           /\ ~seen[g].RotatedAt => \A m \in before[g] :
                                 m \in Mint(q) /\ verdict[m] = "done" => m = u \/ Later(m, u))'
    BY <1>1 DEF SeenInv
  <2>1. g # c /\ \A m \in before[g] : m # c
    BY <1>1, <1>3 DEF SeenInv, RequestInv, KindsInv
  <2>2. seen[g].GatewayTokenID # c /\ request[g].gateway \in Calls
    BY <1>3, <1>5, <2>1 DEF SeenInv, TokenOf, RequestInv
  <2>3. before[g] \subseteq Calls
    BY DEF KindsInv
  <2> QED BY <1>1, <1>2, <1>4, <1>5, <1>6, <2>1, <2>2, <2>3 DEF SeenInv, TokenOf
<1> QED BY <1>7, <1>8, <1>9, <1>10, <1>11, <1>12

(* What a call does to its Gateway comes after all that has been done.      *)
LEMMA ProcessKeepsInv ==
    ASSUME IInv, NEW c \in Calls, Process(c)
    PROVE  IInv'
<1> USE NoneAssumption DEF IInv
<1> DEFINE p == request[c].gateway
           gw == Effect(c, gateway[p])
<1>1. /\ verdict[c] \in {"pending", "unknown"} /\ c \notin Effective
      /\ history' = Append(history, c)
      /\ UNCHANGED <<verdict, roster, request, host, secret, before>>
      /\ gateway' = [gateway EXCEPT ![p] = Effect(c, @)]
      /\ seen' = IF request[c].method = "Get" THEN [seen EXCEPT ![c] = Snapshot(gateway[p])] ELSE seen
      /\ request[c].method # "Provision" => gateway[p].exists
  BY DEF Process, Contract!TakeEffect, Found, Effective
<1>2. /\ Effective' = Effective \union {c}
      /\ \A x, y : Later(x, y)' <=> Later(x, y) \/ (y = c /\ x \in Effective)
      /\ history' \in Seq(Calls)
      /\ (\A i, j \in DOMAIN history : history[i] = history[j] => i = j)'
  BY <1>1, Appended
<1>3. /\ Effective \subseteq Calls
      /\ \A x, y : Later(x, y) => x \in Effective /\ y \in Effective /\ ~Later(y, x) /\ x # y
      /\ \A x, y \in Effective : x = y \/ Later(x, y) \/ Later(y, x)
      /\ \A x, y, z : Later(x, y) /\ Later(y, z) => Later(x, z)
  BY LaterOrders
<1>4. /\ request[c].method \in {"Provision", "RotateToken", "Get", "Delete"}
      /\ p \in Calls
      /\ request[c].method = "Provision" => p = c
      /\ request[c].method # "Provision" => p \in Effective /\ request[p].method = "Provision" /\ p # c
  BY <1>1, <1>3 DEF RequestInv, KindsInv, Methods
<1>5. /\ gateway'[p] = gw
      /\ \A q \in Calls : q # p => gateway'[q] = gateway[q]
      /\ \A g \in Calls : g # c \/ request[c].method # "Get" => seen'[g] = seen[g]
      /\ request[c].method = "Get" => seen'[c] = Snapshot(gateway[p])
  BY <1>1, <1>4 DEF KindsInv
<1>6. gateway[p] \in [exists : BOOLEAN, used : Tokens, spare : Tokens, expired : BOOLEAN]
  BY <1>4 DEF KindsInv
<1>7. /\ request[c].method = "Provision" => gw = Provisioned(c) /\ c \in Mint(p)
      /\ request[c].method = "RotateToken" => gw = [gateway[p] EXCEPT !.spare = c] /\ c \in Mint(p)
      /\ request[c].method = "Get" => gw = gateway[p] /\ \A q \in Calls : c \notin Mint(q)
      /\ request[c].method = "Delete" => gw = NoGateway /\ \A q \in Calls : c \notin Mint(q)
      /\ \A q \in Calls : c \in Mint(q) => q = p
  BY <1>4 DEF Effect, Rotated, Mint, Mints
<1>8. /\ gw \in [exists : BOOLEAN, used : Tokens, spare : Tokens, expired : BOOLEAN]
      /\ gw.used \in {gateway[p].used, None} /\ gw.spare \in {gateway[p].spare, c, None}
  <2> HIDE DEF gw
  <2>1. NoGateway = [exists |-> FALSE, used |-> None, spare |-> None, expired |-> FALSE]
    BY DEF NoGateway
  <2>2. None \in Tokens /\ c \in Tokens
    BY DEF Tokens
  <2>3. NoGateway \in [exists : BOOLEAN, used : Tokens, spare : Tokens, expired : BOOLEAN]
    BY <2>1, <2>2
  <2>4. /\ Provisioned(c) \in [exists : BOOLEAN, used : Tokens, spare : Tokens, expired : BOOLEAN]
        /\ Provisioned(c).used = None /\ Provisioned(c).spare = c
    BY <2>1, <2>2, <2>3 DEF Provisioned
  <2>5. CASE request[c].method = "RotateToken"
    BY <1>6, <1>7, <2>2, <2>5
  <2>6. CASE request[c].method # "RotateToken"
    <3>1. gw \in {Provisioned(c), gateway[p], NoGateway}
      BY <1>4, <1>7, <2>6
    <3>2. CASE gw = Provisioned(c)
      BY <2>4, <2>2, <3>2
    <3>3. CASE gw = NoGateway
      BY <2>1, <2>2, <3>3
    <3> QED BY <1>6, <3>1, <3>2, <3>3
  <2> QED BY <2>5, <2>6
<1>9. \A q \in Calls : Mint(q)' = Mint(q) /\ Deletions(q)' = Deletions(q)
  BY <1>1 DEF Mint, Mints, Deletions
<1>10. \A q \in Calls : q # p => Newest(q)' = Newest(q)
  BY <1>5 DEF Newest
<1> HIDE DEF gw, p
<1>11. KindsInv'
  <2>1. gateway' \in [Calls -> [exists : BOOLEAN, used : Tokens, spare : Tokens, expired : BOOLEAN]]
    BY <1>1, <1>4, <1>5, <1>8 DEF KindsInv
  <2>2. Snapshot(gateway[p]) \in [GatewayTokenID : Tokens, RotatedAt : BOOLEAN]
    BY <1>6 DEF Snapshot
  <2>3. seen' \in [Calls -> [GatewayTokenID : Tokens, RotatedAt : BOOLEAN]]
    BY <1>1, <2>2 DEF KindsInv
  <2> QED BY <1>1, <1>2, <2>1, <2>3 DEF KindsInv
<1>12. ContractInv'
  BY <1>1, <1>2 DEF ContractInv
<1>13. RequestInv'
  <2>1. \A m \in before[c] : verdict[m] = "done" => m \in Effective
    BY DEF ContractInv, KindsInv
  <2> QED BY <1>1, <1>2, <2>1 DEF RequestInv, Mints
<1>14. GatewayInv'
  <2> SUFFICES ASSUME NEW q \in Calls
               PROVE  (/\ gateway[q].exists => /\ q \in Effective /\ request[q].method = "Provision"
                                                /\ TokenOf(Newest(q), q)
                       /\ ~gateway[q].exists => gateway[q] = NoGateway
                       /\ \A t \in {gateway[q].used, gateway[q].spare} : t # None => TokenOf(t, q)
                       /\ host[q] # None => host[q] \in Mint(q)
                       /\ gateway[q].used # None /\ gateway[q].spare # None
                              => Later(gateway[q].used, gateway[q].spare)
                       /\ gateway[q].expired => gateway[q].used # None /\ gateway[q].spare # None
                       /\ gateway[q].exists => \A m \in Mint(q) : m \in Effective
                              => m = Newest(q) \/ Later(m, Newest(q)))'
    BY DEF GatewayInv
  <2>1. CASE q # p
    BY <1>1, <1>2, <1>5, <1>7, <1>9, <1>10, <2>1 DEF GatewayInv, TokenOf
  <2>2. CASE q = p /\ request[c].method = "Provision"
    <3>1. /\ gateway'[q].exists /\ gateway'[q].used = None /\ gateway'[q].spare = c
          /\ ~gateway'[q].expired /\ Newest(q)' = c
      BY <1>5, <1>7, <2>2 DEF Provisioned, NoGateway, Newest
    <3> QED BY <1>1, <1>2, <1>4, <1>7, <1>9, <2>2, <3>1 DEF GatewayInv, TokenOf
  <2>3. CASE q = p /\ request[c].method = "RotateToken"
    <3>1. /\ gateway'[q].exists /\ gateway[q].exists
          /\ gateway'[q].used = gateway[q].used /\ gateway'[q].spare = c
          /\ gateway'[q].expired => gateway[q].expired
          /\ Newest(q)' = c
      BY <1>1, <1>5, <1>6, <1>7, <2>3 DEF Newest, p
    <3> QED BY <1>1, <1>2, <1>4, <1>7, <1>9, <2>3, <3>1 DEF GatewayInv, TokenOf
  <2>4. CASE q = p /\ request[c].method = "Get"
    <3>1. gateway'[q] = gateway[q] /\ Newest(q)' = Newest(q)
      BY <1>5, <1>7, <2>4 DEF Newest
    <3> QED BY <1>1, <1>2, <1>7, <1>9, <2>4, <3>1 DEF GatewayInv, TokenOf
  <2>5. CASE q = p /\ request[c].method = "Delete"
    <3>1. gateway'[q] = NoGateway
      BY <1>5, <1>7, <2>5
    <3> QED BY <1>1, <1>9, <2>5, <3>1 DEF GatewayInv, NoGateway
  <2> QED BY <1>4, <2>1, <2>2, <2>3, <2>4, <2>5
<1>15. DeletedInv'
  <2> SUFFICES ASSUME NEW q \in Calls, q \in Effective', request[q].method = "Provision"
               PROVE  gateway'[q].exists <=> \A d \in Deletions(q) : d \notin Effective'
    BY <1>1, <1>9 DEF DeletedInv
  <2>1. c \in Deletions(q) <=> request[c].method = "Delete" /\ q = p
    BY DEF Deletions, p
  <2>2. CASE q = c
    <3>1. request[c].method = "Provision" /\ q = p
      BY <1>4, <2>2
    <3>2. gateway'[q].exists
      BY <1>5, <1>7, <3>1 DEF Provisioned, NoGateway
    <3>3. ASSUME NEW d \in Deletions(q) PROVE d \notin Effective'
      <4>1. d \in Calls /\ request[d].method = "Delete" /\ request[d].gateway = c
        BY <2>2 DEF Deletions
      <4>2. c \in Effective
        BY <4>1 DEF RequestInv
      <4> QED BY <1>1, <4>2
    <3> QED BY <3>2, <3>3
  <2>3. CASE q # c
    <3>1. q \in Effective
      BY <1>2, <2>3
    <3>2. gateway[q].exists <=> \A d \in Deletions(q) : d \notin Effective
      BY <3>1 DEF DeletedInv
    <3>3. CASE request[c].method = "Delete" /\ q = p
      BY <1>2, <1>5, <1>7, <2>1, <3>3 DEF NoGateway
    <3>4. CASE ~(request[c].method = "Delete" /\ q = p)
      <4>1. gateway'[q].exists <=> gateway[q].exists
        BY <1>1, <1>4, <1>5, <1>6, <1>7, <2>3, <3>4
      <4> QED BY <1>2, <2>1, <3>2, <3>4, <4>1
    <3> QED BY <3>3, <3>4
  <2> QED BY <2>2, <2>3
<1>16. SeenInv'
  <2>1. ASSUME NEW q \in Calls, NEW u \in Effective, NEW t \in Calls, Later(t, u)',
               Later(t, u) => t # gateway[q].used /\ t # gateway[q].spare
        PROVE  t # gateway'[q].used /\ t # gateway'[q].spare
    <3>1. Later(t, u) /\ t # c /\ t # None
      BY <1>1, <1>2, <1>3, <2>1
    <3>2. CASE q # p
      BY <1>5, <2>1, <3>1, <3>2
    <3>3. CASE q = p
      BY <1>4, <1>5, <1>8, <2>1, <3>1, <3>3
    <3> QED BY <3>2, <3>3
  <2> SUFFICES ASSUME NEW g \in Calls, NEW u, u = seen'[g].GatewayTokenID, u # None,
                      NEW q, q = request[g].gateway
               PROVE  /\ request[g].method = "Get" /\ g \in Effective'
                      /\ TokenOf(u, q)'
                      /\ \A t \in Calls : Later(t, u)' => t # gateway'[q].used /\ t # gateway'[q].spare
                      /\ ~seen'[g].RotatedAt => \A m \in before[g] :
                             m \in Mint(q) /\ verdict[m] = "done" => m = u \/ Later(m, u)'
    <3>1. \A q \in Calls : Mint(q)' = Mint(q)
      BY <1>9
    <3>2. request' = request /\ verdict' = verdict /\ before' = before
      BY <1>1
    <3>3. \A g \in Calls : \A q : q = request[g].gateway => Mint(q)' = Mint(q)
      BY <3>2 DEF Mint, Mints
    <3> QED BY <3>2, <3>3 DEF SeenInv
  <2>2. CASE g = c /\ request[c].method = "Get"
    <3>1. q = p /\ seen'[g] = Snapshot(gateway[p])
      BY <1>5, <2>2 DEF p
    <3>2. u = gateway[p].used /\ (~seen'[g].RotatedAt => gateway[p].spare = None)
      <4>1. seen'[g].GatewayTokenID = gateway[p].used
        BY <3>1 DEF Snapshot
      <4>2. Snapshot(gateway[p]).RotatedAt <=> gateway[p].used # None /\ gateway[p].spare # None
        BY DEF Snapshot
      <4>3. u = gateway[p].used
        BY <4>1
      <4> QED BY <3>1, <4>2, <4>3
    <3>3. TokenOf(u, p) /\ gateway[p].exists
      BY <1>1, <1>4, <2>2, <3>2 DEF GatewayInv, p
    <3>4. ASSUME NEW t \in Calls, Later(t, u)
          PROVE  t # gateway[p].used /\ t # gateway[p].spare
      BY <1>3, <1>4, <3>2, <3>4 DEF GatewayInv
    <3>5. ASSUME NEW m \in before[c], m \in Mint(p), verdict[m] = "done", ~seen'[g].RotatedAt
          PROVE  m = u \/ Later(m, u)
      <4>1. m \in Effective
        BY <3>5 DEF ContractInv, Mint
      <4>2. Newest(p) = u
        BY <3>2, <3>5 DEF Newest
      <4> QED BY <1>4, <3>3, <3>5, <4>1, <4>2 DEF GatewayInv
    <3>6. p \in Calls /\ u \in Effective
      BY <1>4, <3>3 DEF TokenOf
    <3>7. \A t \in Calls : Later(t, u)' => t # gateway'[p].used /\ t # gateway'[p].spare
      BY <2>1, <3>4, <3>6
    <3>8. TokenOf(u, q)'
      BY <1>2, <1>4, <1>9, <3>1, <3>3 DEF TokenOf
    <3>9. g \in Effective'
      BY <1>2, <2>2
    <3>10. ASSUME NEW m \in before[g], m \in Mint(q), verdict[m] = "done", ~seen'[g].RotatedAt
           PROVE  m = u \/ Later(m, u)'
      BY <1>2, <2>2, <3>1, <3>5, <3>10
    <3>11. \A t \in Calls : Later(t, u)' => t # gateway'[q].used /\ t # gateway'[q].spare
      BY <3>1, <3>7
    <3> QED BY <2>2, <3>8, <3>9, <3>10, <3>11
  <2>3. CASE ~(g = c /\ request[c].method = "Get")
    <3>1. seen'[g] = seen[g] /\ u = seen[g].GatewayTokenID
      BY <1>5, <2>3
    <3>2. /\ request[g].method = "Get" /\ g \in Effective
          /\ TokenOf(u, q)
          /\ \A t \in Calls : Later(t, u) => t # gateway[q].used /\ t # gateway[q].spare
          /\ ~seen[g].RotatedAt => \A m \in before[g] :
                m \in Mint(q) /\ verdict[m] = "done" => m = u \/ Later(m, u)
      BY <3>1 DEF SeenInv
    <3>3. q \in Calls /\ u \in Effective
      BY <1>3, <3>2 DEF RequestInv, TokenOf
    <3>4. \A t \in Calls : Later(t, u)' => t # gateway'[q].used /\ t # gateway'[q].spare
      BY <2>1, <3>2, <3>3
    <3>5. TokenOf(u, q)'
      BY <1>2, <1>9, <3>2, <3>3 DEF TokenOf
    <3> QED BY <1>2, <3>1, <3>2, <3>4, <3>5
  <2> QED BY <2>2, <2>3
<1> QED BY <1>11, <1>12, <1>13, <1>14, <1>15, <1>16

(* An answer settles a call, which nobody has counted on before.            *)
LEMMA AnswerKeepsInv ==
    ASSUME IInv, NEW c \in Calls, Answer(c)
    PROVE  IInv'
<1> USE DEF IInv
<1>1. PICK v \in {"done", "refused", "unknown"} :
          /\ verdict[c] = "pending" /\ verdict' = [verdict EXCEPT ![c] = v]
          /\ v = "done" => c \in Effective
          /\ v = "refused" => c \notin Effective
          /\ v # "done" => secret' = secret
  BY DEF Answer, Contract!End, Effective
<1>2. /\ UNCHANGED <<history, roster, request, gateway, host, seen, before>>
      /\ \/ secret' = secret
         \/ v = "done" /\ \E b \in BOOLEAN : secret' = [secret EXCEPT ![c] = b /\ Mints(c)]
  BY <1>1 DEF Answer, Contract!End, KindsInv
<1>3. Effective' = Effective /\ \A x, y : Later(x, y)' <=> Later(x, y)
  BY <1>2, SameHistory
<1>4. \A x \in Calls : verdict'[x] = IF x = c THEN v ELSE verdict[x]
  BY <1>1 DEF KindsInv
<1>5. \A x \in Calls : secret'[x] => secret[x] \/ (x = c /\ v = "done" /\ Mints(c))
  BY <1>2 DEF KindsInv
<1>6. \A x \in Calls : c \notin before[x]
  BY <1>1 DEF RequestInv
<1>7. Effective \subseteq Calls
  BY LaterOrders
<1>8. \A q : Mint(q)' = Mint(q) /\ Deletions(q)' = Deletions(q)
  BY <1>2 DEF Mint, Mints, Deletions
<1>9. KindsInv'
  <2>1. verdict' \in [Calls -> Verdicts]
    BY <1>1 DEF KindsInv, Verdicts
  <2>2. secret' \in [Calls -> BOOLEAN]
    BY <1>2 DEF KindsInv
  <2> QED BY <1>2, <2>1, <2>2 DEF KindsInv
<1>10. ContractInv'
  BY <1>1, <1>2, <1>3, <1>4, <1>7 DEF ContractInv
<1>11. RequestInv'
  <2> SUFFICES ASSUME NEW x \in Calls
               PROVE  /\ request[x].method = "none" <=> verdict'[x] = "idle"
                      /\ secret'[x] => Mints(x) /\ verdict'[x] = "done"
                      /\ \A m \in before[x] : verdict'[m] \notin {"idle", "pending"}
                      /\ x \in Effective => \A m \in before[x] : verdict'[m] = "done" => Later(m, x)
    BY <1>2, <1>3 DEF RequestInv, Mints
  <2>1. \A m \in before[x] : m \in Calls /\ verdict'[m] = verdict[m]
    BY <1>4, <1>6 DEF KindsInv
  <2>2. secret'[x] => Mints(x) /\ verdict'[x] = "done"
    BY <1>1, <1>4, <1>5 DEF RequestInv
  <2> QED BY <1>1, <1>4, <2>1, <2>2 DEF RequestInv
<1>12. GatewayInv'
  BY <1>2, <1>3, <1>8 DEF GatewayInv, TokenOf, Newest
<1>13. DeletedInv'
  BY <1>2, <1>3, <1>8 DEF DeletedInv
<1>14. SeenInv'
  <2>1. \A g \in Calls : \A m \in before[g] : verdict'[m] = verdict[m]
    BY <1>4, <1>6 DEF KindsInv
  <2> QED BY <1>2, <1>3, <1>8, <2>1 DEF SeenInv, TokenOf
<1> QED BY <1>9, <1>10, <1>11, <1>12, <1>13, <1>14

(* A host holds a secret that was minted for its Gateway.                   *)
LEMMA DeliverKeepsInv ==
    ASSUME IInv, NEW c \in Calls, Deliver(c)
    PROVE  IInv'
<1> USE DEF IInv
<1> DEFINE p == request[c].gateway
<1>1. /\ secret[c] /\ host' = [host EXCEPT ![p] = c]
      /\ UNCHANGED <<verdict, history, roster, request, gateway, secret, seen, before>>
  BY DEF Deliver
<1>2. Effective' = Effective /\ (\A x, y : Later(x, y)' <=> Later(x, y)) /\ Effective \subseteq Calls
  BY <1>1, SameHistory, LaterOrders
<1>3. c \in Mint(p) /\ p \in Calls
  BY <1>1, <1>2 DEF RequestInv, Mint, Mints
<1>4. \A q : Mint(q)' = Mint(q) /\ Deletions(q)' = Deletions(q)
  BY <1>1 DEF Mint, Mints, Deletions
<1>5. \A q \in Calls : host'[q] = IF q = p THEN c ELSE host[q]
  BY <1>1 DEF KindsInv
<1>6. KindsInv'
  BY <1>1 DEF KindsInv, Tokens
<1>7. GatewayInv'
  BY <1>1, <1>2, <1>3, <1>4, <1>5 DEF GatewayInv, TokenOf, Newest
<1>8. ContractInv' /\ RequestInv'
  BY <1>1, <1>2 DEF ContractInv, RequestInv, Mints
<1>9. DeletedInv' /\ SeenInv'
  BY <1>1, <1>2, <1>4 DEF DeletedInv, SeenInv, TokenOf
<1> QED BY <1>6, <1>7, <1>8, <1>9

(* The API may change a Gateway on its own as long as it keeps the tokens   *)
(* that can work among those it had, and the newest the newest.            *)
LEMMA GatewayStepKeepsInv ==
    ASSUME IInv, NEW p \in Calls, NEW gw \in [exists : BOOLEAN, used : Tokens, spare : Tokens,
                                              expired : BOOLEAN],
           gateway[p].exists, gw.exists,
           \/ gw.used = gateway[p].used /\ gw.spare = gateway[p].spare
           \/ gw.used = gateway[p].spare /\ gw.spare = None /\ gateway[p].spare # None,
           gw.expired => gw.used # None /\ gw.spare # None,
           gateway' = [gateway EXCEPT ![p] = gw],
           UNCHANGED <<verdict, history, roster, request, host, secret, seen, before>>
    PROVE  IInv'
<1> USE NoneAssumption DEF IInv
<1>1. /\ Effective' = Effective /\ (\A x, y : Later(x, y)' <=> Later(x, y)) /\ Effective \subseteq Calls
  BY SameHistory, LaterOrders
<1>2. \A q : Mint(q)' = Mint(q) /\ Deletions(q)' = Deletions(q)
  BY DEF Mint, Mints, Deletions
<1>3. \A q \in Calls : gateway'[q] = IF q = p THEN gw ELSE gateway[q]
  BY DEF KindsInv
<1>4. \A q \in Calls : Newest(q)' = Newest(q)
  BY <1>3 DEF Newest
<1>5. KindsInv'
  BY DEF KindsInv
<1>6. GatewayInv'
  <2> SUFFICES ASSUME NEW q \in Calls
               PROVE  (/\ gateway[q].exists => /\ q \in Effective /\ request[q].method = "Provision"
                                                /\ TokenOf(Newest(q), q)
                       /\ ~gateway[q].exists => gateway[q] = NoGateway
                       /\ \A t \in {gateway[q].used, gateway[q].spare} : t # None => TokenOf(t, q)
                       /\ host[q] # None => host[q] \in Mint(q)
                       /\ gateway[q].used # None /\ gateway[q].spare # None
                              => Later(gateway[q].used, gateway[q].spare)
                       /\ gateway[q].expired => gateway[q].used # None /\ gateway[q].spare # None
                       /\ gateway[q].exists => \A m \in Mint(q) : m \in Effective
                              => m = Newest(q) \/ Later(m, Newest(q)))'
    BY DEF GatewayInv
  <2>1. CASE q # p
    BY <1>1, <1>2, <1>3, <1>4, <2>1 DEF GatewayInv, TokenOf
  <2>2. CASE q = p
    <3>1. gateway'[q] = gw
      BY <1>3, <2>2
    <3> QED BY <1>1, <1>2, <1>4, <2>2, <3>1 DEF GatewayInv, TokenOf
  <2> QED BY <2>1, <2>2
<1>7. ContractInv' /\ RequestInv'
  BY <1>1 DEF ContractInv, RequestInv, Mints
<1>8. DeletedInv'
  BY <1>1, <1>2, <1>3 DEF DeletedInv
<1>9. SeenInv'
  <2>1. \A q \in Calls, t \in Calls :
            t # gateway[q].used /\ t # gateway[q].spare => t # gateway'[q].used /\ t # gateway'[q].spare
    BY <1>3
  <2>2. \A g \in Calls : seen[g].GatewayTokenID # None => request[g].gateway \in Calls
    BY <1>1 DEF SeenInv, RequestInv
  <2> QED BY <1>1, <1>2, <2>1, <2>2 DEF SeenInv, TokenOf
<1> QED BY <1>5, <1>6, <1>7, <1>8, <1>9

LEMMA ConnectKeepsInv ==
    ASSUME IInv, NEW p \in Calls, Connect(p)
    PROVE  IInv'
<1> USE NoneAssumption DEF IInv
<1> DEFINE gw == Connected(gateway[p], host[p])
<1>1. /\ Valid(gateway[p], host[p]) /\ gateway' = [gateway EXCEPT ![p] = gw]
      /\ UNCHANGED <<verdict, history, roster, request, host, secret, seen, before>>
  BY DEF Connect
<1>2. gateway[p] \in [exists : BOOLEAN, used : Tokens, spare : Tokens, expired : BOOLEAN]
  BY DEF KindsInv
<1>3. gateway[p].exists
  BY <1>1 DEF Valid, GatewayInv, NoGateway
<1>4. CASE host[p] = gateway[p].spare
  <2>1. host[p] # None /\ host[p] \in Tokens /\ None \in Tokens
    BY <1>1 DEF Valid, KindsInv, Tokens
  <2>2. /\ gw \in [exists : BOOLEAN, used : Tokens, spare : Tokens, expired : BOOLEAN]
        /\ gw.exists /\ gw.used = host[p] /\ gw.spare = None /\ ~gw.expired
    <3>1. NoGateway \in [exists : BOOLEAN, used : Tokens, spare : Tokens, expired : BOOLEAN]
      BY <2>1 DEF NoGateway
    <3>2. ~NoGateway.expired
      BY DEF NoGateway
    <3> QED BY <1>4, <2>1, <3>1, <3>2 DEF Connected, Provisioned
  <2> HIDE DEF gw
  <2> QED BY <1>1, <1>3, <1>4, <2>1, <2>2, GatewayStepKeepsInv
<1>5. CASE host[p] # gateway[p].spare
  <2>1. gw = gateway[p]
    BY <1>5 DEF Connected
  <2>2. gateway[p].expired => gateway[p].used # None /\ gateway[p].spare # None
    BY DEF GatewayInv
  <2> HIDE DEF gw
  <2> QED BY <1>1, <1>2, <1>3, <2>1, <2>2, GatewayStepKeepsInv
<1> QED BY <1>4, <1>5

LEMMA GraceEndsKeepsInv ==
    ASSUME IInv, NEW p \in Calls, GraceEnds(p)
    PROVE  IInv'
<1> USE DEF IInv
<1> DEFINE gw == Expired(gateway[p])
<1>1. /\ gateway[p].used # None /\ gateway[p].spare # None
      /\ gateway' = [gateway EXCEPT ![p] = gw]
      /\ UNCHANGED <<verdict, history, roster, request, host, secret, seen, before>>
  BY DEF GraceEnds, Snapshot
<1>2. gateway[p] \in [exists : BOOLEAN, used : Tokens, spare : Tokens, expired : BOOLEAN]
  BY DEF KindsInv
<1>3. gateway[p].exists
  BY <1>1 DEF GatewayInv, NoGateway
<1>4. /\ gw \in [exists : BOOLEAN, used : Tokens, spare : Tokens, expired : BOOLEAN]
      /\ gw.exists /\ gw.used = gateway[p].used /\ gw.spare = gateway[p].spare
  BY <1>2, <1>3 DEF Expired
<1> HIDE DEF gw
<1> QED BY <1>1, <1>3, <1>4, GatewayStepKeepsInv

LEMMA NextIInv == IInv /\ [Next]_vars => IInv'
<1> SUFFICES ASSUME IInv, [Next]_vars PROVE IInv'
  OBVIOUS
<1>1. ASSUME NEW c \in Calls, Provision(c) PROVE IInv'
  BY <1>1, SendKeepsInv DEF Provision, Methods
<1>2. ASSUME NEW c \in Calls, RotateToken(c) \/ Get(c) \/ Delete(c) PROVE IInv'
  <2>1. PICK p \in Known, method \in {"RotateToken", "Get", "Delete"} : Send(c, method, p)
    BY <1>2 DEF RotateToken, Get, Delete
  <2>2. p \in Calls /\ gateway[p].exists /\ method \in Methods \ {"none"} /\ method # "Provision"
    BY DEF Known, Methods
  <2> QED BY <2>1, <2>2, SendKeepsInv
<1>3. ASSUME NEW c \in Calls, Process(c) PROVE IInv'
  BY <1>3, ProcessKeepsInv
<1>4. ASSUME NEW c \in Calls, Answer(c) PROVE IInv'
  BY <1>4, AnswerKeepsInv
<1>5. ASSUME NEW c \in Calls, Deliver(c) PROVE IInv'
  BY <1>5, DeliverKeepsInv
<1>6. ASSUME NEW p \in Calls, Connect(p) PROVE IInv'
  BY <1>6, ConnectKeepsInv
<1>7. ASSUME NEW p \in Calls, GraceEnds(p) PROVE IInv'
  BY <1>7, GraceEndsKeepsInv
<1>8. ASSUME UNCHANGED vars PROVE IInv'
  <2>1. /\ Effective' = Effective /\ (\A x, y : Later(x, y)' <=> Later(x, y))
        /\ UNCHANGED <<verdict, history, roster, request, gateway, host, secret, seen, before>>
    BY <1>8, SameHistory DEF vars
  <2>2. \A q : Mint(q)' = Mint(q) /\ Deletions(q)' = Deletions(q) /\ Newest(q)' = Newest(q)
    BY <2>1 DEF Mint, Mints, Deletions, Newest
  <2> QED BY <2>1, <2>2 DEF IInv, KindsInv, ContractInv, RequestInv, GatewayInv, DeletedInv, SeenInv,
                           TokenOf, Mints
<1> QED BY <1>1, <1>2, <1>3, <1>4, <1>5, <1>6, <1>7, <1>8 DEF Next, Finished

LEMMA Invariance == Spec => []IInv
BY InitIInv, NextIInv, PTL DEF Spec

-----------------------------------------------------------------------------
(* Every variable has its type, and a token belongs to the Gateway it was   *)
(* minted for, whoever makes how many calls.                               *)
THEOREM TypeCorrect == Spec => []TypeOK
<1>1. ASSUME IInv PROVE TypeOK
  <2> USE <1>1, NoneAssumption DEF IInv
  <2>1. ASSUME NEW c \in Calls
        PROVE  /\ request[c].method \in Methods
               /\ request[c].gateway \in Tokens
               /\ before[c] \subseteq Calls
               /\ secret[c] => Mints(c) /\ verdict[c] = "done"
               /\ RotationPending(seen[c]) \in BOOLEAN
    <3>1. seen[c] \in [GatewayTokenID : Tokens, RotatedAt : BOOLEAN]
      BY DEF KindsInv
    <3>2. RotationPending(seen[c]) \in BOOLEAN
      BY <3>1 DEF RotationPending
    <3> QED BY <3>2 DEF KindsInv, RequestInv
  <2>2. ASSUME NEW p \in Calls
        PROVE  /\ gateway[p].expired => gateway[p].used # None /\ gateway[p].spare # None
               /\ \A t \in {gateway[p].used, gateway[p].spare, host[p]} \ {None} :
                      Mints(t) /\ request[t].gateway = p
    BY DEF GatewayInv, TokenOf, Mint
  <2> QED BY <2>1, <2>2 DEF TypeOK, KindsInv, Verdicts, Methods, Tokens
<1> QED BY <1>1, Invariance, PTL

(* When Delete has succeeded no token of the Gateway works any more, nor    *)
(* will one (gateways.go:243-245).                                         *)
THEOREM DeletesRevoke == Spec => []DeleteRevokes
<1>1. ASSUME IInv PROVE DeleteRevokes
  <2> SUFFICES ASSUME NEW p \in Calls, NEW d \in Deletions(p), verdict[d] = "done",
                      NEW t \in Mint(p), Valid(gateway[p], t)
               PROVE  FALSE
    BY DEF DeleteRevokes
  <2>1. d \in Effective /\ p \in Effective /\ request[p].method = "Provision"
    BY <1>1 DEF Deletions, IInv, ContractInv, RequestInv
  <2>2. gateway[p] = NoGateway
    BY <1>1, <2>1 DEF IInv, DeletedInv, GatewayInv
  <2> QED BY <2>2 DEF Valid, NoGateway
<1> QED BY <1>1, Invariance, PTL

(* The secret a caller holds works, unless a rotation it did not know to be *)
(* over when it asked, a newer one or a Delete came between                *)
(* (gateways.go:214-228).                                                  *)
THEOREM HeldSecretsWork == Spec => []HeldSecretWorks
<1>1. ASSUME IInv PROVE HeldSecretWorks
  <2> USE <1>1, NoneAssumption DEF IInv
  <2> SUFFICES ASSUME NEW p \in Calls, NEW c \in Mint(p), secret[c],
                      \A m \in Mint(p) \ {c} : verdict[m] = "refused" \/
                          (verdict[m] = "done" /\ m \in before[c]),
                      \A d \in Deletions(p) : verdict[d] = "refused"
               PROVE  Valid(gateway[p], c)
    BY DEF HeldSecretWorks
  <2>1. c \in Calls /\ c \in Effective
    BY DEF Mint, RequestInv, ContractInv
  <2>2. p \in Effective /\ request[p].method = "Provision"
    BY <2>1 DEF Mint, Mints, RequestInv
  <2>3. \A x \in Effective : verdict[x] # "refused"
    BY DEF ContractInv
  <2>4. gateway[p].exists
    BY <2>2, <2>3 DEF DeletedInv
  <2>5. TokenOf(Newest(p), p) /\ (c = Newest(p) \/ Later(c, Newest(p)))
    BY <2>1, <2>4 DEF GatewayInv
  <2>6. c = Newest(p)
    <3> SUFFICES ASSUME c # Newest(p) PROVE FALSE
      OBVIOUS
    <3>1. verdict[Newest(p)] = "done" /\ Newest(p) \in before[c]
      BY <2>3, <2>5 DEF TokenOf
    <3>2. Later(Newest(p), c)
      BY <2>1, <3>1 DEF RequestInv
    <3> QED BY <2>5, <3>2, LaterOrders
  <2>7. gateway[p].expired => gateway[p].spare # None
    BY DEF GatewayInv
  <2> QED BY <2>1, <2>6, <2>7 DEF Valid, Newest
<1> QED BY <1>1, Invariance, PTL

(* A token that a Get has shown to be in use, or to be behind the one that  *)
(* is, has replaced every older one for good (gateways.go:33-41, 64-66 and *)
(* 221-225).                                                               *)
THEOREM PickupsAreConfirmed == Spec => []PickupIsConfirmed
<1>1. ASSUME IInv PROVE PickupIsConfirmed
  <2> USE <1>1, NoneAssumption DEF IInv
  <2> SUFFICES ASSUME NEW p \in Calls, NEW g \in Calls, NEW c \in Mint(p),
                      request[g] = [method |-> "Get", gateway |-> p],
                      verdict[g] = "done", verdict[c] = "done",
                      \/ seen[g].GatewayTokenID = c
                      \/ /\ c \in before[g]
                         /\ seen[g].GatewayTokenID # None /\ ~RotationPending(seen[g]),
                      NEW t \in Mint(p), Later(t, c)
               PROVE  ~Valid(gateway[p], t)
    BY DEF PickupIsConfirmed
  <2> DEFINE u == seen[g].GatewayTokenID
  <2>1. c \in Calls /\ t \in Calls /\ request[g].gateway = p
    BY DEF Mint
  <2>2. u # None
    BY <2>1
  <2>3. /\ \A x \in Calls : Later(x, u) => x # gateway[p].used /\ x # gateway[p].spare
        /\ ~seen[g].RotatedAt => \A m \in before[g] :
               m \in Mint(p) /\ verdict[m] = "done" => m = u \/ Later(m, u)
    BY <2>1, <2>2 DEF SeenInv
  <2>4. c = u \/ Later(c, u)
    BY <2>3 DEF RotationPending
  <2>5. Later(t, u)
    BY <2>4, LaterOrders
  <2> QED BY <2>1, <2>3, <2>5 DEF Valid
<1> QED BY <1>1, Invariance, PTL
=============================================================================
