--------------------------- MODULE GatewayTokens ---------------------------
(***************************************************************************)
(* The life of a Gateway's token (gateways.go): callers that provision     *)
(* Gateways, rotate their tokens, poll and delete them; the API, which     *)
(* holds the tokens; and the hosts, which connect with the secret that was *)
(* delivered to them.  A secret is returned once, by the call that minted  *)
(* it: an answer that is lost or cannot be decoded leaves a token that     *)
(* nobody can use.  A call is what CallContract promises.                  *)
(*                                                                         *)
(* A token is named by the call that minted it, and a Gateway by the       *)
(* Provision that created it.                                              *)
(***************************************************************************)
EXTENDS Naturals, Sequences, FiniteSets

CONSTANTS Callers,  \* independent callers, each making one call at a time
          Rosters,  \* how many calls each caller makes
          MaxCalls, \* bound of those numbers
          MaxGateways, \* bound: calls of Provision
          None      \* no token, no call

ASSUME RostersAssumption ==
    /\ MaxCalls \in Nat /\ MaxGateways \in Nat
    /\ Rosters \subseteq [Callers -> 0 .. MaxCalls]

Calls == Callers \X (1 .. MaxCalls)

ASSUME NoneAssumption == None \notin Calls

VARIABLES verdict, history, \* of CallContract
          roster,   \* the calls each caller makes; never changes
          request,  \* what each call asks for, once made
          gateway,  \* at the API: the Gateway each Provision has created
          host,     \* the secret on the host of each Gateway
          secret,   \* per call: its caller holds the secret it minted
          seen,     \* per call: the Gateway a Get read
          before    \* history: the calls that had returned when a call began

vars == <<verdict, history, roster, request, gateway, host, secret, seen, before>>

Contract == INSTANCE CallContract

-----------------------------------------------------------------------------
(* A Gateway at the API: used is the token it last connected with, spare   *)
(* one that was minted since; grace is over when used has been revoked.    *)
NoGateway == [exists |-> FALSE, used |-> None, spare |-> None, expired |-> FALSE]

Valid(gw, t) == t # None /\ (t = gw.spare \/ (t = gw.used /\ ~gw.expired))

Provisioned(c) == [NoGateway EXCEPT !.exists = TRUE, !.spare = c]

\* Mutant: a second rotation leaves the pending token alone.
RotatedOnce(gw, c) == IF gw.spare = None THEN [gw EXCEPT !.spare = c] ELSE gw

(* The new token replaces a pending one, or one no Gateway has connected   *)
(* with; the one in use keeps its deadline.                                *)
Rotated(gw, c) == [gw EXCEPT !.spare = c]

\* Mutant: the end of the grace period takes the replacement too.
ExpiredBoth(gw) == [gw EXCEPT !.expired = TRUE, !.spare = None]

Expired(gw) == [gw EXCEPT !.expired = TRUE]

(* The first connection with a replacement deletes the previous token.     *)
Connected(gw, t) == IF t = gw.spare THEN [Provisioned(None) EXCEPT !.used = t] ELSE gw

(* What Get returns of it: a Gateway.                                      *)
Snapshot(gw) == [GatewayTokenID |-> gw.used,
                 RotatedAt      |-> gw.used # None /\ gw.spare # None]

\* Mutant: pending until the first connection.
PendingUntilUsed(g) == g.GatewayTokenID = None

RotationPending(g) == g.RotatedAt

-----------------------------------------------------------------------------
Unmade == [method |-> "none", gateway |-> None]

Init == /\ Contract!Init
        /\ roster \in Rosters
        /\ request = [c \in Calls |-> Unmade]
        /\ gateway = [p \in Calls |-> NoGateway]
        /\ host    = [p \in Calls |-> None]
        /\ secret  = [c \in Calls |-> FALSE]
        /\ seen    = [c \in Calls |-> Snapshot(NoGateway)]
        /\ before  = [c \in Calls |-> {}]

Returned == {c \in Calls : verdict[c] \in {"done", "refused", "unknown"}}

(* The Gateways there are at the API: callers may know the ID of any.      *)
Known == {p \in Calls : gateway[p].exists}

(* A caller makes its calls one after the other.                           *)
Send(c, method, p) ==
    /\ c[2] <= roster[c[1]]
    /\ \A n \in 1 .. c[2] - 1 : <<c[1], n>> \in Returned
    /\ Contract!Begin(c)
    /\ request' = [request EXCEPT ![c] = [method |-> method, gateway |-> p]]
    /\ before'  = [before EXCEPT ![c] = Returned]
    /\ UNCHANGED <<roster, gateway, host, secret, seen>>

Provision(c)   == /\ Cardinality({p \in Calls : request[p].method = "Provision"}) < MaxGateways
                  /\ Send(c, "Provision", c)
RotateToken(c) == \E p \in Known : Send(c, "RotateToken", p)
Get(c)         == \E p \in Known : Send(c, "Get", p)
Delete(c)      == \E p \in Known : Send(c, "Delete", p)

\* Mutant: a request about a Gateway that is gone creates it again.
FoundAlways(c) == TRUE

(* The API has nothing to do for a Gateway it does not have.               *)
Found(c) == request[c].method = "Provision" \/ gateway[request[c].gateway].exists

Effect(c, gw) == CASE request[c].method = "Provision"   -> Provisioned(c)
                   [] request[c].method = "RotateToken" -> Rotated(gw, c)
                   [] request[c].method = "Delete"      -> NoGateway
                   [] OTHER                             -> gw

(* The API processes the request, in time or late.                         *)
Process(c) ==
    /\ Contract!TakeEffect(c)
    /\ Found(c)
    /\ LET p == request[c].gateway
       IN  /\ gateway' = [gateway EXCEPT ![p] = Effect(c, @)]
           /\ seen' = IF request[c].method = "Get"
                      THEN [seen EXCEPT ![c] = Snapshot(gateway[p])] ELSE seen
    /\ UNCHANGED <<roster, request, host, secret, before>>

Mints(c) == request[c].method \in {"Provision", "RotateToken"}

(* The call comes back.  The secret is in the answer or nowhere; an answer *)
(* that cannot be decoded is lost as well.                                 *)
Answer(c) ==
    /\ \/ /\ Contract!End(c, "done")
          /\ \E decoded \in BOOLEAN :
                secret' = [secret EXCEPT ![c] = decoded /\ Mints(c)]
       \/ /\ \E v \in {"refused", "unknown"} : Contract!End(c, v)
          /\ UNCHANGED secret
    /\ UNCHANGED <<roster, request, gateway, host, seen, before>>

(* A secret somebody holds is put on the host of its Gateway, in whatever  *)
(* order: a host may also be rolled back.                                  *)
Deliver(c) ==
    /\ secret[c]
    /\ host[request[c].gateway] # c
    /\ host' = [host EXCEPT ![request[c].gateway] = c]
    /\ UNCHANGED <<verdict, history, roster, request, gateway, secret, seen, before>>

(* The host connects.                                                      *)
Connect(p) ==
    /\ Valid(gateway[p], host[p])
    /\ gateway' = [gateway EXCEPT ![p] = Connected(@, host[p])]
    /\ UNCHANGED <<verdict, history, roster, request, host, secret, seen, before>>

(* The grace period after a rotation is over.                              *)
GraceEnds(p) ==
    /\ Snapshot(gateway[p]).RotatedAt /\ ~gateway[p].expired
    /\ gateway' = [gateway EXCEPT ![p] = Expired(@)]
    /\ UNCHANGED <<verdict, history, roster, request, host, secret, seen, before>>

Finished == /\ \A c \in Calls : verdict[c] # "pending"
            /\ UNCHANGED vars

Next == \/ \E c \in Calls : \/ Provision(c) \/ RotateToken(c) \/ Get(c) \/ Delete(c)
                            \/ Process(c) \/ Answer(c) \/ Deliver(c)
        \/ \E p \in Calls : Connect(p) \/ GraceEnds(p)
        \/ Finished

Spec == Init /\ [][Next]_vars

-----------------------------------------------------------------------------
(* The kinds of the variables; a token belongs to the Gateway it was       *)
(* minted for, and a Gateway in its grace period has a replacement.        *)
TypeOK ==
    /\ verdict \in [Calls -> {"idle", "pending", "done", "refused", "unknown"}]
    /\ history \in Seq(Calls)
    /\ roster \in Rosters
    /\ \A c \in Calls :
           /\ request[c].method \in {"none", "Provision", "RotateToken", "Get", "Delete"}
           /\ request[c].gateway \in Calls \union {None}
           /\ before[c] \subseteq Calls
           /\ secret[c] => Mints(c) /\ verdict[c] = "done"
           /\ RotationPending(seen[c]) \in BOOLEAN
    /\ \A p \in Calls :
           /\ gateway[p].expired => gateway[p].used # None /\ gateway[p].spare # None
           /\ \A t \in {gateway[p].used, gateway[p].spare, host[p]} \ {None} :
                  Mints(t) /\ request[t].gateway = p

(* The order in which calls took effect.                                   *)
Later(c, d) == \E i, j \in DOMAIN history : history[i] = c /\ history[j] = d /\ i < j

Mint(p)      == {c \in Calls : Mints(c) /\ request[c].gateway = p}
Deletions(p) == {c \in Calls : request[c].method = "Delete" /\ request[c].gateway = p}

(* A secret that a caller was given works, until a rotation that it did not *)
(* know to be over when it asked for this one, or a newer one, or a Delete. *)
(* Polling, the end of a grace period and a host that connects, or connects *)
(* late, or is rolled back, take no secret away (gateways.go:214-228).      *)
HeldSecretWorks ==
    \A p \in Calls : \A c \in Mint(p) :
        /\ secret[c]
        /\ \A m \in Mint(p) \ {c} : verdict[m] = "refused" \/
               (verdict[m] = "done" /\ m \in before[c])
        /\ \A d \in Deletions(p) : verdict[d] = "refused"
        => Valid(gateway[p], c)

(* A Gateway that is seen with the ID a rotation returned has picked that   *)
(* token up, and so has one that has connected and is seen to have no       *)
(* rotation pending after a token was minted, that one or a newer one: no   *)
(* older one works any more (gateways.go:33-41, 64-66 and 221-225).         *)
PickupIsConfirmed ==
    \A p, g \in Calls : \A c \in Mint(p) :
        /\ request[g] = [method |-> "Get", gateway |-> p]
        /\ verdict[g] = "done" /\ verdict[c] = "done"
        /\ \/ seen[g].GatewayTokenID = c
           \/ /\ c \in before[g]
              /\ seen[g].GatewayTokenID # None /\ ~RotationPending(seen[g])
        => \A t \in Mint(p) : Later(t, c) => ~Valid(gateway[p], t)

(* When Delete has succeeded no token works any more, not even one minted   *)
(* by a rotation that the API receives later (gateways.go:243-245).         *)
DeleteRevokes ==
    \A p \in Calls : \A d \in Deletions(p) :
        verdict[d] = "done" => \A t \in Mint(p) : ~Valid(gateway[p], t)
=============================================================================
