---------------------------- MODULE SharedObject ----------------------------
(***************************************************************************)
(* Callers that change one object at the API: its fields, through Update,  *)
(* Enable and Disable, and its member list, through ReplaceAll and Patch   *)
(* (a Policy, policies.go; a Resource and its pool, resources.go and       *)
(* pool_members.go; a Group and its memberships, groups.go and             *)
(* memberships.go; the other services have requests of the same shapes).   *)
(*                                                                         *)
(* An update is a merge patch: what is not in its body keeps its value. Go *)
(* has no optional fields, so each field of a request struct is of a kind  *)
(* that tells "keep" from the zero value in its own way:                   *)
(*                                                                         *)
(*   plain    string with omitempty: the zero value is "keep"              *)
(*   pointer  *bool, *[]T with omitempty: nil is "keep"                    *)
(*   null     *Null[string]: nil, Clear or Set (null.go)                   *)
(*   node     *Null[PostureNode]: as null, but an empty node has no JSON   *)
(*                                                                         *)
(* The criteria of a Resource are its member list under another name; a    *)
(* nil RawMessage is "keep".  A call is what CallContract promises.        *)
(***************************************************************************)
EXTENDS Naturals, Sequences

CONSTANTS Callers,   \* independent callers, each making one call at a time
          Fields,    \* fields of the object
          Kind,      \* Kind[f]: how the request struct declares field f
          Switch,    \* the field is_disabled
          Members,   \* the IDs that the member list may hold
          Teams,     \* how callers may divide the work: mine[k], the fields
                     \* and IDs caller k looks after, and role[k], what it uses
          Values,    \* values other than the zero value
          True,      \* the one of Values that a Boolean field can hold
          Zero,      \* "", false, an empty list, an empty node
          JSONNull,  \* null on the wire and at the API
          Absent,    \* no such key on the wire
          MaxCalls   \* bound: calls made by each caller

Items == Fields \union Members
Roles == {"editor", "switcher", "patcher", "replacer"}

(* Nothing is looked after by two callers, and a caller that replaces the  *)
(* member list looks after all of it (memberships.go:55-57).               *)
ASSUME TeamsAssumption ==
    /\ Teams \subseteq [mine : [Callers -> SUBSET Items], role : [Callers -> Roles]]
    /\ \A t \in Teams :
           /\ \A j, k \in Callers : j # k => t.mine[j] \cap t.mine[k] = {}
           /\ \A k \in Callers :
                  /\ t.role[k] = "switcher" => t.mine[k] \subseteq {Switch}
                  /\ t.role[k] = "replacer" => Members \subseteq t.mine[k]

ASSUME FieldsAssumption ==
    /\ Fields \cap Members = {}
    /\ Kind \in [Fields -> {"plain", "pointer", "null", "node"}]
    /\ Switch \in Fields /\ Kind[Switch] = "pointer"

ASSUME ValuesAssumption ==
    /\ True \in Values /\ Zero \notin Values
    /\ JSONNull \notin Values \union {Zero} /\ Absent \notin Values \union {Zero, JSONNull}
    /\ "keep" \notin Values \union {Zero, JSONNull, Absent}

ASSUME BoundAssumption == MaxCalls \in Nat

Calls == Callers \X (1 .. MaxCalls)

VARIABLES verdict, history, \* of CallContract
          object,           \* the fields of the object at the API
          members,          \* its member list
          body,             \* the request body of each call, once made
          want,             \* history: what each call was made for
          team              \* who looks after what; never changes

state == <<object, members, body, want, team>>
vars  == <<verdict, history, state>>

Contract == INSTANCE CallContract

-----------------------------------------------------------------------------
(* A field of a request struct: a nil pointer, or a value that Null may    *)
(* mark as not Valid, in which case it is ignored.                         *)
Plain(v) == [nil |-> FALSE, Valid |-> TRUE, Value |-> v]
Nil      == [nil |-> TRUE, Valid |-> FALSE, Value |-> Zero]
Clear    == [nil |-> FALSE, Valid |-> FALSE, Value |-> Zero]

GoField == {Nil, Clear} \union {Plain(v) : v \in Values \union {Zero}}

GoValues(kind) == {g \in GoField : /\ g = Nil => kind # "plain"
                                   /\ g = Clear => kind \in {"null", "node"}}

KeepsAll == [f \in Fields |-> IF Kind[f] = "plain" THEN Plain(Zero) ELSE Nil]

\* Mutant: omitempty that looks through a pointer.
OmittedThroughPointer(kind, g) ==
    g.nil \/ (kind \in {"plain", "pointer"} /\ g.Value = Zero)

\* omitempty.
Omitted(kind, g) == g.nil \/ (kind = "plain" /\ g.Value = Zero)

\* Null.MarshalJSON, and what encoding/json makes of any other field.
MarshalJSON(g) == IF g.Valid THEN g.Value ELSE JSONNull

(* The fields of a request in its body.                                    *)
Encode(req) == [f \in Fields |-> IF Omitted(Kind[f], req[f]) THEN Absent
                                 ELSE MarshalJSON(req[f])]

(* PostureNode.MarshalJSON fails on an empty node, and with it wrapBody:   *)
(* nothing of the request is sent.                                         *)
Encodable(req) == \A f \in Fields :
                     Kind[f] = "node" /\ ~Omitted(Kind[f], req[f])
                         => MarshalJSON(req[f]) # Zero

NoFields == [f \in Fields |-> Absent]

(* The API deduplicates every list, so a list of IDs is a set, and a slice *)
(* (or a RawMessage) is a set of at most one list: nil is none.            *)
Slices == {{}} \union {{ids} : ids \in SUBSET Members}

(* What make and the loop fill: a list, even of a nil slice.               *)
Entries(slice) == {UNION slice}

(* The bodies.  A list is sent if there is one, be it empty; an empty half *)
(* of a Patch is left out.                                                 *)
UpdateBody(req, criteria) ==
    [fields |-> Encode(req), whole |-> criteria # {}, list |-> UNION criteria,
     add |-> {}, remove |-> {}]
ReplaceBody(slice) ==
    [fields |-> NoFields, whole |-> Entries(slice) # {},
     list |-> UNION Entries(slice), add |-> {}, remove |-> {}]

\* Mutant: a Patch that sends the list it wants.
PatchBodyWholeList(add, remove) == ReplaceBody({add})

PatchBody(add, remove) ==
    [fields |-> NoFields, whole |-> FALSE, list |-> {}, add |-> add, remove |-> remove]

NoBody ==
    [fields |-> NoFields, whole |-> FALSE, list |-> {}, add |-> {}, remove |-> {}]

-----------------------------------------------------------------------------
(* The API.                                                                *)

\* An empty string in a nullable field is stored as null (null.go:17-21).
Stored(kind, v) == IF kind = "null" /\ v = Zero THEN JSONNull ELSE v

Merge(b, o) == [f \in Fields |-> IF b.fields[f] = Absent THEN o[f]
                                 ELSE Stored(Kind[f], b.fields[f])]

\* Removals are applied before additions.
Apply(b, m) == IF b.whole THEN b.list ELSE (m \ b.remove) \union b.add

(* An object created with the defaults.                                    *)
Created == [f \in Fields |-> IF Kind[f] \in {"plain", "pointer"} THEN Zero ELSE JSONNull]

-----------------------------------------------------------------------------
(* What a caller means by a field of a request, as the comments of the     *)
(* request types put it, and by a call of each kind.                       *)
Meaning(kind, g) ==
    IF g.nil \/ (kind = "plain" /\ g.Value = Zero) THEN "keep"
    ELSE IF kind \in {"null", "node"} /\ (~g.Valid \/ (kind = "null" /\ g.Value = Zero))
         THEN JSONNull
    ELSE g.Value

InOrOut(i, ids) == IF i \in ids THEN "in" ELSE "out"

UpdateMeans(req, criteria) ==
    [i \in Items |-> IF i \in Fields THEN Meaning(Kind[i], req[i])
                     ELSE IF criteria = {} THEN "keep" ELSE InOrOut(i, UNION criteria)]
\* "Passing an empty slice clears it" (pool_members.go:70-72); nil is empty.
ReplaceMeans(slice) ==
    [i \in Items |-> IF i \in Fields THEN "keep" ELSE InOrOut(i, UNION slice)]
PatchMeans(add, remove) ==
    [i \in Items |-> IF i \in add \union remove THEN InOrOut(i, add) ELSE "keep"]

KeepsEverything == PatchMeans({}, {})

-----------------------------------------------------------------------------
Init == /\ Contract!Init
        /\ object = Created /\ members = {}
        /\ body = [c \in Calls |-> NoBody]
        /\ want = [c \in Calls |-> KeepsEverything]
        /\ team \in Teams

Returned(c) == verdict[c] \notin {"idle", "pending"}

(* A caller makes its calls one after the other.                           *)
Turn(c, role) == /\ team.role[c[1]] = role /\ team.mine[c[1]] # {}
                 /\ verdict[c] = "idle"
                 /\ \A n \in 1 .. c[2] - 1 : Returned(<<c[1], n>>)

(* do with a body that has been encoded.                                   *)
Call(c, b, meant) ==
    /\ Contract!Begin(c)
    /\ body' = [body EXCEPT ![c] = b]
    /\ want' = [want EXCEPT ![c] = meant]
    /\ UNCHANGED <<object, members, team>>

(* The requests a caller makes set only what it looks after.               *)
Requests(k) ==
    LET mine == team.mine[k] \cap Fields
    IN  {[f \in Fields |-> IF f \in mine THEN g[f] ELSE KeepsAll[f]] :
            g \in {g \in [mine -> GoField] : \A f \in mine : g[f] \in GoValues(Kind[f])}}

Criteria(k) ==
    IF Members \subseteq team.mine[k] /\ Members # {} THEN Slices ELSE {{}}

Update(c) ==
    /\ Turn(c, "editor")
    /\ \E req \in Requests(c[1]), criteria \in Criteria(c[1]) :
           /\ Encodable(req)
           /\ Call(c, UpdateBody(req, criteria), UpdateMeans(req, criteria))

(* wrapBody fails: an error before any request.                            *)
UpdateRejected(c) ==
    /\ Turn(c, "editor")
    /\ \E req \in Requests(c[1]) : ~Encodable(req)
    /\ verdict' = [verdict EXCEPT ![c] = "refused"]
    /\ UNCHANGED <<history, state>>

SetSwitch(c, v) ==
    LET req == [KeepsAll EXCEPT ![Switch] = Plain(v)]
    IN  Turn(c, "switcher") /\ Call(c, UpdateBody(req, {}), UpdateMeans(req, {}))

Enable(c)  == SetSwitch(c, Zero)
Disable(c) == SetSwitch(c, True)

ReplaceAll(c) ==
    /\ Turn(c, "replacer")
    /\ \E slice \in Slices : Call(c, ReplaceBody(slice), ReplaceMeans(slice))

Patch(c) ==
    /\ Turn(c, "patcher")
    /\ \E add, remove \in SUBSET (Members \cap team.mine[c[1]]) :
           Call(c, PatchBody(add, remove), PatchMeans(add, remove))

(* The API processes the request, in time or late.                         *)
Process(c) ==
    /\ Contract!TakeEffect(c)
    /\ object' = Merge(body[c], object)
    /\ members' = Apply(body[c], members)
    /\ UNCHANGED <<body, want, team>>

(* The call comes back.                                                    *)
Answer(c) ==
    /\ \E v \in {"done", "refused", "unknown"} : Contract!End(c, v)
    /\ UNCHANGED state

Finished == /\ \A c \in Calls : Returned(c) \/ team.mine[c[1]] = {}
            /\ UNCHANGED vars

Next == \/ \E c \in Calls : \/ Update(c) \/ UpdateRejected(c) \/ Enable(c) \/ Disable(c)
                            \/ ReplaceAll(c) \/ Patch(c) \/ Process(c) \/ Answer(c)
        \/ Finished

Spec == Init /\ [][Next]_vars

-----------------------------------------------------------------------------
(* The value a field cannot hold.                                          *)
Misfit(f) == IF Kind[f] \in {"null", "node"} THEN Zero ELSE JSONNull

(* The kinds of the variables, who sends what (only a caller that looks    *)
(* after the whole list replaces it, memberships.go:55-57, and what a call *)
(* is about is its caller's), and what can be in a field: null only where  *)
(* the request type is a Null, an empty string there only as null          *)
(* (null.go:17-21), and never an empty posture node (postures.go:181-184). *)
TypeOK ==
    /\ verdict \in [Calls -> {"idle", "pending", "done", "refused", "unknown"}]
    /\ history \in Seq(Calls)
    /\ team \in Teams
    /\ object \in [Fields -> Values \union {Zero, JSONNull}]
    /\ \A f \in Fields : object[f] # Misfit(f)
    /\ members \subseteq Members
    /\ body \in [Calls -> [fields : [Fields -> Values \union {Zero, JSONNull, Absent}],
                           whole : BOOLEAN, list : SUBSET Members,
                           add : SUBSET Members, remove : SUBSET Members]]
    /\ want \in [Calls -> [Items -> Values \union {Zero, JSONNull, "in", "out", "keep"}]]
    /\ \A c \in Calls :
           /\ body[c].whole => Members \subseteq team.mine[c[1]]
           /\ \A i \in Items : want[c][i] # "keep" => i \in team.mine[c[1]]

(* What the API holds of an item.                                          *)
Held(i) == IF i \in Fields THEN object[i] ELSE InOrOut(i, members)

(* The word of call n of caller k about an item; 0 is its creation.        *)
Word(k, n, i) == IF n # 0 THEN want[<<k, n>>][i]
                 ELSE IF i \in Fields THEN Created[i] ELSE "out"

(* Whatever a caller looks after is as its last successful call meant it,  *)
(* or as it was created if there is none, however the calls of different   *)
(* callers interleave and whichever of them are processed late: keep,      *)
(* clear and set, Enable and Disable, an empty list and both halves of a   *)
(* Patch all reach the API as meant, and no call takes back what another   *)
(* caller did (null.go:5-15, policies.go:110-114 and 219-244,              *)
(* memberships.go:83-90, resources.go:91-93).  Calls that are pending or   *)
(* were left unknown must agree, because they may still be processed.      *)
LastWordStands ==
    \A k \in Callers : \A i \in team.mine[k] :
        LET about == {n \in 1 .. MaxCalls : want[<<k, n>>][i] # "keep"}
            done  == {n \in about : verdict[<<k, n>>] = "done"}
            open  == {n \in about : verdict[<<k, n>>] \in {"pending", "unknown"}}
        IN  \A last \in done \union {0} :
               /\ \A n \in done : n <= last
               /\ \A n \in open : Word(k, n, i) = Word(k, last, i)
               => Held(i) = Word(k, last, i)
=============================================================================
