----------------------------- MODULE Endpoints -----------------------------
(***************************************************************************)
(* Every service method, from its arguments to the request the API gets:   *)
(* checkID on each ID, wrapBody, the query of a list, buildPath and        *)
(* resolvePath (path.go), and how the API splits the path it receives.     *)
(* Text is a sequence of characters, of which only those with a meaning in *)
(* a path are told apart; a fixed word of a path is a character too.       *)
(***************************************************************************)
EXTENDS Integers, Sequences, Functions, SequencesExt

CONSTANTS MaxIDLength, \* bound: characters of an ID
          Bases        \* paths of the base URL, as EscapedPath returns them

ASSUME EndpointsAssumption == MaxIDLength \in Nat /\ Bases \subseteq Seq(STRING)

Slash   == "/"
Dot     == "."
Percent == "%"
QuestionMark == "?"  \* and "#": what ends a path

IDs == UNION {[1 .. n -> {"x", Dot, Slash, Percent, QuestionMark}] : n \in 0 .. MaxIDLength}

-----------------------------------------------------------------------------
(* The table of operations: the method, the path with a place for each ID, *)
(* and whether the request is a pointer the caller may leave nil.          *)
ID == "an ID"
Op(service, name, method, path, nilable) ==
    [service |-> service, name |-> name, method |-> method, path |-> path,
     nilable |-> nilable]

Get(coll)    == Op(Last(coll), "Get", "GET", Append(coll, ID), FALSE)
List(coll)   == Op(Last(coll), "List", "GET", coll, FALSE)
Create(coll) == Op(Last(coll), "Create", "POST", coll, TRUE)
Update(coll) == Op(Last(coll), "Update", "PATCH", Append(coll, ID), TRUE)
Delete(coll) == Op(Last(coll), "Delete", "DELETE", Append(coll, ID), FALSE)
Toggle(coll) == Op(Last(coll), "Enable, Disable", "PATCH", Append(coll, ID), FALSE)

ReadOnly(coll) == {Get(coll), List(coll)}
CRUD(coll)     == ReadOnly(coll) \union {Create(coll), Update(coll), Delete(coll)}
MemberList(coll) ==
    {List(coll), Op(Last(coll), "ReplaceAll", "PUT", coll, FALSE),
     Op(Last(coll), "Patch", "PATCH", coll, FALSE)}

Sites     == CRUD(<<"sites">>)
Groups    == CRUD(<<"groups">>)
Resources == CRUD(<<"resources">>)
Policies  == CRUD(<<"policies">>) \union {Toggle(<<"policies">>)}
Actors    == CRUD(<<"actors">>) \union {Toggle(<<"actors">>)}
ClientDevices ==
    {Get(<<"clients">>), List(<<"clients">>), Update(<<"clients">>), Delete(<<"clients">>),
     Op("clients", "Verify", "PUT", <<"clients", ID, "verify">>, FALSE),
     Op("clients", "Unverify", "PUT", <<"clients", ID, "unverify">>, FALSE)}
Gateways ==
    LET coll == <<"sites", ID, "gateways">>
    IN  CRUD(coll) \union
        {Op("gateways", "RotateToken", "POST", coll \o <<ID, "token", "rotate">>, FALSE)}
Memberships == MemberList(<<"groups", ID, "memberships">>)
PoolMembers == MemberList(<<"resources", ID, "pool_members">>)
AuthProviders ==
    UNION {ReadOnly(<<kind>>) : kind \in
              {"email_otp_auth_providers", "oidc_auth_providers", "google_auth_providers",
               "entra_auth_providers", "okta_auth_providers", "github_auth_providers"}}
Directories ==
    UNION {ReadOnly(<<kind>>) : kind \in
              {"entra_directories", "google_directories", "okta_directories"}}

Operations == UNION {Sites, Groups, Resources, Policies, Actors, ClientDevices, Gateways,
                     Memberships, PoolMembers, AuthProviders, Directories}

(* A string option that is not set.                                        *)
NoText == ""

(* The filters of each service's list options: strings, of which "" is no   *)
(* filter, and pointers, of which nil is none.                              *)
StringFilters(service) ==
    CASE service = "groups"    -> {"name", "entity_type"}
      [] service = "actors"    -> {"name", "email", "type"}
      [] service = "clients"   -> {"name", "firezone_id", "actor_id", "client_type"}
      [] service = "gateways"  -> {"name", "ipv4", "ipv6"}
      [] service = "resources" -> {"name", "type", "site_id", "address", "ip_stack"}
      [] service = "policies"  -> {"group_id", "resource_id"}
      [] service \in {"memberships", "pool_members"} -> {}
      [] OTHER                 -> {"name"}

(* Unsynced groups have the directory "".                                   *)
PointerFilters(service) ==
    CASE service = "groups"  -> [directory_id : {"nil", NoText, "x"}]
      [] service = "clients" ->
             [online : {"nil", "false", "true"}, last_seen_before : {"nil", "x"},
              last_seen_after : {"nil", "x"}]
      [] OTHER               -> {<<>>}

(* The options of a list, a pointer: empty or of one element.               *)
ZeroOptions(service) ==
    [limit |-> 0, cursor |-> NoText, strings |-> [k \in StringFilters(service) |-> NoText],
     pointers |-> [k \in UNION {DOMAIN p : p \in PointerFilters(service)} |-> "nil"]]
Options(operation) ==
    IF operation.name # "List" THEN {<<>>}
    ELSE {<<>>} \union
         {<<o>> : o \in [limit : {-1, 0, 5}, cursor : {NoText, "x"},
                         strings : [StringFilters(operation.service) -> {NoText, "x"}],
                         pointers : PointerFilters(operation.service)]}

Places(op) == {i \in DOMAIN op.path : op.path[i] = ID}

-----------------------------------------------------------------------------
\* Mutant: dot segments let through.
EmptyOnly(id) == IF id = <<>> THEN "missing ID" ELSE "ok"

checkID(id) ==
    CASE id = <<>>                     -> "missing ID"
      [] id \in {<<Dot>>, <<Dot, Dot>>} -> "not a path segment"
      [] OTHER                         -> "ok"

\* Mutant: slashes escaped, other signs left alone.
EscapeSlashOnly(segment) == [i \in DOMAIN segment |->
                                IF segment[i] = Slash THEN "%2F" ELSE segment[i]]

(* url.PathEscape.                                                         *)
PathEscape(segment) == [i \in DOMAIN segment |->
                           CASE segment[i] = Slash        -> "%2F"
                             [] segment[i] = Percent      -> "%25"
                             [] segment[i] = QuestionMark -> "%3F"
                             [] OTHER                     -> segment[i]]

(* The segments of a path, joined by slashes.                              *)
buildPath(segments) ==
    LET joined[n \in 0 .. Len(segments)] ==
            IF n = 0 THEN <<>>
            ELSE joined[n - 1] \o (IF n = 1 THEN <<>> ELSE <<Slash>>)
                               \o PathEscape(segments[n])
    IN  joined[Len(segments)]

\* Mutant: a slash whatever the base ends with.
ResolveUntrimmed(base, requestPath) == base \o <<Slash>> \o requestPath

resolvePath(base, requestPath) ==
    LET trimmed == IF base # <<>> /\ Last(base) = Slash THEN Front(base) ELSE base
    IN  trimmed \o <<Slash>> \o requestPath

(* q.Set of each parameter: one that is set already is replaced.           *)
SetAll(q, params) == [k \in DOMAIN q \union DOMAIN params |->
                         IF k \in DOMAIN params THEN params[k] ELSE q[k]]

NonEmpty(params) == [k \in {k \in DOMAIN params : params[k] # NoText} |-> params[k]]

(* strconv.Itoa.                                                           *)
Itoa(n) == ToString(n)

(* The query of a list, each parameter set only when it is not empty.      *)
listOptionsToQuery(o) ==
    NonEmpty([limit |-> IF o.limit > 0 THEN Itoa(o.limit) ELSE NoText,
              page_cursor |-> o.cursor])

filterQuery(o, filters) == SetAll(listOptionsToQuery(o), NonEmpty(filters))

\* Mutant: every filter through filterQuery.
ListQueryOfStrings(o) ==
    filterQuery(o, SetAll(o.strings, [k \in DOMAIN o.pointers |->
                      IF o.pointers[k] = "nil" THEN NoText ELSE o.pointers[k]]))

(* The pointers that are not nil are added to it, whatever they point to.  *)
ListQuery(o) ==
    SetAll(filterQuery(o, o.strings),
           [k \in {k \in DOMAIN o.pointers : o.pointers[k] # "nil"} |-> o.pointers[k]])

-----------------------------------------------------------------------------
(* What a server makes of a path: it is split at its slashes, dot segments  *)
(* are resolved (by a proxy, or the server), empty segments are skipped,   *)
(* and each segment is decoded.  A percent sign that is not part of an     *)
(* escape is an error, and so is the rest of the path after a sign that    *)
(* ends it.                                                                *)
AddCharacter(segments, c) ==
    IF c = Slash THEN Append(segments, <<>>)
    ELSE [segments EXCEPT ![Len(segments)] = Append(@, c)]

Split(text) ==
    LET parts[n \in 0 .. Len(text)] ==
            IF n = 0 THEN << <<>> >> ELSE AddCharacter(parts[n - 1], text[n])
    IN  parts[Len(text)]

Walk(kept, s) == CASE s \in {<<>>, <<Dot>>} -> kept
                   [] s = <<Dot, Dot>>      -> IF kept = <<>> THEN kept ELSE Front(kept)
                   [] OTHER                 -> Append(kept, s)

Normalise(segments) ==
    LET walked[n \in 0 .. Len(segments)] ==
            IF n = 0 THEN <<>> ELSE Walk(walked[n - 1], segments[n])
    IN  walked[Len(segments)]

Decode(segment) == [i \in DOMAIN segment |->
                       CASE segment[i] = "%2F" -> Slash
                         [] segment[i] = "%25" -> Percent
                         [] segment[i] = "%3F" -> QuestionMark
                         [] segment[i] \in {Percent, QuestionMark} -> "malformed"
                         [] OTHER              -> segment[i]]

Received(text) ==
    LET segments == Normalise(Split(text))
    IN  [i \in DOMAIN segments |-> Decode(segments[i])]

-----------------------------------------------------------------------------
VARIABLES op, ids, \* the method called and the ID for each place of its path
          req,     \* the request argument: "given" or "nil"
          opts,    \* the options of a list
          base,    \* of the client
          pc,      \* "check", "body", "send" or "done"
          next,    \* the place checked next
          result,  \* "sent", or the error returned
          target,  \* the path on the wire
          query    \* and the query

vars == <<op, ids, req, opts, base, pc, next, result, target, query>>

Init == /\ op \in Operations
        /\ ids \in [Places(op) -> IDs]
        /\ req \in IF op.nilable THEN {"given", "nil"} ELSE {"given"}
        /\ opts \in Options(op)
        /\ base \in Bases
        /\ pc = "check" /\ next = 1
        /\ result = "none" /\ target = <<>> /\ query = <<>>

Unchecked == {i \in Places(op) : i >= next}

Reject(error) == /\ pc' = "done" /\ result' = error
                 /\ UNCHANGED <<op, ids, req, opts, base, next, target, query>>

(* One checkID after the other, in the order of the path.                   *)
CheckID ==
    /\ pc = "check" /\ Unchecked # {}
    /\ LET i == CHOOSE i \in Unchecked : \A j \in Unchecked : i <= j
       IN  \/ /\ checkID(ids[i]) = "ok"
              /\ next' = i + 1
              /\ UNCHANGED <<op, ids, req, opts, base, pc, result, target, query>>
           \/ /\ checkID(ids[i]) # "ok"
              /\ Reject(checkID(ids[i]))

(* wrapBody, where there is a body, refuses a nil request.                  *)
WrapBody ==
    /\ pc = "check" /\ Unchecked = {}
    /\ \/ /\ req = "given"
          /\ pc' = "send"
          /\ UNCHANGED <<op, ids, req, opts, base, next, result, target, query>>
       \/ req = "nil" /\ Reject("nil request")

(* The query, with options that are nil replaced by their zero value;       *)
(* buildPath; and rawRequest with resolvePath.                             *)
Send ==
    /\ pc = "send"
    /\ LET segments == [i \in DOMAIN op.path |->
                           IF op.path[i] = ID THEN ids[i] ELSE <<op.path[i]>>]
       IN  target' = resolvePath(base, buildPath(segments))
    /\ query' = IF op.name = "List"
                THEN ListQuery(IF opts = <<>> THEN ZeroOptions(op.service) ELSE opts[1])
                ELSE <<>>
    /\ pc' = "done" /\ result' = "sent"
    /\ UNCHANGED <<op, ids, req, opts, base, next>>

Done == pc = "done" /\ UNCHANGED vars

Next == CheckID \/ WrapBody \/ Send \/ Done

Spec == Init /\ [][Next]_vars

-----------------------------------------------------------------------------
(* A request reaches the endpoint of its method with the IDs it was given,  *)
(* whatever characters they hold and whatever the base URL ends with: no    *)
(* ID is split, merged with a neighbour, decoded to something else or lost  *)
(* (path.go:13-19 and 40-51, TestBaseURLPathPrefixPreserved).               *)
RoutedAsMeant ==
    result = "sent" =>
        Received(target) = Received(base) \o
            [i \in DOMAIN op.path |-> IF op.path[i] = ID THEN ids[i] ELSE <<op.path[i]>>]

(* A trailing slash of the base URL makes no empty segment                  *)
(* (TestBaseURLPathPrefixPreserved), and neither does an ID.                *)
NoEmptySegment ==
    result = "sent" => \A i \in 2 .. Len(Split(target)) : Split(target)[i] # <<>>

(* A call with an unusable ID or a nil request fails before anything is     *)
(* sent, and with the error of the first thing that is wrong in the order   *)
(* of the arguments, the service's own ID first (path.go:16-19,             *)
(* firezone.go:356-365).                                                    *)
RejectsBeforeSending ==
    LET bad == {i \in Places(op) : ids[i] \in {<<>>, <<Dot>>, <<Dot, Dot>>}}
    IN  pc = "done" =>
            /\ result = "sent" <=> bad = {} /\ req = "given"
            /\ result = "nil request" <=> bad = {} /\ req = "nil"
            /\ result = "missing ID" <=>
                   \E i \in bad : ids[i] = <<>> /\ \A j \in bad : i <= j

(* What a filter lets through: the objects with this value, or all.         *)
Selects(k) == IF k \in DOMAIN query THEN <<"only", query[k]>> ELSE <<"all">>

(* A list shows the objects that the caller asked for: an option left at    *)
(* its zero value filters nothing, an option that is set filters with it,  *)
(* and a pointer filters with whatever it points to, so that unsynced      *)
(* groups and clients that are offline can be asked for; nil options are   *)
(* the API's own; and no filter takes the place of another or of the page  *)
(* (groups.go:70-77, clients.go:91-93, firezone.go:524-527).               *)
FiltersAsMeant ==
    result = "sent" /\ op.name = "List" =>
        IF opts = <<>> THEN query = <<>>
        ELSE LET o == opts[1]
                 Given(text, none) == IF text = none THEN <<"all">> ELSE <<"only", text>>
             IN  /\ \A k \in DOMAIN o.strings : Selects(k) = Given(o.strings[k], NoText)
                 /\ \A k \in DOMAIN o.pointers : Selects(k) = Given(o.pointers[k], "nil")
                 /\ Selects("page_cursor") = Given(o.cursor, NoText)
                 /\ Selects("limit") = IF o.limit > 0 THEN <<"only", Itoa(o.limit)>>
                                       ELSE <<"all">>
=============================================================================
