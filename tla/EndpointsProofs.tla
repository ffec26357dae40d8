-------------------------- MODULE EndpointsProofs --------------------------
(***************************************************************************)
(* Theorems about Endpoints, for IDs of any length, every base URL and     *)
(* every service method: what is rejected before anything is sent, which   *)
(* objects a list asks for, and that a path arrives as it was meant.       *)
(***************************************************************************)
EXTENDS Endpoints, SequenceTheorems, WellFoundedInduction, TLAPS

(* A set of numbers has a least one.                                       *)
LEMMA LeastNumber ==
    ASSUME NEW T, T \subseteq Nat, T # {}
    PROVE  \E m \in T : \A j \in T : m <= j
<1>1. PICK m \in T : \A j \in T : ~(<<j, m>> \in OpToRel(<, Nat))
  BY NatLessThanWellFounded, WFMin, Zenon
<1>2. \A j \in T : ~(j < m)
  BY <1>1 DEF OpToRel
<1> QED BY <1>2

(* The places of a path are numbers, and only a body makes a request       *)
(* argument that may be nil.                                               *)
PathLike(path) == \E n \in Nat : DOMAIN path = 1 .. n

LEMMA CollectionPaths ==
    ASSUME NEW coll, NEW n \in Nat, DOMAIN coll = 1 .. n,
           DOMAIN Append(coll, ID) = 1 .. n + 1
    PROVE  /\ \A o \in CRUD(coll) : PathLike(o.path)
           /\ \A o \in MemberList(coll) : PathLike(o.path)
           /\ \A o \in ReadOnly(coll) : PathLike(o.path)
           /\ PathLike(Toggle(coll).path)
<1>1. PathLike(coll) /\ PathLike(Append(coll, ID))
  BY DEF PathLike
<1>2. /\ \A o \in CRUD(coll) : o.path \in {coll, Append(coll, ID)}
      /\ \A o \in MemberList(coll) : o.path \in {coll, Append(coll, ID)}
      /\ \A o \in ReadOnly(coll) : o.path \in {coll, Append(coll, ID)}
      /\ Toggle(coll).path \in {coll, Append(coll, ID)}
  BY DEF CRUD, MemberList, ReadOnly, Toggle, Get, List, Create, Update, Delete, Op
<1> QED BY <1>1, <1>2

LEMMA OperationPaths == \A o \in Operations : PathLike(o.path)
<1>1. ASSUME NEW w
      PROVE  /\ \A o \in CRUD(<<w>>) : PathLike(o.path)
             /\ \A o \in ReadOnly(<<w>>) : PathLike(o.path)
             /\ PathLike(Toggle(<<w>>).path)
  <2>1. DOMAIN <<w>> = 1 .. 1 /\ DOMAIN Append(<<w>>, ID) = 1 .. 1 + 1
    OBVIOUS
  <2> QED BY <2>1, CollectionPaths
<1>2. ASSUME NEW a, NEW b
      PROVE  LET coll == <<a, ID, b>>
             IN  /\ \A o \in CRUD(coll) : PathLike(o.path)
                 /\ \A o \in MemberList(coll) : PathLike(o.path)
  <2>1. DOMAIN <<a, ID, b>> = 1 .. 3 /\ DOMAIN Append(<<a, ID, b>>, ID) = 1 .. 3 + 1
    OBVIOUS
  <2> QED BY <2>1, CollectionPaths
<1>3. \A o \in Sites \union Groups \union Resources : PathLike(o.path)
  BY <1>1 DEF Sites, Groups, Resources
<1>4. \A o \in Policies \union Actors : PathLike(o.path)
  BY <1>1 DEF Policies, Actors
<1>5. \A o \in Memberships \union PoolMembers : PathLike(o.path)
  BY <1>2 DEF Memberships, PoolMembers
<1>6. \A o \in AuthProviders \union Directories : PathLike(o.path)
  BY <1>1 DEF AuthProviders, Directories
<1>7. \A o \in ClientDevices : PathLike(o.path)
  <2>1. \A o \in ClientDevices :
           \/ o \in CRUD(<<"clients">>)
           \/ o.path = <<"clients", ID, "verify">>
           \/ o.path = <<"clients", ID, "unverify">>
    BY DEF ClientDevices, CRUD, ReadOnly, Op
  <2>2. \A w : PathLike(<<"clients", ID, w>>)
    <3>1. \A w : DOMAIN <<"clients", ID, w>> = 1 .. 3
      OBVIOUS
    <3> QED BY <3>1 DEF PathLike
  <2> QED BY <1>1, <2>1, <2>2
<1>8. \A o \in Gateways : PathLike(o.path)
  <2>1. PathLike(<<"sites", ID, "gateways">> \o <<ID, "token", "rotate">>)
    <3>1. DOMAIN (<<"sites", ID, "gateways">> \o <<ID, "token", "rotate">>) = 1 .. 6
      OBVIOUS
    <3> QED BY <3>1 DEF PathLike
  <2>2. \A o \in Gateways :
           \/ o \in CRUD(<<"sites", ID, "gateways">>)
           \/ o.path = <<"sites", ID, "gateways">> \o <<ID, "token", "rotate">>
    BY DEF Gateways, Op
  <2> QED BY <1>2, <2>1, <2>2
<1> QED BY <1>3, <1>4, <1>5, <1>6, <1>7, <1>8 DEF Operations

(* The place checked next: the first that has not been checked.            *)
LEMMA FirstUnchecked ==
    ASSUME PathLike(op.path), next \in Nat, Unchecked # {}
    PROVE  LET i == CHOOSE i \in Unchecked : \A j \in Unchecked : i <= j
           IN  i \in Unchecked /\ \A j \in Unchecked : i <= j
<1>1. Unchecked \subseteq Nat
  BY DEF Unchecked, Places, PathLike
<1>2. \E i \in Unchecked : \A j \in Unchecked : i <= j
  BY <1>1, LeastNumber
<1> QED BY <1>2

-----------------------------------------------------------------------------
Bad(id) == id \in {<<>>, <<Dot>>, <<Dot, Dot>>}

(* What checkID says of an ID (path.go:29-37).                             *)
LEMMA CheckIDTells ==
    ASSUME NEW id
    PROVE  /\ checkID(id) = "ok" <=> ~Bad(id)
           /\ checkID(id) = "missing ID" <=> id = <<>>
           /\ checkID(id) \in {"ok", "missing ID", "not a path segment"}
<1>1. <<Dot>> # <<>> /\ <<Dot, Dot>> # <<>>
  OBVIOUS
<1> QED BY <1>1 DEF checkID, Bad

(* What the checks made so far have found.                                 *)
CheckInv ==
    /\ op \in Operations /\ next \in Nat
    /\ req \in {"given", "nil"}
    /\ pc \in {"check", "send", "done"}
    /\ pc # "done" => result = "none"
    /\ pc = "check" => \A i \in Places(op) : i < next => ~Bad(ids[i])
    /\ pc = "send" => req = "given" /\ \A i \in Places(op) : ~Bad(ids[i])
    /\ RejectsBeforeSending

(* A call is sent exactly when every ID is a path segment and its request  *)
(* is not nil, and fails with the error of the first ID that is not        *)
(* (path.go:16-19, firezone.go:356-365).                                   *)
THEOREM NothingBadIsSent == Spec => []RejectsBeforeSending
<1>1. Init => CheckInv
  BY DEF Init, CheckInv, RejectsBeforeSending
<1>2. CheckInv /\ [Next]_vars => CheckInv'
  <2> SUFFICES ASSUME CheckInv, [Next]_vars PROVE CheckInv'
    OBVIOUS
  <2>1. PathLike(op.path) /\ Places(op) \subseteq Nat
    BY OperationPaths DEF CheckInv, PathLike, Places
  <2>2. CASE CheckID
    <3> DEFINE i == CHOOSE i \in Unchecked : \A j \in Unchecked : i <= j
    <3>1. i \in Unchecked /\ \A j \in Unchecked : i <= j
      BY <2>1, <2>2, FirstUnchecked DEF CheckID, CheckInv
    <3>2. \/ /\ checkID(ids[i]) = "ok"
             /\ next' = i + 1
             /\ UNCHANGED <<op, ids, req, pc, result>>
          \/ /\ checkID(ids[i]) # "ok"
             /\ pc' = "done" /\ result' = checkID(ids[i])
             /\ UNCHANGED <<op, ids, req, next>>
      BY <2>2 DEF CheckID, Reject
    <3> HIDE DEF i
    <3>3. /\ i \in Places(op) /\ i \in Nat
          /\ \A j \in Places(op) : j < i => ~Bad(ids[j])
      BY <2>1, <2>2, <3>1 DEF CheckID, CheckInv, Unchecked
    <3>4. CASE checkID(ids[i]) = "ok"
      <4>1. ~Bad(ids[i])
        BY <3>4, CheckIDTells
      <4>2. \A j \in Places(op) : j < i + 1 => ~Bad(ids[j])
        BY <2>1, <3>3, <4>1
      <4>3. pc = "check" /\ next' = i + 1 /\ UNCHANGED <<op, ids, req, pc, result>>
        BY <2>2, <3>2, <3>4 DEF CheckID
      <4> QED BY <3>3, <4>2, <4>3 DEF CheckInv, RejectsBeforeSending, Places, Bad
    <3>5. CASE checkID(ids[i]) # "ok"
      <4>1. Bad(ids[i]) /\ result' \in {"missing ID", "not a path segment"}
        BY <3>2, <3>5, CheckIDTells
      <4>2. result' = "missing ID" <=> ids[i] = <<>>
        BY <3>2, <3>5, CheckIDTells
      <4>3. \A j \in Places(op) : Bad(ids[j]) => i <= j
        BY <2>1, <3>3
      <4>4. \A k \in Places(op) :
               Bad(ids[k]) /\ (\A j \in Places(op) : Bad(ids[j]) => k <= j) => k = i
        <5> SUFFICES ASSUME NEW k \in Places(op), Bad(ids[k]),
                            \A j \in Places(op) : Bad(ids[j]) => k <= j
                     PROVE  k = i
          OBVIOUS
        <5>1. i <= k /\ k <= i
          BY <3>3, <4>1, <4>3
        <5> QED BY <2>1, <3>3, <5>1
      <4>5. pc' = "done" /\ UNCHANGED <<op, ids, req, next>>
        BY <3>2, <3>5
      <4> HIDE DEF Places
      <4>6. RejectsBeforeSending'
        BY <3>3, <4>1, <4>2, <4>3, <4>4, <4>5 DEF RejectsBeforeSending, Bad, Places
      <4> QED BY <4>5, <4>6 DEF CheckInv
    <3> QED BY <3>4, <3>5
  <2>3. CASE WrapBody
    <3>1. \A i \in Places(op) : ~Bad(ids[i])
      <4>1. pc = "check" /\ Unchecked = {} /\ next \in Nat
        BY <2>3 DEF WrapBody, CheckInv
      <4>2. \A i \in Places(op) : i < next
        BY <2>1, <4>1 DEF Unchecked
      <4> QED BY <4>1, <4>2 DEF CheckInv
    <3> QED BY <2>3, <3>1 DEF WrapBody, Reject, CheckInv, RejectsBeforeSending, Bad,
                              Places
  <2>4. CASE Send
    BY <2>4 DEF Send, CheckInv, RejectsBeforeSending, Bad, Places
  <2>5. CASE UNCHANGED vars
    BY <2>5 DEF vars, CheckInv, RejectsBeforeSending, Places
  <2> QED BY <2>2, <2>3, <2>4, <2>5 DEF Next, Done
<1>3. CheckInv => RejectsBeforeSending
  BY DEF CheckInv
<1> QED BY <1>1, <1>2, <1>3, PTL DEF Spec

-----------------------------------------------------------------------------
(* The queries of lists.                                                   *)

(* No number is written as the empty text.                                 *)
Decimal == \A n \in Nat : Itoa(n) # NoText

ListOptionsOf(service) ==
    [limit : {-1, 0, 5}, cursor : {NoText, "x"},
     strings : [StringFilters(service) -> {NoText, "x"}], pointers : PointerFilters(service)]

(* No filter has the name of another, or of a parameter of the page.       *)
LEMMA KeysApart ==
    ASSUME NEW service, NEW p \in PointerFilters(service)
    PROVE  /\ "limit" \notin StringFilters(service)
           /\ "page_cursor" \notin StringFilters(service)
           /\ "limit" \notin DOMAIN p /\ "page_cursor" \notin DOMAIN p
           /\ \A k \in DOMAIN p : k \notin StringFilters(service)
<1>1. "limit" \notin StringFilters(service) /\ "page_cursor" \notin StringFilters(service)
  BY DEF StringFilters
<1>2. \/ service = "groups" /\ DOMAIN p = {"directory_id"}
      \/ service = "clients" /\ DOMAIN p = {"online", "last_seen_before", "last_seen_after"}
      \/ DOMAIN p = {}
  <2>1. CASE service = "groups"
    <3>1. p \in [directory_id : {"nil", NoText, "x"}]
      BY <2>1 DEF PointerFilters
    <3> QED BY <2>1, <3>1
  <2>2. CASE service = "clients"
    <3>1. p \in [online : {"nil", "false", "true"}, last_seen_before : {"nil", "x"},
                 last_seen_after : {"nil", "x"}]
      BY <2>2 DEF PointerFilters
    <3> QED BY <2>2, <3>1
  <2>3. CASE service # "groups" /\ service # "clients"
    <3>1. p = <<>>
      BY <2>3 DEF PointerFilters
    <3> QED BY <3>1
  <2> QED BY <2>1, <2>2, <2>3
<1>3. CASE service = "groups" /\ DOMAIN p = {"directory_id"}
  BY <1>1, <1>3 DEF StringFilters
<1>4. CASE service = "clients" /\ DOMAIN p = {"online", "last_seen_before", "last_seen_after"}
  BY <1>1, <1>4 DEF StringFilters
<1> QED BY <1>1, <1>2, <1>3, <1>4

(* Setting parameters: the new ones are there, and no other has changed.   *)
LEMMA SetAllTells ==
    ASSUME NEW q, NEW params, NEW k
    PROVE  /\ k \in DOMAIN SetAll(q, params) <=> k \in DOMAIN q \/ k \in DOMAIN params
           /\ k \in DOMAIN params => SetAll(q, params)[k] = params[k]
           /\ k \in DOMAIN q /\ k \notin DOMAIN params => SetAll(q, params)[k] = q[k]
BY DEF SetAll

LEMMA NonEmptyTells ==
    ASSUME NEW params, NEW k
    PROVE  /\ k \in DOMAIN NonEmpty(params) <=> k \in DOMAIN params /\ params[k] # NoText
           /\ k \in DOMAIN NonEmpty(params) => NonEmpty(params)[k] = params[k]
BY DEF NonEmpty

(* The parameters of the page (firezone.go:510-522).                       *)
LEMMA PageParameters ==
    ASSUME Decimal, NEW o, o.limit \in Int, NEW k
    PROVE  LET q == listOptionsToQuery(o)
           IN  /\ k \in DOMAIN q <=> \/ k = "limit" /\ o.limit > 0
                                     \/ k = "page_cursor" /\ o.cursor # NoText
               /\ "limit" \in DOMAIN q => q["limit"] = Itoa(o.limit)
               /\ "page_cursor" \in DOMAIN q => q["page_cursor"] = o.cursor
<1> DEFINE params == [limit |-> IF o.limit > 0 THEN Itoa(o.limit) ELSE NoText,
                      page_cursor |-> o.cursor]
<1>1. /\ DOMAIN params = {"limit", "page_cursor"}
      /\ params["limit"] = IF o.limit > 0 THEN Itoa(o.limit) ELSE NoText
      /\ params["page_cursor"] = o.cursor
  OBVIOUS
<1>2. o.limit > 0 => Itoa(o.limit) # NoText
  BY DEF Decimal
<1>3. listOptionsToQuery(o) = NonEmpty(params)
  BY DEF listOptionsToQuery
<1> HIDE DEF params
<1>4. /\ \A j : j \in DOMAIN NonEmpty(params) <=> j \in DOMAIN params /\ params[j] # NoText
      /\ \A j : j \in DOMAIN NonEmpty(params) => NonEmpty(params)[j] = params[j]
  BY NonEmptyTells
<1> QED BY <1>1, <1>2, <1>3, <1>4

(* What a parameter of the query of a list says.                           *)
LEMMA QueryTells ==
    ASSUME Decimal, NEW service, NEW o, o.limit \in Int,
           DOMAIN o.strings = StringFilters(service),
           "limit" \notin StringFilters(service),
           "page_cursor" \notin StringFilters(service),
           "limit" \notin DOMAIN o.pointers, "page_cursor" \notin DOMAIN o.pointers,
           \A k \in DOMAIN o.pointers : k \notin StringFilters(service),
           NEW k
    PROVE  LET q == ListQuery(o)
           IN  /\ k \in DOMAIN q <=>
                     \/ k = "limit" /\ o.limit > 0
                     \/ k = "page_cursor" /\ o.cursor # NoText
                     \/ k \in StringFilters(service) /\ o.strings[k] # NoText
                     \/ k \in DOMAIN o.pointers /\ o.pointers[k] # "nil"
               /\ k \in DOMAIN q =>
                     /\ k = "limit" => q[k] = Itoa(o.limit)
                     /\ k = "page_cursor" => q[k] = o.cursor
                     /\ k \in StringFilters(service) => q[k] = o.strings[k]
                     /\ k \in DOMAIN o.pointers => q[k] = o.pointers[k]
<1> DEFINE page    == listOptionsToQuery(o)
           strings == NonEmpty(o.strings)
           texts   == SetAll(page, strings)
           set     == [j \in {j \in DOMAIN o.pointers : o.pointers[j] # "nil"} |->
                          o.pointers[j]]
<1>1. ListQuery(o) = SetAll(texts, set)
  BY DEF ListQuery, filterQuery
<1>2. /\ k \in DOMAIN set <=> k \in DOMAIN o.pointers /\ o.pointers[k] # "nil"
      /\ k \in DOMAIN set => set[k] = o.pointers[k]
  OBVIOUS
<1>3. /\ k \in DOMAIN strings <=> k \in StringFilters(service) /\ o.strings[k] # NoText
      /\ k \in DOMAIN strings => strings[k] = o.strings[k]
  BY NonEmptyTells
<1>4. /\ k \in DOMAIN page <=> \/ k = "limit" /\ o.limit > 0
                               \/ k = "page_cursor" /\ o.cursor # NoText
      /\ k = "limit" /\ k \in DOMAIN page => page[k] = Itoa(o.limit)
      /\ k = "page_cursor" /\ k \in DOMAIN page => page[k] = o.cursor
  BY PageParameters
<1> HIDE DEF page, strings, set
<1>5. /\ k \in DOMAIN texts <=> k \in DOMAIN page \/ k \in DOMAIN strings
      /\ k \in DOMAIN strings => texts[k] = strings[k]
      /\ k \in DOMAIN page /\ k \notin DOMAIN strings => texts[k] = page[k]
  BY SetAllTells
<1> HIDE DEF texts
<1>6. /\ k \in DOMAIN SetAll(texts, set) <=> k \in DOMAIN texts \/ k \in DOMAIN set
      /\ k \in DOMAIN set => SetAll(texts, set)[k] = set[k]
      /\ k \in DOMAIN texts /\ k \notin DOMAIN set => SetAll(texts, set)[k] = texts[k]
  BY SetAllTells
<1>7. k \in {"limit", "page_cursor"} => k \notin DOMAIN strings /\ k \notin DOMAIN set
  BY <1>2, <1>3
<1>8. k \in StringFilters(service) => k \notin DOMAIN set /\ k \notin DOMAIN page
  BY <1>2, <1>4
<1>9. k \in DOMAIN o.pointers => k \notin DOMAIN strings /\ k \notin DOMAIN page
  BY <1>3, <1>4
<1> QED BY <1>1, <1>2, <1>3, <1>4, <1>5, <1>6, <1>7, <1>8, <1>9

(* What has been sent is the query of the options that were given.         *)
QueryInv ==
    /\ opts \in Options(op)
    /\ result = "sent" /\ op.name = "List" =>
          query = ListQuery(IF opts = <<>> THEN ZeroOptions(op.service) ELSE opts[1])

(* Options that are nil set no parameter (auth_providers.go:254-262).      *)
LEMMA NilOptions ==
    ASSUME Decimal, NEW service
    PROVE  ListQuery(ZeroOptions(service)) = <<>>
<1> DEFINE o == ZeroOptions(service)
<1>1. /\ o.limit = 0 /\ o.cursor = NoText
      /\ DOMAIN o.strings = StringFilters(service)
      /\ \A k \in StringFilters(service) : o.strings[k] = NoText
      /\ DOMAIN o.pointers = UNION {DOMAIN p : p \in PointerFilters(service)}
      /\ \A k \in DOMAIN o.pointers : o.pointers[k] = "nil"
  BY DEF ZeroOptions
<1>2. /\ "limit" \notin StringFilters(service)
      /\ "page_cursor" \notin StringFilters(service)
  BY DEF StringFilters
<1>3. /\ "limit" \notin DOMAIN o.pointers /\ "page_cursor" \notin DOMAIN o.pointers
      /\ \A k \in DOMAIN o.pointers : k \notin StringFilters(service)
  BY <1>1, KeysApart
<1> HIDE DEF o
<1>4. \A k : k \notin DOMAIN ListQuery(o)
  <2> TAKE k
  <2>1. o.limit \in Int
    BY <1>1
  <2>2. k \in DOMAIN ListQuery(o) <=>
           \/ k = "limit" /\ o.limit > 0
           \/ k = "page_cursor" /\ o.cursor # NoText
           \/ k \in StringFilters(service) /\ o.strings[k] # NoText
           \/ k \in DOMAIN o.pointers /\ o.pointers[k] # "nil"
    BY <1>1, <1>2, <1>3, <2>1, QueryTells
  <2> QED BY <1>1, <2>2
<1>5. ListQuery(o) = [k \in DOMAIN ListQuery(o) |-> ListQuery(o)[k]]
  BY DEF ListQuery, SetAll
<1>6. DOMAIN ListQuery(o) = {}
  BY <1>4
<1>7. ListQuery(o) = <<>>
  BY <1>5, <1>6
<1> QED BY <1>7 DEF o

(* A list asks for the objects the caller meant: nil options and options   *)
(* at their zero value filter nothing, set options filter with what they   *)
(* are set to, a pointer with whatever it points to, and none takes the    *)
(* place of another or of the page (groups.go:70-77, firezone.go:524-536). *)
THEOREM FiltersMeanWhatTheySay ==
    ASSUME Decimal
    PROVE  Spec => []FiltersAsMeant
<1>1. Init => QueryInv
  BY DEF Init, QueryInv
<1>2. QueryInv /\ [Next]_vars => QueryInv'
  <2> SUFFICES ASSUME QueryInv, [Next]_vars PROVE QueryInv'
    OBVIOUS
  <2>1. CASE CheckID
    <3>1. UNCHANGED <<op, opts, query>> /\ (result' = "sent" => result = "sent")
      <4>1. \A id : checkID(id) # "sent"
        BY CheckIDTells
      <4> QED BY <2>1, <4>1 DEF CheckID, Reject
    <3> QED BY <3>1 DEF QueryInv
  <2>2. CASE WrapBody
    BY <2>2 DEF WrapBody, Reject, QueryInv
  <2>3. CASE Send
    BY <2>3 DEF Send, QueryInv
  <2>4. CASE UNCHANGED vars
    BY <2>4 DEF vars, QueryInv
  <2> QED BY <2>1, <2>2, <2>3, <2>4 DEF Next, Done
<1>3. QueryInv => FiltersAsMeant
  <2> SUFFICES ASSUME QueryInv, result = "sent", op.name = "List" PROVE FiltersAsMeant
    BY DEF FiltersAsMeant
  <2>1. CASE opts = <<>>
    <3>1. query = <<>>
      BY <2>1, NilOptions DEF QueryInv
    <3> QED BY <2>1, <3>1 DEF FiltersAsMeant
  <2>2. CASE opts # <<>>
    <3> DEFINE o == opts[1]
    <3>1. o \in ListOptionsOf(op.service)
      <4>1. PICK x \in ListOptionsOf(op.service) : opts = <<x>>
        BY <2>2 DEF QueryInv, Options, ListOptionsOf
      <4> QED BY <4>1
    <3>2. /\ o.limit \in Int /\ DOMAIN o.strings = StringFilters(op.service)
          /\ o.pointers \in PointerFilters(op.service)
      <4>1. -1 \in Int /\ 0 \in Int /\ 5 \in Int
        OBVIOUS
      <4> QED BY <3>1, <4>1 DEF ListOptionsOf
    <3>3. query = ListQuery(o)
      BY <2>2 DEF QueryInv
    <3>4. /\ "limit" \notin StringFilters(op.service)
          /\ "page_cursor" \notin StringFilters(op.service)
          /\ "limit" \notin DOMAIN o.pointers /\ "page_cursor" \notin DOMAIN o.pointers
          /\ \A k \in DOMAIN o.pointers : k \notin StringFilters(op.service)
      BY <3>2, KeysApart
    <3>5. \A k : /\ k \in DOMAIN query <=>
                       \/ k = "limit" /\ o.limit > 0
                       \/ k = "page_cursor" /\ o.cursor # NoText
                       \/ k \in StringFilters(op.service) /\ o.strings[k] # NoText
                       \/ k \in DOMAIN o.pointers /\ o.pointers[k] # "nil"
                 /\ k \in DOMAIN query =>
                       /\ k = "limit" => query[k] = Itoa(o.limit)
                       /\ k = "page_cursor" => query[k] = o.cursor
                       /\ k \in StringFilters(op.service) => query[k] = o.strings[k]
                       /\ k \in DOMAIN o.pointers => query[k] = o.pointers[k]
      BY <3>2, <3>3, <3>4, QueryTells
    <3> HIDE DEF o
    <3> DEFINE Given(text, none) == IF text = none THEN <<"all">> ELSE <<"only", text>>
    <3>6. \A k \in DOMAIN o.strings : Selects(k) = Given(o.strings[k], NoText)
      BY <3>2, <3>4, <3>5 DEF Selects
    <3>7. \A k \in DOMAIN o.pointers : Selects(k) = Given(o.pointers[k], "nil")
      BY <3>2, <3>4, <3>5 DEF Selects
    <3>8. Selects("page_cursor") = Given(o.cursor, NoText)
      BY <3>4, <3>5 DEF Selects
    <3>9. Selects("limit") = IF o.limit > 0 THEN <<"only", Itoa(o.limit)>> ELSE <<"all">>
      BY <3>4, <3>5 DEF Selects
    <3> QED BY <2>2, <3>6, <3>7, <3>8, <3>9, Zenon DEF FiltersAsMeant, o
  <2> QED BY <2>1, <2>2
<1> QED BY <1>1, <1>2, <1>3, PTL DEF Spec

-----------------------------------------------------------------------------
(* Recursion.                                                              *)

(* From a first value and a step, the values up to n.                      *)
Recursion(A, a, f, n, g) == /\ g \in [0 .. n -> A] /\ g[0] = a
                            /\ \A i \in 1 .. n : g[i] = f[<<i, g[i - 1]>>]

LEMMA RecursionExists ==
    ASSUME NEW A, NEW a \in A, NEW n \in Nat, NEW f \in [(1 .. n) \X A -> A]
    PROVE  \E g : Recursion(A, a, f, n, g)
<1> DEFINE T == {k \in 0 .. n : ~ \E g : Recursion(A, a, f, k, g)}
<1>1. SUFFICES ASSUME T # {} PROVE FALSE
  OBVIOUS
<1>2. PICK m \in T : \A j \in T : m <= j
  <2>1. T \subseteq Nat
    OBVIOUS
  <2> HIDE DEF T
  <2> QED BY <1>1, <2>1, LeastNumber
<1>3. CASE m = 0
  <2>1. Recursion(A, a, f, 0, [i \in 0 .. 0 |-> a])
    BY DEF Recursion
  <2> QED BY <1>3, <2>1
<1>4. CASE m # 0
  <2>1. m - 1 \in 0 .. n /\ m - 1 \notin T /\ m \in 1 .. n
    BY <1>2, <1>4
  <2>2. PICK g : Recursion(A, a, f, m - 1, g)
    BY <2>1
  <2> HIDE DEF T
  <2> DEFINE h == [i \in 0 .. m |-> IF i = m THEN f[<<m, g[m - 1]>>] ELSE g[i]]
  <2>3. /\ \A i \in 0 .. m - 1 : g[i] \in A
        /\ g[0] = a /\ \A i \in 1 .. m - 1 : g[i] = f[<<i, g[i - 1]>>]
    BY <2>2 DEF Recursion
  <2>4. m - 1 \in 0 .. m - 1 /\ m \in 0 .. m /\ 0 \in 0 .. m - 1
    BY <2>1
  <2>5. h[m] = f[<<m, g[m - 1]>>] /\ \A i \in 0 .. m - 1 : h[i] = g[i]
    BY <2>1
  <2>6. f[<<m, g[m - 1]>>] \in A
    BY <2>1, <2>3, <2>4
  <2>7. h \in [0 .. m -> A]
    <3>1. \A i \in 0 .. m : i = m \/ i \in 0 .. m - 1
      BY <2>1
    <3> QED BY <2>3, <2>6, <3>1
  <2> HIDE DEF h
  <2>8. \A i \in 1 .. m : h[i] = f[<<i, h[i - 1]>>]
    <3> SUFFICES ASSUME NEW i \in 1 .. m PROVE h[i] = f[<<i, h[i - 1]>>]
      OBVIOUS
    <3>1. i - 1 \in 0 .. m - 1 /\ (i = m \/ (i \in 1 .. m - 1 /\ i \in 0 .. m - 1))
      BY <2>1
    <3> QED BY <2>3, <2>5, <3>1
  <2>9. Recursion(A, a, f, m, h)
    BY <2>3, <2>4, <2>5, <2>7, <2>8 DEF Recursion
  <2>10. m \notin T
    BY <2>9 DEF T
  <2> QED BY <2>10
<1> QED BY <1>3, <1>4

(* And no others: what takes the same steps from the same value has the    *)
(* same values.                                                            *)
Follows(A, a, f, n, h) ==
    h[0] = a /\ \A i \in 1 .. n : h[i - 1] \in A => h[i] = f[<<i, h[i - 1]>>]

LEMMA RecursionUnique ==
    ASSUME NEW A, NEW a, NEW n \in Nat, NEW f, NEW g, Recursion(A, a, f, n, g),
           NEW h, Follows(A, a, f, n, h)
    PROVE  \A i \in 0 .. n : h[i] = g[i]
<1> DEFINE T == {i \in 0 .. n : h[i] # g[i]}
<1>1. SUFFICES ASSUME T # {} PROVE FALSE
  OBVIOUS
<1>2. PICK l \in T : \A j \in T : l <= j
  <2>1. T \subseteq Nat
    OBVIOUS
  <2> HIDE DEF T
  <2> QED BY <1>1, <2>1, LeastNumber
<1>3. l # 0
  BY DEF Recursion, Follows
<1>4. l - 1 \in 0 .. n /\ l - 1 \notin T /\ l \in 1 .. n
  BY <1>2, <1>3
<1>5. g[l] = f[<<l, g[l - 1]>>] /\ h[l - 1] = g[l - 1] /\ g[l - 1] \in A
  BY <1>4 DEF Recursion
<1> QED BY <1>2, <1>4, <1>5 DEF Follows

-----------------------------------------------------------------------------
(* Splitting.                                                              *)

Parts(C) == Seq(Seq(C)) \ {<<>>}

LEMMA AddCharacterTells ==
    ASSUME NEW C, NEW s \in Parts(C), NEW c \in C
    PROVE  /\ AddCharacter(s, c) \in Parts(C)
           /\ c = Slash => AddCharacter(s, c) = Append(s, <<>>)
           /\ c # Slash =>
                 /\ Len(AddCharacter(s, c)) = Len(s)
                 /\ \A i \in 1 .. Len(s) :
                       AddCharacter(s, c)[i] = IF i = Len(s) THEN Append(s[i], c) ELSE s[i]
<1>1. s \in Seq(Seq(C)) /\ Len(s) \in Nat \ {0} /\ Len(s) \in 1 .. Len(s)
  BY EmptySeq DEF Parts
<1>2. CASE c = Slash
  <2>1. <<>> \in Seq(C)
    BY EmptySeq
  <2> QED BY <1>1, <1>2, <2>1, AppendProperties DEF AddCharacter, Parts
<1>3. CASE c # Slash
  <2> DEFINE e == Append(s[Len(s)], c)
             t == [s EXCEPT ![Len(s)] = e]
  <2>1. e \in Seq(C)
    BY <1>1, ElementOfSeq, AppendProperties
  <2>2. AddCharacter(s, c) = t
    BY <1>3 DEF AddCharacter
  <2> HIDE DEF e
  <2>3. /\ t \in Seq(Seq(C)) /\ Len(t) = Len(s)
        /\ \A j \in 1 .. Len(s) : t[j] = IF j = Len(s) THEN e ELSE s[j]
    BY <1>1, <2>1, ExceptSeq
  <2> HIDE DEF t
  <2>4. t # <<>>
    BY <1>1, <2>3, EmptySeq
  <2> QED BY <1>3, <2>2, <2>3, <2>4 DEF Parts, e
<1> QED BY <1>2, <1>3

(* Split takes the characters one by one.                                  *)
SplitBy(C, t, g) ==
    /\ g \in [0 .. Len(t) -> Parts(C)] /\ g[0] = << <<>> >>
    /\ \A i \in 1 .. Len(t) : g[i] = AddCharacter(g[i - 1], t[i])
    /\ Split(t) = g[Len(t)]

LEMMA SplitTells ==
    ASSUME NEW C, NEW t \in Seq(C)
    PROVE  \E g : SplitBy(C, t, g)
<1> DEFINE n     == Len(t)
           a     == << <<>> >>
           f     == [p \in (1 .. n) \X Parts(C) |-> AddCharacter(p[2], t[p[1]])]
           parts == CHOOSE p : p = [i \in 0 .. n |->
                       IF i = 0 THEN a ELSE AddCharacter(p[i - 1], t[i])]
<1>1. n \in Nat /\ \A i \in 1 .. n : t[i] \in C
  BY LenProperties, ElementOfSeq
<1>2. a \in Parts(C)
  <2>1. <<>> \in Seq(C)
    BY EmptySeq
  <2> QED BY <2>1 DEF Parts
<1>3. Split(t) = parts[n]
  BY DEF Split
<1> HIDE DEF n, a
<1>4. \A i \in 1 .. n : \A x \in Parts(C) :
         f[<<i, x>>] = AddCharacter(x, t[i]) /\ f[<<i, x>>] \in Parts(C)
  BY <1>1, AddCharacterTells
<1>5. f \in [(1 .. n) \X Parts(C) -> Parts(C)]
  BY <1>1, AddCharacterTells
<1> HIDE DEF f
<1>6. PICK g : Recursion(Parts(C), a, f, n, g)
  BY <1>1, <1>2, <1>5, RecursionExists
<1>7. /\ g \in [0 .. n -> Parts(C)] /\ g[0] = a
      /\ \A i \in 1 .. n : g[i] = AddCharacter(g[i - 1], t[i])
  <2>1. \A i \in 1 .. n : i - 1 \in 0 .. n
    BY <1>1
  <2> QED BY <1>4, <1>6, <2>1 DEF Recursion
<1>8. g = [i \in 0 .. n |-> IF i = 0 THEN a ELSE AddCharacter(g[i - 1], t[i])]
  <2>1. \A i \in 0 .. n : i = 0 \/ i \in 1 .. n
    BY <1>1
  <2> QED BY <1>7, <2>1
<1>9. parts = [i \in 0 .. n |-> IF i = 0 THEN a ELSE AddCharacter(parts[i - 1], t[i])]
  BY <1>8
<1> HIDE DEF parts
<1>10. parts[0] = a /\ \A i \in 1 .. n : parts[i] = AddCharacter(parts[i - 1], t[i])
  <2>1. 0 \in 0 .. n /\ \A i \in 1 .. n : i \in 0 .. n /\ i # 0
    BY <1>1
  <2> QED BY <1>9, <2>1
<1>11. \A i \in 0 .. n : parts[i] = g[i]
  <2>1. Follows(Parts(C), a, f, n, parts)
    BY <1>4, <1>10 DEF Follows
  <2>2. Recursion(Parts(C), a, f, n, g) /\ n \in Nat
    BY <1>1, <1>6
  <2>3. \A h : Follows(Parts(C), a, f, n, h) => \A i \in 0 .. n : h[i] = g[i]
    BY <2>2, RecursionUnique
  <2> QED BY <2>1, <2>3
<1>12. Split(t) = g[n]
  BY <1>1, <1>3, <1>11
<1> QED BY <1>7, <1>12 DEF n, a, SplitBy

LEMMA SplitEmpty == Split(<<>>) = << <<>> >>
<1>1. <<>> \in Seq({}) /\ Len(<<>>) = 0
  BY EmptySeq
<1>2. PICK g : SplitBy({}, <<>>, g)
  BY <1>1, SplitTells
<1> QED BY <1>1, <1>2 DEF SplitBy

LEMMA SplitAppend ==
    ASSUME NEW C, NEW t \in Seq(C), NEW c \in C
    PROVE  /\ Split(t) \in Parts(C)
           /\ Split(Append(t, c)) = AddCharacter(Split(t), c)
<1> DEFINE n == Len(t)
           u == Append(t, c)
<1>1. /\ n \in Nat /\ u \in Seq(C) /\ Len(u) = n + 1 /\ u[n + 1] = c
      /\ \A i \in 1 .. n : u[i] = t[i]
  BY AppendProperties, LenProperties
<1>a. PICK g : SplitBy(C, t, g)
  BY SplitTells
<1>b. PICK h : SplitBy(C, u, h)
  BY <1>1, SplitTells
<1>2. /\ g \in [0 .. n -> Parts(C)] /\ g[0] = << <<>> >>
      /\ \A i \in 1 .. n : g[i] = AddCharacter(g[i - 1], t[i])
      /\ Split(t) = g[n]
  BY <1>a DEF SplitBy
<1> HIDE DEF n, u
<1>3. /\ h[0] = << <<>> >>
      /\ \A i \in 1 .. n + 1 : h[i] = AddCharacter(h[i - 1], u[i])
      /\ Split(u) = h[n + 1]
  BY <1>1, <1>b DEF SplitBy
<1>4. h[n] = g[n]
  <2> DEFINE T == {i \in 0 .. n : h[i] # g[i]}
  <2>1. SUFFICES ASSUME T # {} PROVE FALSE
    BY <1>1
  <2>2. PICK l \in T : \A j \in T : l <= j
    <3>1. T \subseteq Nat
      OBVIOUS
    <3> HIDE DEF T
    <3> QED BY <2>1, <3>1, LeastNumber
  <2>3. l # 0
    BY <1>2, <1>3
  <2>4. l - 1 \notin T /\ l - 1 \in 0 .. n /\ l \in 1 .. n /\ l \in 1 .. n + 1
    BY <1>1, <2>2, <2>3
  <2>5. g[l] = AddCharacter(g[l - 1], t[l]) /\ h[l] = AddCharacter(h[l - 1], u[l])
    BY <1>1, <1>2, <1>3, <2>4
  <2> QED BY <1>1, <2>2, <2>4, <2>5
<1>5. h[n + 1] = AddCharacter(h[n], c)
  <2>1. n + 1 \in 1 .. n + 1 /\ (n + 1) - 1 = n
    BY <1>1
  <2> QED BY <1>1, <1>3, <2>1
<1>6. g[n] \in Parts(C)
  BY <1>1, <1>2
<1> QED BY <1>1, <1>2, <1>3, <1>4, <1>5, <1>6 DEF u

LEMMA SplitType ==
    ASSUME NEW C, NEW t \in Seq(C) PROVE Split(t) \in Parts(C)
<1>1. PICK g : SplitBy(C, t, g)
  BY SplitTells
<1>2. Len(t) \in 0 .. Len(t)
  BY LenProperties
<1> QED BY <1>1, <1>2 DEF SplitBy

(* A character after a slash belongs to the segments behind it.            *)
LEMMA AddCharacterBehind ==
    ASSUME NEW C, NEW a \in Parts(C), NEW b \in Parts(C), NEW c \in C
    PROVE  AddCharacter(a \o b, c) = a \o AddCharacter(b, c)
<1> DEFINE S == Seq(C)
           ab == a \o b
           bc == AddCharacter(b, c)
<1>1. /\ a \in Seq(S) /\ b \in Seq(S) /\ Len(a) \in Nat /\ Len(b) \in Nat \ {0}
  BY EmptySeq, LenProperties DEF Parts
<1>2. /\ ab \in Seq(S) /\ Len(ab) = Len(a) + Len(b)
      /\ \A i \in 1 .. Len(a) + Len(b) :
            ab[i] = IF i <= Len(a) THEN a[i] ELSE b[i - Len(a)]
  BY <1>1, ConcatProperties
<1>3. ab \in Parts(C)
  BY <1>1, <1>2, EmptySeq DEF Parts
<1> HIDE DEF ab
<1>4. bc \in Parts(C) /\ bc \in Seq(S)
  BY AddCharacterTells DEF Parts
<1>5. CASE c = Slash
  <2>1. AddCharacter(ab, c) = Append(ab, <<>>) /\ bc = Append(b, <<>>)
    BY <1>3, <1>5, AddCharacterTells
  <2>2. <<>> \in S
    BY EmptySeq
  <2>3. << <<>> >> \in Seq(S)
    BY <2>2
  <2>4. Append(ab, <<>>) = ab \o << <<>> >> /\ Append(b, <<>>) = b \o << <<>> >>
    BY <1>1, <1>2, <2>2, AppendIsConcat
  <2>5. (a \o b) \o << <<>> >> = a \o (b \o << <<>> >>)
    BY <1>1, <2>3, ConcatAssociative
  <2> QED BY <2>1, <2>4, <2>5 DEF ab
<1>6. CASE c # Slash
  <2> DEFINE s == AddCharacter(ab, c)
             t == a \o bc
  <2>1. /\ s \in Seq(S) /\ Len(s) = Len(ab)
        /\ \A i \in 1 .. Len(ab) : s[i] = IF i = Len(ab) THEN Append(ab[i], c) ELSE ab[i]
    BY <1>3, <1>6, AddCharacterTells DEF Parts
  <2>2. /\ Len(bc) = Len(b)
        /\ \A i \in 1 .. Len(b) : bc[i] = IF i = Len(b) THEN Append(b[i], c) ELSE b[i]
    BY <1>6, AddCharacterTells
  <2> HIDE DEF bc
  <2>3. /\ t \in Seq(S) /\ Len(t) = Len(a) + Len(bc)
        /\ \A i \in 1 .. Len(a) + Len(bc) : t[i] = IF i <= Len(a) THEN a[i] ELSE bc[i - Len(a)]
    BY <1>1, <1>4, ConcatProperties
  <2> HIDE DEF s, t
  <2>4. ASSUME NEW i \in 1 .. Len(s) PROVE s[i] = t[i]
    <3>1. i \in Int /\ 1 <= i /\ i <= Len(a) + Len(b)
      BY <1>1, <1>2, <2>1
    <3>a. /\ ab[i] = IF i <= Len(a) THEN a[i] ELSE b[i - Len(a)]
          /\ t[i] = IF i <= Len(a) THEN a[i] ELSE bc[i - Len(a)]
          /\ s[i] = IF i = Len(ab) THEN Append(ab[i], c) ELSE ab[i]
      BY <1>2, <2>1, <2>2, <2>3
    <3>2. CASE i <= Len(a)
      <4>1. i # Len(ab)
        BY <1>1, <1>2, <3>1, <3>2
      <4> QED BY <3>2, <3>a, <4>1
    <3>3. CASE ~(i <= Len(a))
      <4>1. i - Len(a) \in 1 .. Len(b) /\ (i = Len(ab) <=> i - Len(a) = Len(b))
        BY <1>1, <1>2, <3>1, <3>3
      <4>2. t[i] = bc[i - Len(a)] /\ ab[i] = b[i - Len(a)]
        BY <3>3, <3>a
      <4> QED BY <2>2, <3>a, <4>1, <4>2
    <3> QED BY <3>2, <3>3
  <2>5. s = t
    BY <1>2, <2>1, <2>2, <2>3, <2>4, SeqEqual
  <2> QED BY <2>5 DEF s, t, ab, bc
<1> QED BY <1>5, <1>6 DEF ab

(* A slash separates.                                                      *)
LEMMA SplitConcat ==
    ASSUME NEW C, Slash \in C, NEW a \in Seq(C), NEW b \in Seq(C)
    PROVE  Split(a \o <<Slash>> \o b) = Split(a) \o Split(b)
<1> DEFINE before == a \o <<Slash>>
           Separated(t) == Split(before \o t) = Split(a) \o Split(t)
           T == {n \in Nat : \E t \in Seq(C) : Len(t) = n /\ ~Separated(t)}
<1>1. before = Append(a, Slash) /\ before \in Seq(C)
  BY AppendIsConcat, AppendProperties
<1>2. Split(a) \in Seq(Seq(C)) /\ Split(a) \in Parts(C)
  BY SplitType DEF Parts
<1>3. Split(before) = Append(Split(a), <<>>)
  <2>1. Split(Append(a, Slash)) = AddCharacter(Split(a), Slash)
    BY SplitAppend
  <2>2. AddCharacter(Split(a), Slash) = Append(Split(a), <<>>)
    BY <1>2, AddCharacterTells
  <2> QED BY <1>1, <2>1, <2>2
<1> HIDE DEF before
<1>4. SUFFICES ASSUME T # {} PROVE FALSE
  BY LenProperties DEF before
<1>5. PICK m \in T : \A j \in T : m <= j
  <2>1. T \subseteq Nat
    OBVIOUS
  <2> HIDE DEF T
  <2> QED BY <1>4, <2>1, LeastNumber
<1>6. PICK t \in Seq(C) : Len(t) = m /\ ~Separated(t)
  OBVIOUS
<1>7. CASE t = <<>>
  <2>1. before \o t = before
    BY <1>1, <1>7, ConcatEmptySeq
  <2>2. <<>> \in Seq(C)
    BY EmptySeq
  <2>3. Append(Split(a), <<>>) = Split(a) \o << <<>> >>
    BY <1>2, <2>2, AppendIsConcat
  <2> QED BY <1>3, <1>6, <1>7, <2>1, <2>3, SplitEmpty
<1>8. CASE t # <<>>
  <2>1. PICK s \in Seq(C), c \in C : t = Append(s, c)
    BY <1>8, SequenceEmptyOrAppend
  <2>2. Len(s) \in Nat /\ m = Len(s) + 1
    BY <1>6, <2>1, AppendProperties, LenProperties
  <2>3. Separated(s)
    <3> HIDE DEF Separated
    <3>1. Len(s) \notin T
      <4> HIDE DEF T
      <4>1. ~(m <= Len(s))
        BY <2>2
      <4> QED BY <1>5, <4>1
    <3> QED BY <2>2, <3>1
  <2>4. before \o t = Append(before \o s, c) /\ before \o s \in Seq(C)
    <3>1. <<c>> \in Seq(C)
      OBVIOUS
    <3>2. t = s \o <<c>>
      BY <2>1, AppendIsConcat
    <3>3. before \o s \in Seq(C)
      BY <1>1, ConcatProperties
    <3>4. before \o (s \o <<c>>) = (before \o s) \o <<c>>
      BY <1>1, <3>1, ConcatAssociative
    <3> QED BY <3>2, <3>3, <3>4, AppendIsConcat
  <2>5. /\ Split(before \o t) = AddCharacter(Split(before \o s), c)
        /\ Split(t) = AddCharacter(Split(s), c) /\ Split(s) \in Parts(C)
    BY <2>1, <2>4, SplitAppend
  <2>6. Split(before \o t) = Split(a) \o Split(t)
    <3>1. AddCharacter(Split(a) \o Split(s), c) = Split(a) \o AddCharacter(Split(s), c)
      <4>1. Split(a) \in Parts(C) /\ Split(s) \in Parts(C) /\ c \in C
        BY <1>2, <2>5
      <4> DEFINE x == Split(a)
                 y == Split(s)
      <4> HIDE DEF x, y, T, Separated
      <4>2. AddCharacter(x \o y, c) = x \o AddCharacter(y, c)
        <5>1. x \in Parts(C) /\ y \in Parts(C)
          BY <4>1 DEF x, y
        <5> QED BY <5>1, AddCharacterBehind
      <4> QED BY <4>2 DEF x, y
    <3> QED BY <2>3, <2>5, <3>1
  <2> QED BY <1>6, <2>6
<1> QED BY <1>7, <1>8

(* A set that holds the empty sequence, and with every sequence the longer *)
(* ones, holds them all.                                                   *)
LEMMA EverySequence ==
    ASSUME NEW C, NEW W, <<>> \in W,
           \A s \in Seq(C) : \A c \in C : s \in W => Append(s, c) \in W
    PROVE  Seq(C) \subseteq W
<1> DEFINE T == {n \in Nat : \E s \in Seq(C) : Len(s) = n /\ s \notin W}
<1>1. SUFFICES ASSUME T # {} PROVE FALSE
  BY LenProperties
<1>2. PICK m \in T : \A j \in T : m <= j
  <2>1. T \subseteq Nat
    OBVIOUS
  <2> HIDE DEF T
  <2> QED BY <1>1, <2>1, LeastNumber
<1>3. PICK t \in Seq(C) : Len(t) = m /\ t \notin W
  OBVIOUS
<1>4. PICK s \in Seq(C), c \in C : t = Append(s, c)
  BY <1>3, SequenceEmptyOrAppend
<1>5. Len(s) \in Nat /\ m = Len(s) + 1 /\ s \notin W
  BY <1>3, <1>4, AppendProperties, LenProperties
<1>6. Len(s) \in T
  BY <1>5
<1> HIDE DEF T
<1>7. ~(m <= Len(s))
  BY <1>5
<1> QED BY <1>2, <1>6, <1>7

LEMMA FrontAppend ==
    ASSUME NEW C, NEW t \in Seq(C), NEW c \in C
    PROVE  Front(Append(t, c)) = t /\ Last(Append(t, c)) = c
<1> DEFINE u == Append(t, c)
<1>1. /\ Len(t) \in Nat /\ u \in Seq(C) /\ Len(u) = Len(t) + 1 /\ u[Len(t) + 1] = c
      /\ \A i \in 1 .. Len(t) : u[i] = t[i]
  BY AppendProperties, LenProperties
<1> HIDE DEF u
<1>2. \A i \in 1 .. Len(t) : u[i] \in C
  BY <1>1, ElementOfSeq
<1>3. /\ SubSeq(u, 1, Len(t)) \in Seq(C) /\ Len(SubSeq(u, 1, Len(t))) = Len(t)
      /\ \A i \in 1 .. Len(t) : SubSeq(u, 1, Len(t))[i] = u[i]
  BY <1>1, <1>2, SubSeqProperties
<1>4. SubSeq(u, 1, Len(t)) = t
  BY <1>1, <1>3, SeqEqual
<1>5. Front(u) = t /\ Last(u) = c
  BY <1>1, <1>4 DEF Front, Last
<1> QED BY <1>5 DEF u

(* A text without a slash is one segment.                                  *)
LEMMA SplitPlain ==
    ASSUME NEW C, NEW b \in Seq(C), Slash \notin C
    PROVE  Split(b) = <<b>>
<1> DEFINE W == {t \in Seq(C) : Split(t) = <<t>>}
<1>1. <<>> \in W
  BY SplitEmpty, EmptySeq
<1>2. ASSUME NEW s \in Seq(C), NEW c \in C, s \in W PROVE Append(s, c) \in W
  <2>1. Append(s, c) \in Seq(C) /\ c # Slash
    BY AppendProperties
  <2>2. Split(Append(s, c)) = AddCharacter(<<s>>, c) /\ <<s>> \in Parts(C)
    BY <1>2, SplitAppend
  <2> DEFINE t == AddCharacter(<<s>>, c)
  <2>3. t \in Seq(Seq(C)) /\ Len(t) = 1 /\ t[1] = Append(s, c)
    <3> DEFINE x == <<s>>
    <3>1. Len(x) = 1 /\ x[1] = s /\ 1 \in 1 .. Len(x)
      OBVIOUS
    <3> HIDE DEF x
    <3>2. /\ AddCharacter(x, c) \in Parts(C) /\ Len(AddCharacter(x, c)) = Len(x)
          /\ \A i \in 1 .. Len(x) :
                AddCharacter(x, c)[i] = IF i = Len(x) THEN Append(x[i], c) ELSE x[i]
      <4>1. x \in Parts(C) /\ c \in C /\ c # Slash
        BY <2>1, <2>2 DEF x
      <4> QED BY <4>1, AddCharacterTells
    <3> QED BY <3>1, <3>2 DEF Parts, x
  <2> HIDE DEF t
  <2>4. t = <<Append(s, c)>>
    BY <2>3
  <2> QED BY <2>1, <2>2, <2>4 DEF t
<1>3. Seq(C) \subseteq W
  <2> HIDE DEF W
  <2> QED BY <1>1, <1>2, EverySequence
<1> QED BY <1>3

-----------------------------------------------------------------------------
(* Dot segments.                                                           *)

(* Normalise takes the segments one by one.                                *)
NormaliseBy(D, t, g) ==
    /\ g \in [0 .. Len(t) -> Seq(D)] /\ g[0] = <<>>
    /\ \A i \in 1 .. Len(t) : g[i] = Walk(g[i - 1], t[i])
    /\ Normalise(t) = g[Len(t)]

LEMMA WalkType ==
    ASSUME NEW D, NEW kept \in Seq(D), NEW s \in D
    PROVE  Walk(kept, s) \in Seq(D)
<1>1. Append(kept, s) \in Seq(D)
  BY AppendProperties
<1>2. kept # <<>> => Front(kept) \in Seq(D)
  <2>1. SUFFICES ASSUME kept # <<>> PROVE Front(kept) \in Seq(D)
    OBVIOUS
  <2>2. PICK t \in Seq(D), c \in D : kept = Append(t, c)
    BY <2>1, SequenceEmptyOrAppend
  <2> QED BY <2>2, FrontAppend
<1> QED BY <1>1, <1>2 DEF Walk

LEMMA NormaliseTells ==
    ASSUME NEW D, NEW t \in Seq(D)
    PROVE  \E g : NormaliseBy(D, t, g)
<1> DEFINE n      == Len(t)
           f      == [p \in (1 .. n) \X Seq(D) |-> Walk(p[2], t[p[1]])]
           walked == CHOOSE p : p = [i \in 0 .. n |->
                        IF i = 0 THEN <<>> ELSE Walk(p[i - 1], t[i])]
<1>1. n \in Nat /\ \A i \in 1 .. n : t[i] \in D
  BY LenProperties, ElementOfSeq
<1>2. <<>> \in Seq(D)
  BY EmptySeq
<1>3. Normalise(t) = walked[n]
  BY DEF Normalise
<1> HIDE DEF n
<1>4. \A i \in 1 .. n : \A x \in Seq(D) :
         f[<<i, x>>] = Walk(x, t[i]) /\ f[<<i, x>>] \in Seq(D)
  BY <1>1, WalkType
<1>5. f \in [(1 .. n) \X Seq(D) -> Seq(D)]
  BY <1>1, WalkType
<1> HIDE DEF f
<1>6. PICK g : Recursion(Seq(D), <<>>, f, n, g)
  BY <1>1, <1>2, <1>5, RecursionExists
<1>7. /\ g \in [0 .. n -> Seq(D)] /\ g[0] = <<>>
      /\ \A i \in 1 .. n : g[i] = Walk(g[i - 1], t[i])
  <2>1. \A i \in 1 .. n : i - 1 \in 0 .. n
    BY <1>1
  <2> QED BY <1>4, <1>6, <2>1 DEF Recursion
<1>8. g = [i \in 0 .. n |-> IF i = 0 THEN <<>> ELSE Walk(g[i - 1], t[i])]
  <2>1. \A i \in 0 .. n : i = 0 \/ i \in 1 .. n
    BY <1>1
  <2> QED BY <1>7, <2>1
<1>9. walked = [i \in 0 .. n |-> IF i = 0 THEN <<>> ELSE Walk(walked[i - 1], t[i])]
  BY <1>8
<1> HIDE DEF walked
<1>10. walked[0] = <<>> /\ \A i \in 1 .. n : walked[i] = Walk(walked[i - 1], t[i])
  <2>1. 0 \in 0 .. n /\ \A i \in 1 .. n : i \in 0 .. n /\ i # 0
    BY <1>1
  <2> QED BY <1>9, <2>1
<1>11. \A i \in 0 .. n : walked[i] = g[i]
  <2>1. Follows(Seq(D), <<>>, f, n, walked)
    BY <1>4, <1>10 DEF Follows
  <2>2. Recursion(Seq(D), <<>>, f, n, g) /\ n \in Nat
    BY <1>1, <1>6
  <2>3. \A h : Follows(Seq(D), <<>>, f, n, h) => \A i \in 0 .. n : h[i] = g[i]
    BY <2>2, RecursionUnique
  <2> QED BY <2>1, <2>3
<1>12. Normalise(t) = g[n]
  BY <1>1, <1>3, <1>11
<1> QED BY <1>7, <1>12 DEF n, NormaliseBy

LEMMA NormaliseType ==
    ASSUME NEW D, NEW t \in Seq(D) PROVE Normalise(t) \in Seq(D)
<1>1. PICK g : NormaliseBy(D, t, g)
  BY NormaliseTells
<1>2. Len(t) \in 0 .. Len(t)
  BY LenProperties
<1> QED BY <1>1, <1>2 DEF NormaliseBy

LEMMA NormaliseAppend ==
    ASSUME NEW D, NEW t \in Seq(D), NEW c \in D
    PROVE  Normalise(Append(t, c)) = Walk(Normalise(t), c)
<1> DEFINE n == Len(t)
           u == Append(t, c)
<1>1. /\ n \in Nat /\ u \in Seq(D) /\ Len(u) = n + 1 /\ u[n + 1] = c
      /\ \A i \in 1 .. n : u[i] = t[i]
  BY AppendProperties, LenProperties
<1>a. PICK g : NormaliseBy(D, t, g)
  BY NormaliseTells
<1>b. PICK h : NormaliseBy(D, u, h)
  BY <1>1, NormaliseTells
<1>2. /\ g[0] = <<>> /\ \A i \in 1 .. n : g[i] = Walk(g[i - 1], t[i])
      /\ Normalise(t) = g[n]
  BY <1>a DEF NormaliseBy
<1> HIDE DEF n, u
<1>3. /\ h[0] = <<>>
      /\ \A i \in 1 .. n + 1 : h[i] = Walk(h[i - 1], u[i])
      /\ Normalise(u) = h[n + 1]
  BY <1>1, <1>b DEF NormaliseBy
<1>4. h[n] = g[n]
  <2> DEFINE T == {i \in 0 .. n : h[i] # g[i]}
  <2>1. SUFFICES ASSUME T # {} PROVE FALSE
    BY <1>1
  <2>2. PICK l \in T : \A j \in T : l <= j
    <3>1. T \subseteq Nat
      OBVIOUS
    <3> HIDE DEF T
    <3> QED BY <2>1, <3>1, LeastNumber
  <2>3. l # 0
    BY <1>2, <1>3
  <2>4. l - 1 \notin T /\ l - 1 \in 0 .. n /\ l \in 1 .. n /\ l \in 1 .. n + 1
    BY <1>1, <2>2, <2>3
  <2>5. g[l] = Walk(g[l - 1], t[l]) /\ h[l] = Walk(h[l - 1], u[l])
    BY <1>1, <1>2, <1>3, <2>4
  <2> QED BY <1>1, <2>2, <2>4, <2>5
<1>5. h[n + 1] = Walk(h[n], c)
  <2>1. n + 1 \in 1 .. n + 1 /\ (n + 1) - 1 = n
    BY <1>1
  <2> QED BY <1>1, <1>3, <2>1
<1> QED BY <1>1, <1>2, <1>3, <1>4, <1>5 DEF u

(* Segments with a meaning of their own stay, whatever is before them.     *)
LEMMA NormaliseConcat ==
    ASSUME NEW D, NEW A \in Seq(D), NEW P, P \subseteq D,
           \A s \in P : ~Bad(s), NEW B \in Seq(P)
    PROVE  Normalise(A \o B) = Normalise(A) \o B
<1> DEFINE N == Normalise(A)
           W == {t \in Seq(P) : Normalise(A \o t) = N \o t}
<1>1. N \in Seq(D)
  BY NormaliseType
<1>2. <<>> \in W
  BY <1>1, EmptySeq, ConcatEmptySeq
<1>3. ASSUME NEW s \in Seq(P), NEW c \in P, s \in W PROVE Append(s, c) \in W
  <2>1. Append(s, c) \in Seq(P) /\ c \in D /\ s \in Seq(D) /\ ~Bad(c)
    BY AppendProperties, SeqMonotonic
  <2>2. \A X \in Seq(D) : X \o Append(s, c) = Append(X \o s, c) /\ X \o s \in Seq(D)
    <3> SUFFICES ASSUME NEW X \in Seq(D)
                 PROVE  X \o Append(s, c) = Append(X \o s, c) /\ X \o s \in Seq(D)
      OBVIOUS
    <3>1. <<c>> \in Seq(D) /\ Append(s, c) = s \o <<c>> /\ X \o s \in Seq(D)
      BY <2>1, AppendIsConcat, ConcatProperties
    <3>2. X \o (s \o <<c>>) = (X \o s) \o <<c>>
      BY <2>1, <3>1, ConcatAssociative
    <3> QED BY <2>1, <3>1, <3>2, AppendIsConcat
  <2>3. Normalise(A \o s) = N \o s
    BY <1>3
  <2> HIDE DEF N
  <2>4. Normalise(A \o Append(s, c)) = Walk(N \o s, c)
    BY <2>1, <2>2, <2>3, NormaliseAppend
  <2>5. Walk(N \o s, c) = Append(N \o s, c)
    BY <2>1 DEF Walk, Bad
  <2> QED BY <1>1, <2>1, <2>2, <2>4, <2>5
<1>4. Seq(P) \subseteq W
  <2> HIDE DEF W
  <2> QED BY <1>2, <1>3, EverySequence
<1> QED BY <1>4

-----------------------------------------------------------------------------
(* Escaping.                                                               *)

(* Characters that no escape is one of.                                    *)
Unescaped(s) == \A i \in DOMAIN s : s[i] \notin {"%2F", "%25", "%3F"}

Alphabet(C) == {Slash, Percent, QuestionMark, "%2F", "%25", "%3F"} \subseteq C

(* An escaped segment has no slash, is no dot segment unless it was one,   *)
(* and is decoded to what it was (path.go:44-51).                          *)
LEMMA PathEscapeTells ==
    ASSUME NEW C, Alphabet(C), NEW s \in Seq(C)
    PROVE  /\ PathEscape(s) \in Seq(C \ {Slash})
           /\ ~Bad(s) => ~Bad(PathEscape(s))
           /\ Unescaped(s) => Decode(PathEscape(s)) = s
<1> DEFINE n == Len(s)
           e == PathEscape(s)
<1>1. n \in Nat /\ DOMAIN s = 1 .. n /\ s = [i \in 1 .. n |-> s[i]]
      /\ \A i \in 1 .. n : s[i] \in C
  <2>1. n \in Nat /\ s \in [1 .. n -> C]
    BY LenProperties
  <2> HIDE DEF n
  <2> QED BY <2>1
<1> HIDE DEF n
<1>2. /\ DOMAIN e = 1 .. n
      /\ e = [i \in 1 .. n |-> e[i]]
      /\ \A i \in 1 .. n : e[i] = CASE s[i] = Slash        -> "%2F"
                                    [] s[i] = Percent      -> "%25"
                                    [] s[i] = QuestionMark -> "%3F"
                                    [] OTHER               -> s[i]
  BY <1>1 DEF PathEscape
<1> HIDE DEF e
<1>3. \A i \in 1 .. n : /\ s[i] = Slash => e[i] = "%2F"
                        /\ s[i] = Percent => e[i] = "%25"
                        /\ s[i] = QuestionMark => e[i] = "%3F"
                        /\ s[i] \notin {Slash, Percent, QuestionMark} => e[i] = s[i]
  BY <1>2 DEF Slash, Percent, QuestionMark
<1>4. e \in Seq(C \ {Slash})
  <2>1. \A i \in 1 .. n : e[i] \in C \ {Slash}
    BY <1>1, <1>3 DEF Alphabet, Slash
  <2>2. e \in [1 .. n -> C \ {Slash}]
    BY <1>2, <2>1
  <2> QED BY <1>1, <2>2
<1>5. ~Bad(s) => ~Bad(e)
  <2>1. SUFFICES ASSUME Bad(e) PROVE Bad(s)
    OBVIOUS
  <2>2. \A i \in 1 .. n : e[i] = Dot => s[i] = Dot
    BY <1>3 DEF Dot
  <2>3. CASE e = <<>>
    <3>1. DOMAIN e = {}
      BY <2>3
    <3>2. n = 0
      BY <1>1, <1>2, <3>1
    <3>3. s = <<>>
      BY <1>1, <3>2
    <3> QED BY <3>3 DEF Bad
  <2>4. CASE e = <<Dot>>
    <3>1. DOMAIN e = 1 .. 1 /\ e[1] = Dot
      BY <2>4
    <3>2. n = 1
      BY <1>1, <1>2, <3>1
    <3>3. s[1] = Dot
      BY <2>2, <3>1, <3>2
    <3>4. s = <<Dot>>
      BY <1>1, <3>2, <3>3
    <3> QED BY <3>4 DEF Bad
  <2>5. CASE e = <<Dot, Dot>>
    <3>1. DOMAIN e = 1 .. 2 /\ e[1] = Dot /\ e[2] = Dot
      BY <2>5
    <3>2. n = 2
      BY <1>1, <1>2, <3>1
    <3>3. s[1] = Dot /\ s[2] = Dot
      BY <2>2, <3>1, <3>2
    <3>4. s = <<Dot, Dot>>
      BY <1>1, <3>2, <3>3
    <3> QED BY <3>4 DEF Bad
  <2> QED BY <2>1, <2>3, <2>4, <2>5 DEF Bad
<1>6. Unescaped(s) => Decode(e) = s
  <2>1. SUFFICES ASSUME Unescaped(s) PROVE Decode(e) = s
    OBVIOUS
  <2> DEFINE d == Decode(e)
  <2>2. /\ d = [i \in 1 .. n |-> d[i]]
        /\ \A i \in 1 .. n : d[i] = CASE e[i] = "%2F" -> Slash
                                      [] e[i] = "%25" -> Percent
                                      [] e[i] = "%3F" -> QuestionMark
                                      [] e[i] \in {Percent, QuestionMark} -> "malformed"
                                      [] OTHER        -> e[i]
    BY <1>2 DEF Decode
  <2> HIDE DEF d
  <2>3. \A i \in 1 .. n : d[i] = s[i]
    <3> SUFFICES ASSUME NEW i \in 1 .. n PROVE d[i] = s[i]
      OBVIOUS
    <3>1. s[i] \notin {"%2F", "%25", "%3F"}
      BY <1>1, <2>1 DEF Unescaped
    <3>2. CASE s[i] = Slash
      <4>1. e[i] = "%2F"
        BY <1>3, <3>2
      <4> QED BY <2>2, <3>2, <4>1 DEF Slash, Percent, QuestionMark
    <3>3. CASE s[i] = Percent
      <4>1. e[i] = "%25"
        BY <1>3, <3>3
      <4> QED BY <2>2, <3>3, <4>1 DEF Slash, Percent, QuestionMark
    <3>4. CASE s[i] = QuestionMark
      <4>1. e[i] = "%3F"
        BY <1>3, <3>4
      <4> QED BY <2>2, <3>4, <4>1 DEF Slash, Percent, QuestionMark
    <3>5. CASE s[i] \notin {Slash, Percent, QuestionMark}
      <4>1. e[i] = s[i] /\ e[i] \notin {"%2F", "%25", "%3F", Percent, QuestionMark}
        BY <1>3, <3>1, <3>5
      <4> QED BY <2>2, <4>1
    <3> QED BY <3>2, <3>3, <3>4, <3>5
  <2> QED BY <1>1, <2>2, <2>3 DEF d
<1> QED BY <1>4, <1>5, <1>6 DEF e

(* buildPath takes the segments one by one.                                *)
BuildBy(C, S, g) ==
    /\ g \in [0 .. Len(S) -> Seq(C)] /\ g[0] = <<>>
    /\ \A i \in 1 .. Len(S) :
          g[i] = g[i - 1] \o (IF i = 1 THEN <<>> ELSE <<Slash>>) \o PathEscape(S[i])
    /\ buildPath(S) = g[Len(S)]

LEMMA StepType ==
    ASSUME NEW C, Alphabet(C), NEW x \in Seq(C), NEW s \in Seq(C), NEW i
    PROVE  x \o (IF i = 1 THEN <<>> ELSE <<Slash>>) \o PathEscape(s) \in Seq(C)
<1> DEFINE y == IF i = 1 THEN <<>> ELSE <<Slash>>
           e == PathEscape(s)
<1>1. y \in Seq(C)
  <2>1. Slash \in C
    BY DEF Alphabet
  <2> QED BY <2>1
<1>2. e \in Seq(C)
  <2>1. e \in Seq(C \ {Slash})
    BY PathEscapeTells
  <2> QED BY <2>1, SeqMonotonic
<1> HIDE DEF y, e
<1>3. x \o y \in Seq(C)
  BY <1>1, ConcatProperties
<1>4. x \o y \o e \in Seq(C)
  BY <1>2, <1>3, ConcatProperties
<1> QED BY <1>4 DEF y, e

LEMMA BuildTells ==
    ASSUME NEW C, Alphabet(C), NEW S \in Seq(Seq(C))
    PROVE  \E g : BuildBy(C, S, g)
<1> DEFINE n      == Len(S)
           step(i, x) == x \o (IF i = 1 THEN <<>> ELSE <<Slash>>) \o PathEscape(S[i])
           f      == [p \in (1 .. n) \X Seq(C) |-> step(p[1], p[2])]
           joined == CHOOSE p : p = [i \in 0 .. n |-> IF i = 0 THEN <<>> ELSE step(i, p[i - 1])]
<1>1. n \in Nat /\ \A i \in 1 .. n : S[i] \in Seq(C)
  BY LenProperties, ElementOfSeq
<1>2. <<>> \in Seq(C)
  BY EmptySeq
<1>3. buildPath(S) = joined[n]
  BY DEF buildPath
<1>t. \A i \in 1 .. n : \A x \in Seq(C) : step(i, x) \in Seq(C)
  BY <1>1, StepType
<1>u. \A i : \A x : step(i, x) = x \o (IF i = 1 THEN <<>> ELSE <<Slash>>) \o PathEscape(S[i])
  OBVIOUS
<1> HIDE DEF n, step
<1>4. \A i \in 1 .. n : \A x \in Seq(C) :
         f[<<i, x>>] = step(i, x) /\ f[<<i, x>>] \in Seq(C)
  BY <1>1, <1>t
<1>5. f \in [(1 .. n) \X Seq(C) -> Seq(C)]
  BY <1>1, <1>t
<1> HIDE DEF f
<1>6. PICK g : Recursion(Seq(C), <<>>, f, n, g)
  BY <1>1, <1>2, <1>5, RecursionExists
<1>7. /\ g \in [0 .. n -> Seq(C)] /\ g[0] = <<>>
      /\ \A i \in 1 .. n : g[i] = step(i, g[i - 1])
  <2>1. \A i \in 1 .. n : i - 1 \in 0 .. n
    BY <1>1
  <2> QED BY <1>4, <1>6, <2>1 DEF Recursion
<1>8. g = [i \in 0 .. n |-> IF i = 0 THEN <<>> ELSE step(i, g[i - 1])]
  <2>1. \A i \in 0 .. n : i = 0 \/ i \in 1 .. n
    BY <1>1
  <2> QED BY <1>7, <2>1
<1>9. joined = [i \in 0 .. n |-> IF i = 0 THEN <<>> ELSE step(i, joined[i - 1])]
  BY <1>8
<1> HIDE DEF joined
<1>10. joined[0] = <<>> /\ \A i \in 1 .. n : joined[i] = step(i, joined[i - 1])
  <2>1. 0 \in 0 .. n /\ \A i \in 1 .. n : i \in 0 .. n /\ i # 0
    BY <1>1
  <2> QED BY <1>9, <2>1
<1>11. \A i \in 0 .. n : joined[i] = g[i]
  <2>1. Follows(Seq(C), <<>>, f, n, joined)
    BY <1>4, <1>10 DEF Follows
  <2>2. Recursion(Seq(C), <<>>, f, n, g) /\ n \in Nat
    BY <1>1, <1>6
  <2>3. \A h : Follows(Seq(C), <<>>, f, n, h) => \A i \in 0 .. n : h[i] = g[i]
    BY <2>2, RecursionUnique
  <2> QED BY <2>1, <2>3
<1>12. buildPath(S) = g[n]
  BY <1>1, <1>3, <1>11
<1>13. \A i \in 1 .. n :
          g[i] = g[i - 1] \o (IF i = 1 THEN <<>> ELSE <<Slash>>) \o PathEscape(S[i])
  BY <1>7, <1>u
<1> QED BY <1>7, <1>12, <1>13 DEF n, BuildBy

LEMMA BuildAppend ==
    ASSUME NEW C, Alphabet(C), NEW S \in Seq(Seq(C)), NEW s \in Seq(C)
    PROVE  /\ buildPath(S) \in Seq(C)
           /\ buildPath(Append(S, s)) =
                 buildPath(S) \o (IF S = <<>> THEN <<>> ELSE <<Slash>>) \o PathEscape(s)
           /\ S = <<>> => buildPath(S) = <<>>
<1> DEFINE n == Len(S)
           u == Append(S, s)
           step(i, x, w) == x \o (IF i = 1 THEN <<>> ELSE <<Slash>>) \o PathEscape(w)
<1>1. /\ n \in Nat /\ u \in Seq(Seq(C)) /\ Len(u) = n + 1 /\ u[n + 1] = s
      /\ \A i \in 1 .. n : u[i] = S[i]
  BY AppendProperties, LenProperties
<1>a. PICK g : BuildBy(C, S, g)
  BY BuildTells
<1>b. PICK h : BuildBy(C, u, h)
  BY <1>1, BuildTells
<1>2. /\ g \in [0 .. n -> Seq(C)]
      /\ g[0] = <<>> /\ \A i \in 1 .. n : g[i] = step(i, g[i - 1], S[i])
      /\ buildPath(S) = g[n]
  BY <1>a DEF BuildBy
<1>c. n = 0 <=> S = <<>>
  BY EmptySeq
<1> HIDE DEF n, u
<1>3. /\ h[0] = <<>>
      /\ \A i \in 1 .. n + 1 : h[i] = step(i, h[i - 1], u[i])
      /\ buildPath(u) = h[n + 1]
  BY <1>1, <1>b DEF BuildBy
<1>d. step(n + 1, g[n], s) =
         g[n] \o (IF S = <<>> THEN <<>> ELSE <<Slash>>) \o PathEscape(s)
  <2>1. n + 1 = 1 <=> S = <<>>
    BY <1>1, <1>c
  <2> QED BY <2>1
<1> HIDE DEF step
<1>4. h[n] = g[n]
  <2> DEFINE T == {i \in 0 .. n : h[i] # g[i]}
  <2>1. SUFFICES ASSUME T # {} PROVE FALSE
    <3>1. n \in 0 .. n
      BY <1>1
    <3> QED BY <3>1
  <2>2. PICK l \in T : \A j \in T : l <= j
    <3>1. T \subseteq Nat
      OBVIOUS
    <3> HIDE DEF T
    <3> QED BY <2>1, <3>1, LeastNumber
  <2>3. l # 0
    BY <1>2, <1>3
  <2>4. l - 1 \notin T /\ l - 1 \in 0 .. n /\ l \in 1 .. n /\ l \in 1 .. n + 1
    BY <1>1, <2>2, <2>3
  <2>5. g[l] = step(l, g[l - 1], S[l]) /\ h[l] = step(l, h[l - 1], u[l])
    BY <1>1, <1>2, <1>3, <2>4
  <2> QED BY <1>1, <2>2, <2>4, <2>5
<1>5. h[n + 1] = step(n + 1, h[n], s)
  <2>1. n + 1 \in 1 .. n + 1 /\ (n + 1) - 1 = n
    BY <1>1
  <2> QED BY <1>1, <1>3, <2>1
<1>6. g[n] \in Seq(C)
  BY <1>1, <1>2
<1>7. S = <<>> => g[n] = <<>>
  BY <1>2, <1>c
<1> QED BY <1>2, <1>3, <1>4, <1>5, <1>6, <1>7, <1>d DEF u

Escaped(S) == [i \in DOMAIN S |-> PathEscape(S[i])]

LEMMA EscapedTells ==
    ASSUME NEW C, Alphabet(C), NEW S \in Seq(Seq(C))
    PROVE  /\ Escaped(S) \in Seq(Seq(C)) /\ Len(Escaped(S)) = Len(S)
           /\ \A i \in 1 .. Len(S) : Escaped(S)[i] = PathEscape(S[i])
<1>1. Len(S) \in Nat /\ DOMAIN S = 1 .. Len(S) /\ \A i \in 1 .. Len(S) : S[i] \in Seq(C)
  BY LenProperties, ElementOfSeq
<1>2. \A i \in 1 .. Len(S) : PathEscape(S[i]) \in Seq(C)
  <2> SUFFICES ASSUME NEW i \in 1 .. Len(S) PROVE PathEscape(S[i]) \in Seq(C)
    OBVIOUS
  <2>1. S[i] \in Seq(C)
    BY <1>1
  <2>2. PathEscape(S[i]) \in Seq(C \ {Slash})
    BY <2>1, PathEscapeTells
  <2> QED BY <2>2, SeqMonotonic
<1> DEFINE n == Len(S)
<1>3. n \in Nat /\ Escaped(S) \in [1 .. n -> Seq(C)]
  BY <1>1, <1>2 DEF Escaped
<1> HIDE DEF n
<1>4. Escaped(S) \in Seq(Seq(C)) /\ Len(Escaped(S)) = n
  BY <1>3
<1> QED BY <1>1, <1>4 DEF n, Escaped

LEMMA EscapedAppend ==
    ASSUME NEW C, Alphabet(C), NEW S \in Seq(Seq(C)), NEW s \in Seq(C)
    PROVE  Escaped(Append(S, s)) = Append(Escaped(S), PathEscape(s))
<1> DEFINE u == Append(S, s)
           e == Escaped(S)
           x == Escaped(u)
           p == PathEscape(s)
           y == Append(e, p)
<1>1. /\ u \in Seq(Seq(C)) /\ Len(u) = Len(S) + 1 /\ u[Len(S) + 1] = s /\ Len(S) \in Nat
      /\ \A i \in 1 .. Len(S) : u[i] = S[i]
  BY AppendProperties, LenProperties
<1>2. p \in Seq(C)
  <2>1. p \in Seq(C \ {Slash})
    BY PathEscapeTells
  <2> QED BY <2>1, SeqMonotonic
<1>3. /\ e \in Seq(Seq(C)) /\ Len(e) = Len(S)
      /\ \A i \in 1 .. Len(S) : e[i] = PathEscape(S[i])
  BY EscapedTells
<1> HIDE DEF u, e
<1>4. /\ x \in Seq(Seq(C)) /\ Len(x) = Len(u)
      /\ \A i \in 1 .. Len(u) : x[i] = PathEscape(u[i])
  BY <1>1, EscapedTells
<1> HIDE DEF p
<1>5. /\ y \in Seq(Seq(C)) /\ Len(y) = Len(e) + 1 /\ y[Len(e) + 1] = p
      /\ \A i \in 1 .. Len(e) : y[i] = e[i]
  <2> DEFINE Z == Seq(C)
  <2>1. e \in Seq(Z) /\ p \in Z
    BY <1>2, <1>3
  <2> HIDE DEF Z
  <2>2. /\ y \in Seq(Z) /\ Len(y) = Len(e) + 1 /\ y[Len(e) + 1] = p
        /\ \A i \in 1 .. Len(e) : y[i] = e[i]
    BY <2>1, AppendProperties
  <2> QED BY <2>2 DEF Z
<1> HIDE DEF x, y
<1>6. \A i \in 1 .. Len(x) : x[i] = y[i]
  <2> SUFFICES ASSUME NEW i \in 1 .. Len(S) + 1 PROVE x[i] = y[i]
    BY <1>1, <1>4
  <2>1. CASE i = Len(S) + 1
    <3>1. x[i] = PathEscape(s)
      BY <1>1, <1>4, <2>1
    <3> QED BY <1>3, <1>5, <2>1, <3>1 DEF p
  <2>2. CASE i # Len(S) + 1
    <3>1. i \in 1 .. Len(S)
      BY <1>1, <2>2
    <3>2. x[i] = PathEscape(S[i]) /\ y[i] = e[i]
      BY <1>1, <1>3, <1>4, <1>5, <3>1
    <3> QED BY <1>3, <3>1, <3>2
  <2> QED BY <2>1, <2>2
<1>7. x = y
  BY <1>1, <1>3, <1>4, <1>5, <1>6, SeqEqual
<1> QED BY <1>7 DEF x, y, u, e, p

(* A path is split at the slashes that buildPath put there.                *)
LEMMA SplitBuilt ==
    ASSUME NEW C, Alphabet(C), NEW S \in Seq(Seq(C)), S # <<>>
    PROVE  Split(buildPath(S)) = Escaped(S)
<1> DEFINE Z == Seq(C)
           W == {t \in Seq(Z) : t # <<>> => Split(buildPath(t)) = Escaped(t)}
<1>1. <<>> \in W
  BY EmptySeq
<1>2. ASSUME NEW t \in Seq(Z), NEW s \in Z, t \in W PROVE Append(t, s) \in W
  <2> DEFINE b == buildPath(t)
             p == PathEscape(s)
  <2>1. /\ b \in Seq(C)
        /\ buildPath(Append(t, s)) = b \o (IF t = <<>> THEN <<>> ELSE <<Slash>>) \o p
        /\ t = <<>> => b = <<>>
    BY BuildAppend
  <2>2. p \in Seq(C \ {Slash})
    BY PathEscapeTells
  <2>3. p \in Seq(C) /\ Slash \in C
    BY <2>2, SeqMonotonic DEF Alphabet
  <2>4. Split(p) = <<p>>
    <3> HIDE DEF p
    <3>1. Slash \notin C \ {Slash}
      OBVIOUS
    <3> QED BY <2>2, <3>1, SplitPlain
  <2>5. Escaped(Append(t, s)) = Append(Escaped(t), p)
    BY EscapedAppend
  <2>6. Escaped(t) \in Seq(Z) /\ Len(Escaped(t)) = Len(t)
    BY EscapedTells
  <2>7. Append(t, s) \in Seq(Z)
    <3> HIDE DEF Z, W
    <3> QED BY AppendProperties
  <2> HIDE DEF b, p
  <2>8. Append(Escaped(t), p) = Escaped(t) \o <<p>>
    BY <2>3, <2>6, AppendIsConcat
  <2>9. CASE t = <<>>
    <3>1. buildPath(Append(t, s)) = p
      <4>1. b = <<>> /\ buildPath(Append(t, s)) = <<>> \o <<>> \o p
        BY <2>1, <2>9
      <4>2. <<>> \o <<>> \o p = p
        BY <2>3
      <4> QED BY <4>1, <4>2
    <3>2. Escaped(t) = <<>>
      BY <2>6, <2>9, EmptySeq
    <3>3. Escaped(t) \o <<p>> = <<p>>
      BY <3>2
    <3> QED BY <2>4, <2>5, <2>7, <2>8, <3>1, <3>3
  <2>10. CASE t # <<>>
    <3>1. buildPath(Append(t, s)) = b \o <<Slash>> \o p
      BY <2>1, <2>10
    <3>2. Split(b \o <<Slash>> \o p) = Split(b) \o Split(p)
      BY <2>1, <2>3, SplitConcat
    <3>3. Split(b) = Escaped(t)
      BY <1>2, <2>10 DEF b
    <3> QED BY <2>4, <2>5, <2>7, <2>8, <3>1, <3>2, <3>3
  <2> QED BY <2>9, <2>10
<1>3. Seq(Z) \subseteq W
  <2> HIDE DEF W, Z
  <2> QED BY <1>1, <1>2, EverySequence
<1> QED BY <1>3

(* The base path loses one slash at its end, and only that                 *)
(* (path.go:55-62).                                                        *)
Trimmed(C, base_, t) ==
    /\ t \in Seq(C)
    /\ \A r : resolvePath(base_, r) = t \o <<Slash>> \o r
    /\ \/ base_ = Append(t, Slash)
       \/ base_ = t /\ (base_ = <<>> \/ Last(base_) # Slash)

LEMMA ResolveTells ==
    ASSUME NEW C, NEW b \in Seq(C)
    PROVE  \E t : Trimmed(C, b, t)
<1>1. CASE b # <<>> /\ Last(b) = Slash
  <2>1. PICK t \in Seq(C), c \in C : b = Append(t, c)
    BY <1>1, SequenceEmptyOrAppend
  <2>2. Front(b) = t /\ c = Slash
    BY <1>1, <2>1, FrontAppend
  <2>3. Trimmed(C, b, t)
    BY <1>1, <2>1, <2>2 DEF Trimmed, resolvePath
  <2> QED BY <2>3
<1>2. CASE b = <<>> \/ Last(b) # Slash
  <2>1. Trimmed(C, b, b)
    BY <1>2 DEF Trimmed, resolvePath
  <2> QED BY <2>1
<1> QED BY <1>1, <1>2

Decoded(segments) == [i \in DOMAIN segments |-> Decode(segments[i])]

LEMMA DecodedTells ==
    ASSUME NEW C, NEW N \in Seq(Seq(C))
    PROVE  /\ Decoded(N) \in Seq(Seq(C \union {Slash, Percent, QuestionMark, "malformed"}))
           /\ Len(Decoded(N)) = Len(N)
           /\ \A i \in 1 .. Len(N) : Decoded(N)[i] = Decode(N[i])
<1> DEFINE F == C \union {Slash, Percent, QuestionMark, "malformed"}
           n == Len(N)
<1>1. n \in Nat /\ DOMAIN N = 1 .. n /\ \A i \in 1 .. n : N[i] \in Seq(C)
  BY LenProperties, ElementOfSeq
<1>2. ASSUME NEW s \in Seq(C) PROVE Decode(s) \in Seq(F)
  <2> DEFINE m == Len(s)
  <2>1. m \in Nat /\ DOMAIN s = 1 .. m /\ \A i \in 1 .. m : s[i] \in C
    BY LenProperties, ElementOfSeq
  <2> HIDE DEF m
  <2>2. Decode(s) \in [1 .. m -> F]
    BY <2>1 DEF Decode
  <2> QED BY <2>1, <2>2
<1> HIDE DEF n, F
<1>3. Decoded(N) \in [1 .. n -> Seq(F)]
  BY <1>1, <1>2 DEF Decoded
<1>4. Decoded(N) \in Seq(Seq(F)) /\ Len(Decoded(N)) = n
  BY <1>1, <1>3
<1>5. \A i \in 1 .. n : Decoded(N)[i] = Decode(N[i])
  BY <1>1 DEF Decoded
<1> QED BY <1>4, <1>5 DEF n, F

(* Segments that are decoded to what they were are received behind those   *)
(* that are there.                                                         *)
LEMMA DecodedConcat ==
    ASSUME NEW C, Alphabet(C), NEW N \in Seq(Seq(C)), NEW S \in Seq(Seq(C)),
           \A i \in 1 .. Len(S) : Unescaped(S[i])
    PROVE  Decoded(N \o Escaped(S)) = Decoded(N) \o S
<1> DEFINE F == C \union {Slash, Percent, QuestionMark, "malformed"}
           Z == Seq(C)
           G == Seq(F)
           E == Escaped(S)
           NE == N \o E
           d == Decoded(NE)
           dN == Decoded(N)
           y == dN \o S
<1>1. E \in Seq(Z) /\ Len(E) = Len(S) /\ \A i \in 1 .. Len(S) : E[i] = PathEscape(S[i])
  BY EscapedTells
<1>2. \A i \in 1 .. Len(S) : Decode(E[i]) = S[i]
  <2> SUFFICES ASSUME NEW i \in 1 .. Len(S) PROVE Decode(E[i]) = S[i]
    OBVIOUS
  <2>1. S[i] \in Seq(C) /\ Unescaped(S[i])
    BY ElementOfSeq
  <2> HIDE DEF E
  <2>2. Decode(PathEscape(S[i])) = S[i]
    BY <2>1, PathEscapeTells
  <2> QED BY <1>1, <2>2
<1> HIDE DEF E
<1>3. /\ NE \in Seq(Z) /\ Len(NE) = Len(N) + Len(E)
      /\ \A i \in 1 .. Len(N) + Len(E) :
            NE[i] = IF i <= Len(N) THEN N[i] ELSE E[i - Len(N)]
  <2> HIDE DEF Z
  <2>1. N \in Seq(Z) /\ E \in Seq(Z)
    BY <1>1 DEF Z
  <2> QED BY <2>1, ConcatProperties
<1> HIDE DEF NE
<1>4. d \in Seq(G) /\ Len(d) = Len(NE) /\ \A i \in 1 .. Len(NE) : d[i] = Decode(NE[i])
  BY <1>3, DecodedTells
<1>5. dN \in Seq(G) /\ Len(dN) = Len(N) /\ \A i \in 1 .. Len(N) : dN[i] = Decode(N[i])
  BY DecodedTells
<1>6. S \in Seq(G) /\ Len(S) \in Nat /\ Len(N) \in Nat
  <2>1. Z \subseteq G
    BY SeqMonotonic
  <2> HIDE DEF Z, G
  <2>2. S \in Seq(Z) /\ N \in Seq(Z)
    BY DEF Z
  <2> QED BY <2>1, <2>2, SeqMonotonic, LenProperties
<1> HIDE DEF d, dN, Z, G
<1>7. /\ y \in Seq(G) /\ Len(y) = Len(dN) + Len(S)
      /\ \A i \in 1 .. Len(dN) + Len(S) :
            y[i] = IF i <= Len(dN) THEN dN[i] ELSE S[i - Len(dN)]
  BY <1>5, <1>6, ConcatProperties
<1> HIDE DEF y
<1>8. \A i \in 1 .. Len(d) : d[i] = y[i]
  <2> SUFFICES ASSUME NEW i \in 1 .. Len(N) + Len(S) PROVE d[i] = y[i]
    BY <1>1, <1>3, <1>4
  <2>0. d[i] = Decode(NE[i])
    BY <1>1, <1>3, <1>4
  <2>1. CASE i <= Len(N)
    <3>1. i \in 1 .. Len(N)
      BY <1>6, <2>1
    <3>2. NE[i] = N[i] /\ y[i] = dN[i]
      BY <1>1, <1>3, <1>5, <1>7, <2>1
    <3> QED BY <1>5, <2>0, <3>1, <3>2
  <2>2. CASE ~(i <= Len(N))
    <3>1. i - Len(N) \in 1 .. Len(S)
      BY <1>6, <2>2
    <3>2. NE[i] = E[i - Len(N)] /\ y[i] = S[i - Len(N)]
      BY <1>1, <1>3, <1>5, <1>7, <2>2
    <3> QED BY <1>2, <2>0, <3>1, <3>2
  <2> QED BY <2>1, <2>2
<1>9. d = y
  BY <1>1, <1>3, <1>4, <1>5, <1>7, <1>8, SeqEqual
<1> QED BY <1>9 DEF d, y, NE, E, dN

(* The segments of a call: each a segment of its own once it is escaped.   *)
Segments(C, S) ==
    /\ S \in Seq(Seq(C)) /\ S # <<>>
    /\ \A i \in 1 .. Len(S) : ~Bad(S[i]) /\ Unescaped(S[i])

LEMMA TargetTells ==
    ASSUME NEW C, Alphabet(C), NEW S, Segments(C, S), NEW b, NEW t, Trimmed(C, b, t)
    PROVE  Split(resolvePath(b, buildPath(S))) = Split(t) \o Escaped(S)
<1>1. buildPath(S) \in Seq(C)
  <2>1. PICK s \in Seq(Seq(C)), e \in Seq(C) : S = Append(s, e)
    BY SequenceEmptyOrAppend DEF Segments
  <2>2. PICK g : BuildBy(C, S, g)
    BY BuildTells DEF Segments
  <2>3. Len(S) \in Nat
    BY LenProperties DEF Segments
  <2>4. Len(S) \in 0 .. Len(S)
    BY <2>3
  <2> QED BY <2>2, <2>4 DEF BuildBy
<1>2. resolvePath(b, buildPath(S)) = t \o <<Slash>> \o buildPath(S) /\ t \in Seq(C)
  BY DEF Trimmed
<1>3. Split(t \o <<Slash>> \o buildPath(S)) = Split(t) \o Split(buildPath(S))
  <2>1. Slash \in C
    BY DEF Alphabet
  <2> DEFINE p == buildPath(S)
  <2> HIDE DEF p
  <2>2. p \in Seq(C)
    BY <1>1 DEF p
  <2>3. Split(t \o <<Slash>> \o p) = Split(t) \o Split(p)
    BY <1>2, <2>1, <2>2, SplitConcat
  <2> QED BY <2>3 DEF p
<1>4. Split(buildPath(S)) = Escaped(S)
  BY SplitBuilt DEF Segments
<1> QED BY <1>2, <1>3, <1>4

LEMMA EscapedSegments ==
    ASSUME NEW C, Alphabet(C), NEW S, Segments(C, S)
    PROVE  Escaped(S) \in Seq({s \in Seq(C) : ~Bad(s)})
<1> DEFINE P == {s \in Seq(C) : ~Bad(s)}
           n == Len(S)
           e == Escaped(S)
<1>1. /\ e \in Seq(Seq(C)) /\ Len(e) = n
      /\ \A i \in 1 .. n : e[i] = PathEscape(S[i])
  BY EscapedTells DEF Segments
<1>2. n \in Nat /\ \A i \in 1 .. n : S[i] \in Seq(C) /\ ~Bad(S[i])
  BY LenProperties, ElementOfSeq DEF Segments
<1> HIDE DEF e, n
<1>3. \A i \in 1 .. n : e[i] \in P
  <2> SUFFICES ASSUME NEW i \in 1 .. n PROVE e[i] \in P
    OBVIOUS
  <2>1. PathEscape(S[i]) \in Seq(C \ {Slash}) /\ ~Bad(PathEscape(S[i]))
    BY <1>2, PathEscapeTells
  <2>2. PathEscape(S[i]) \in Seq(C)
    BY <2>1, SeqMonotonic
  <2> QED BY <1>1, <2>1, <2>2
<1> HIDE DEF P
<1>4. e \in [1 .. n -> P]
  <2> DEFINE Z == Seq(C)
  <2>1. e \in Seq(Z)
    BY <1>1
  <2> HIDE DEF Z
  <2>2. e \in [1 .. n -> Z]
    BY <1>1, <2>1, LenProperties
  <2> QED BY <1>3, <2>2
<1>5. e \in Seq(P)
  BY <1>2, <1>4
<1> QED BY <1>5 DEF e, P

(* A trailing slash of the base adds nothing to what is received.          *)
LEMMA TrimmedReceived ==
    ASSUME NEW C, Alphabet(C), NEW b, NEW t, Trimmed(C, b, t)
    PROVE  Normalise(Split(b)) = Normalise(Split(t))
<1>1. CASE b = t
  BY <1>1
<1>2. CASE b = Append(t, Slash)
  <2>1. t \in Seq(C) /\ Slash \in C
    BY DEF Trimmed, Alphabet
  <2> DEFINE s == Split(t)
             D == Seq(C)
  <2>2. s \in Parts(C) /\ Split(b) = AddCharacter(s, Slash)
    BY <1>2, <2>1, SplitAppend
  <2>3. <<>> \in D /\ s \in Seq(D)
    BY <2>2, EmptySeq DEF Parts
  <2> HIDE DEF s, D
  <2>4. Split(b) = Append(s, <<>>)
    BY <2>1, <2>2, AddCharacterTells
  <2>5. Normalise(Append(s, <<>>)) = Walk(Normalise(s), <<>>)
    BY <2>3, NormaliseAppend
  <2> QED BY <2>4, <2>5 DEF Walk, s
<1> QED BY <1>1, <1>2 DEF Trimmed

(* What is received is what the base is received as and, behind it, the    *)
(* segments of the call.                                                   *)
LEMMA RouteTells ==
    ASSUME NEW C, Alphabet(C), NEW S, Segments(C, S), NEW b \in Seq(C)
    PROVE  Received(resolvePath(b, buildPath(S))) = Received(b) \o S
<1>1. PICK t : Trimmed(C, b, t)
  BY ResolveTells
<1> DEFINE D == Seq(C)
           P == {s \in D : ~Bad(s)}
           A == Split(t)
           E == Escaped(S)
           N == Normalise(A)
           target_ == resolvePath(b, buildPath(S))
<1>2. Split(target_) = A \o E
  BY <1>1, TargetTells
<1>3. E \in Seq(P) /\ P \subseteq D /\ \A s \in P : ~Bad(s)
  BY EscapedSegments
<1>4. A \in Seq(D)
  BY <1>1, SplitType DEF Trimmed, Parts
<1> HIDE DEF A, E, D, P, target_
<1>5. Normalise(A \o E) = N \o E /\ N \in Seq(D)
  BY <1>3, <1>4, NormaliseConcat, NormaliseType
<1>6. Decoded(N \o E) = Decoded(N) \o S
  <2> HIDE DEF N
  <2>1. N \in Seq(Seq(C)) /\ S \in Seq(Seq(C)) /\ \A i \in 1 .. Len(S) : Unescaped(S[i])
    BY <1>5 DEF D, Segments
  <2> QED BY <2>1, DecodedConcat DEF E
<1>7. Received(target_) = Decoded(N \o E)
  BY <1>2, <1>5 DEF Received, Decoded
<1>8. Received(b) = Decoded(N)
  <2>1. Normalise(Split(b)) = N
    BY <1>1, TrimmedReceived DEF A
  <2> QED BY <2>1 DEF Received, Decoded
<1> QED BY <1>6, <1>7, <1>8 DEF target_

(* A base path without an empty segment, but for the first and the one a   *)
(* slash at its end makes.                                                 *)
Clean(b) == \A i \in 2 .. Len(Split(b)) - 1 : Split(b)[i] # <<>>

LEMMA NoneEmptyTells ==
    ASSUME NEW C, Alphabet(C), NEW S, Segments(C, S), NEW b \in Seq(C), Clean(b)
    PROVE  LET s == Split(resolvePath(b, buildPath(S)))
           IN  \A i \in 2 .. Len(s) : s[i] # <<>>
<1>1. PICK t : Trimmed(C, b, t)
  BY ResolveTells
<1> DEFINE D == Seq(C)
           P == {s \in D : ~Bad(s)}
           A == Split(t)
           E == Escaped(S)
           s == Split(resolvePath(b, buildPath(S)))
<1>2. s = A \o E
  BY <1>1, TargetTells
<1>3. E \in Seq(P) /\ P \subseteq D
  BY EscapedSegments
<1>4. A \in Seq(D) /\ A \in Parts(C) /\ t \in Seq(C)
  BY <1>1, SplitType DEF Trimmed, Parts
<1>5. \A i \in 2 .. Len(A) : A[i] # <<>>
  <2>1. CASE b = Append(t, Slash)
    <3>1. Split(b) = AddCharacter(A, Slash)
      <4>1. Slash \in C
        BY DEF Alphabet
      <4> QED BY <1>4, <2>1, <4>1, SplitAppend
    <3> HIDE DEF A, D
    <3>2. Split(b) = Append(A, <<>>) /\ <<>> \in D
      <4>1. Slash \in C
        BY DEF Alphabet
      <4> QED BY <1>4, <3>1, <4>1, AddCharacterTells, EmptySeq DEF D
    <3>3. /\ Len(Split(b)) = Len(A) + 1 /\ Len(A) \in Nat
          /\ \A i \in 1 .. Len(A) : Split(b)[i] = A[i]
      BY <1>4, <3>2, AppendProperties, LenProperties
    <3> QED BY <3>3 DEF Clean
  <2>2. CASE b = t /\ b = <<>>
    <3>1. A = << <<>> >>
      BY <2>2, SplitEmpty
    <3>2. Len(A) = 1
      BY <3>1
    <3> HIDE DEF A
    <3> QED BY <3>2
  <2>3. CASE b = t /\ b # <<>> /\ Last(b) # Slash
    <3>1. PICK r \in Seq(C), c \in C : b = Append(r, c)
      BY <2>3, SequenceEmptyOrAppend
    <3>2. c # Slash
      BY <2>3, <3>1, FrontAppend
    <3> DEFINE x == Split(r)
    <3>3. x \in Parts(C) /\ A = AddCharacter(x, c)
      BY <2>3, <3>1, SplitAppend
    <3> HIDE DEF x, A
    <3>4. /\ Len(A) = Len(x)
          /\ \A i \in 1 .. Len(x) : A[i] = IF i = Len(x) THEN Append(x[i], c) ELSE x[i]
      BY <3>2, <3>3, AddCharacterTells
    <3>5. x \in Seq(Seq(C)) /\ Len(x) \in Nat \ {0}
      BY <3>3, EmptySeq DEF Parts
    <3>6. Len(x) \in 1 .. Len(x) /\ x[Len(x)] \in Seq(C)
      <4>1. Len(x) \in 1 .. Len(x)
        BY <3>5
      <4> QED BY <3>5, <4>1, ElementOfSeq
    <3>7. A[Len(x)] # <<>>
      <4> DEFINE y == x[Len(x)]
      <4>1. A[Len(x)] = Append(y, c) /\ y \in Seq(C)
        BY <3>4, <3>6
      <4> HIDE DEF y
      <4> QED BY <4>1, AppendProperties
    <3>8. \A i \in 2 .. Len(A) - 1 : A[i] # <<>>
      BY <2>3 DEF Clean, A
    <3>9. \A i \in 2 .. Len(A) : i = Len(x) \/ i \in 2 .. Len(A) - 1
      BY <3>4, <3>5
    <3> QED BY <3>7, <3>8, <3>9
  <2> QED BY <1>1, <2>1, <2>2, <2>3 DEF Trimmed
<1>6. \A i \in 1 .. Len(E) : E[i] # <<>>
  <2>1. \A e \in P : e # <<>>
    BY DEF Bad
  <2> HIDE DEF E, P
  <2> QED BY <1>3, <2>1, ElementOfSeq
<1> HIDE DEF A, E, s, D, P
<1>7. /\ Len(A) \in Nat \ {0} /\ Len(E) \in Nat
      /\ Len(s) = Len(A) + Len(E)
      /\ \A i \in 1 .. Len(A) + Len(E) : s[i] = IF i <= Len(A) THEN A[i] ELSE E[i - Len(A)]
  <2>1. E \in Seq(D)
    BY <1>3, SeqMonotonic
  <2>2. A # <<>>
    BY <1>4 DEF Parts
  <2> QED BY <1>2, <1>4, <2>1, <2>2, ConcatProperties, EmptySeq, LenProperties
<1>8. ASSUME NEW i \in 2 .. Len(s) PROVE s[i] # <<>>
  <2>1. CASE i <= Len(A)
    <3>1. i \in 2 .. Len(A) /\ i \in 1 .. Len(A) + Len(E)
      BY <1>7, <2>1
    <3> QED BY <1>5, <1>7, <2>1, <3>1
  <2>2. CASE ~(i <= Len(A))
    <3>1. i - Len(A) \in 1 .. Len(E) /\ i \in 1 .. Len(A) + Len(E)
      BY <1>7, <2>2
    <3> QED BY <1>6, <1>7, <2>2, <3>1
  <2> QED BY <2>1, <2>2
<1> QED BY <1>8 DEF s

-----------------------------------------------------------------------------
(* The fixed words of a path are none of the characters that mean          *)
(* something alone, and every path has a word.                             *)
Word(w) == w \notin {Dot, "%2F", "%25", "%3F"}

Worded(path) == PathLike(path) /\ 1 \in DOMAIN path /\ \A i \in DOMAIN path : Word(path[i])

LEMMA WordsMakePaths ==
    ASSUME NEW S, \A w \in S : Word(w), NEW path \in Seq(S), path # <<>>
    PROVE  Worded(path)
<1> DEFINE n == Len(path)
<1>1. n \in Nat \ {0} /\ DOMAIN path = 1 .. n /\ \A i \in 1 .. n : path[i] \in S
  BY EmptySeq, LenProperties, ElementOfSeq
<1> HIDE DEF n
<1>2. PathLike(path)
  BY <1>1 DEF PathLike
<1>3. 1 \in DOMAIN path
  BY <1>1
<1>4. \A i \in DOMAIN path : Word(path[i])
  BY <1>1
<1> QED BY <1>2, <1>3, <1>4 DEF Worded

LEMMA CollectionWords ==
    ASSUME NEW S, ID \in S, \A w \in S : Word(w), NEW coll \in Seq(S), coll # <<>>
    PROVE  \A o \in CRUD(coll) \union ReadOnly(coll) \union MemberList(coll)
                        \union {Toggle(coll)} : Worded(o.path)
<1>1. Append(coll, ID) \in Seq(S) /\ Append(coll, ID) # <<>>
  BY AppendProperties
<1>2. Worded(coll) /\ Worded(Append(coll, ID))
  BY <1>1, WordsMakePaths
<1>3. /\ \A o \in CRUD(coll) : o.path \in {coll, Append(coll, ID)}
      /\ \A o \in ReadOnly(coll) : o.path \in {coll, Append(coll, ID)}
      /\ \A o \in MemberList(coll) : o.path \in {coll, Append(coll, ID)}
      /\ Toggle(coll).path = Append(coll, ID)
  BY DEF CRUD, ReadOnly, MemberList, Toggle, Get, List, Create, Update, Delete, Op
<1> QED BY <1>2, <1>3

LEMMA OperationWords == \A o \in Operations : Worded(o.path)
<1> DEFINE Words == {"sites", "groups", "resources", "policies", "actors", "clients",
                     "verify", "unverify", "gateways", "token", "rotate", "memberships",
                     "pool_members", "email_otp_auth_providers", "oidc_auth_providers",
                     "google_auth_providers", "entra_auth_providers",
                     "okta_auth_providers", "github_auth_providers", "entra_directories",
                     "google_directories", "okta_directories", ID}
<1>1. \A w \in Words : Word(w)
  BY DEF Word, Dot, ID
<1>2. ID \in Words
  OBVIOUS
<1>w. /\ {"sites", "groups", "resources", "policies", "actors", "clients"} \subseteq Words
      /\ {"email_otp_auth_providers", "oidc_auth_providers", "google_auth_providers",
          "entra_auth_providers", "okta_auth_providers", "github_auth_providers",
          "entra_directories", "google_directories", "okta_directories"} \subseteq Words
      /\ {"gateways", "memberships", "pool_members", "verify", "unverify"} \subseteq Words
      /\ {"token", "rotate"} \subseteq Words
  OBVIOUS
<1> HIDE DEF Words
<1>3. ASSUME NEW w \in Words
      PROVE  /\ \A o \in CRUD(<<w>>) : Worded(o.path)
             /\ \A o \in ReadOnly(<<w>>) : Worded(o.path)
             /\ Worded(Toggle(<<w>>).path)
  <2>1. <<w>> \in Seq(Words) /\ <<w>> # <<>>
    OBVIOUS
  <2> QED BY <1>1, <1>2, <2>1, CollectionWords
<1>4. ASSUME NEW a \in Words, NEW b \in Words
      PROVE  /\ \A o \in CRUD(<<a, ID, b>>) : Worded(o.path)
             /\ \A o \in MemberList(<<a, ID, b>>) : Worded(o.path)
             /\ Worded(<<a, ID, b>>)
  <2>1. <<a, ID, b>> \in Seq(Words) /\ <<a, ID, b>> # <<>>
    BY <1>2
  <2> QED BY <1>1, <1>2, <2>1, CollectionWords, WordsMakePaths
<1>5. \A o \in Sites \union Groups \union Resources \union Policies \union Actors :
         Worded(o.path)
  BY <1>3, <1>w DEF Sites, Groups, Resources, Policies, Actors
<1>6. \A o \in Memberships \union PoolMembers : Worded(o.path)
  BY <1>4, <1>w DEF Memberships, PoolMembers
<1>7. \A o \in AuthProviders \union Directories : Worded(o.path)
  BY <1>3, <1>w DEF AuthProviders, Directories
<1>8. \A o \in ClientDevices : Worded(o.path)
  <2>1. \A o \in ClientDevices :
           \/ o \in CRUD(<<"clients">>)
           \/ o.path = <<"clients", ID, "verify">>
           \/ o.path = <<"clients", ID, "unverify">>
    BY DEF ClientDevices, CRUD, ReadOnly, Op
  <2> QED BY <1>3, <1>4, <1>w, <2>1
<1>9. \A o \in Gateways : Worded(o.path)
  <2> DEFINE coll   == <<"sites", ID, "gateways">>
             rotate == <<ID, "token", "rotate">>
  <2>1. coll \in Seq(Words) /\ rotate \in Seq(Words) /\ coll # <<>>
    BY <1>2, <1>w
  <2>2. \A o \in Gateways : o \in CRUD(coll) \/ o.path = coll \o rotate
    BY DEF Gateways, Op
  <2>3. \A o \in CRUD(coll) : Worded(o.path)
    BY <1>4, <1>w
  <2> HIDE DEF coll, rotate
  <2>4. coll \o rotate \in Seq(Words) /\ coll \o rotate # <<>>
    BY <2>1, ConcatProperties, ConcatEqualIffEmpty
  <2>5. Worded(coll \o rotate)
    BY <1>1, <2>4, WordsMakePaths
  <2> QED BY <2>2, <2>3, <2>5
<1> QED BY <1>5, <1>6, <1>7, <1>8, <1>9 DEF Operations

-----------------------------------------------------------------------------
(* What is asked for, segment by segment.                                  *)
Asked(o, given) == [i \in DOMAIN o.path |->
                       IF o.path[i] = ID THEN given[i] ELSE <<o.path[i]>>]

(* The characters of the segments of a call and of its base.               *)
Characters(o, b) ==
    {b[i] : i \in DOMAIN b} \union {o.path[i] : i \in DOMAIN o.path}
        \union {"x", Dot, Slash, Percent, QuestionMark, "%2F", "%25", "%3F"}

LEMMA AskedTells ==
    ASSUME NEW o \in Operations, NEW given \in [Places(o) -> IDs],
           \A i \in Places(o) : ~Bad(given[i]), NEW b \in Bases
    PROVE  /\ Alphabet(Characters(o, b)) /\ b \in Seq(Characters(o, b))
           /\ Segments(Characters(o, b), Asked(o, given))
<1> DEFINE C == Characters(o, b)
           S == Asked(o, given)
<1>1. Alphabet(C)
  BY DEF Alphabet, Characters
<1>2. b \in Seq(C)
  <2>1. b \in Seq(STRING)
    BY EndpointsAssumption
  <2>2. Len(b) \in Nat /\ b \in [1 .. Len(b) -> STRING] /\ DOMAIN b = 1 .. Len(b)
    BY <2>1, LenProperties
  <2> DEFINE n == Len(b)
  <2>3. \A i \in 1 .. n : b[i] \in C
    BY <2>2 DEF Characters
  <2> HIDE DEF C
  <2>4. b \in [1 .. n -> C]
    BY <2>2, <2>3
  <2> HIDE DEF n
  <2> QED BY <2>2, <2>4 DEF n
<1>3. Worded(o.path)
  BY OperationWords
<1>4. PICK n \in Nat : DOMAIN o.path = 1 .. n
  BY <1>3 DEF Worded, PathLike
<1>5. ASSUME NEW i \in 1 .. n
      PROVE  S[i] \in Seq(C) /\ ~Bad(S[i]) /\ Unescaped(S[i])
  <2>1. CASE o.path[i] = ID
    <3>1. S[i] = given[i] /\ i \in Places(o) /\ given[i] \in IDs
      BY <1>4, <2>1 DEF Asked, Places
    <3> DEFINE id == given[i]
    <3>2. PICK m \in 0 .. MaxIDLength : id \in [1 .. m -> {"x", Dot, Slash, Percent, QuestionMark}]
      BY <3>1 DEF IDs
    <3> HIDE DEF id
    <3>3. m \in Nat
      BY EndpointsAssumption
    <3>4. id \in Seq(C)
      <4>1. {"x", Dot, Slash, Percent, QuestionMark} \subseteq C
        BY DEF Characters
      <4> HIDE DEF C
      <4>2. id \in [1 .. m -> C]
        BY <3>2, <4>1
      <4> QED BY <3>3, <4>2
    <3>5. Unescaped(id)
      BY <3>2 DEF Unescaped, Dot, Slash, Percent, QuestionMark
    <3> QED BY <3>1, <3>4, <3>5 DEF id
  <2>2. CASE o.path[i] # ID
    <3> DEFINE w == o.path[i]
    <3>1. S[i] = <<w>> /\ w \in C /\ Word(w)
      BY <1>3, <1>4, <2>2 DEF Asked, Characters, Worded
    <3> HIDE DEF w, C, S
    <3>2. <<w>> \in Seq(C)
      BY <3>1
    <3>3. DOMAIN <<w>> = 1 .. 1 /\ <<w>>[1] = w
      OBVIOUS
    <3>4. Unescaped(<<w>>)
      BY <3>1, <3>3 DEF Unescaped, Word
    <3>5. <<w>> # <<>> /\ <<w>> # <<Dot>> /\ <<w>> # <<Dot, Dot>>
      <4>1. w # Dot
        BY <3>1 DEF Word
      <4>2. DOMAIN <<Dot, Dot>> = 1 .. 2 /\ <<Dot>>[1] = Dot
        OBVIOUS
      <4>3. 2 \in 1 .. 2 /\ 2 \notin 1 .. 1
        OBVIOUS
      <4> QED BY <3>3, <4>1, <4>2, <4>3
    <3> QED BY <3>1, <3>2, <3>4, <3>5 DEF Bad
  <2> QED BY <2>1, <2>2
<1>6. S = [i \in 1 .. n |-> S[i]]
  BY <1>4 DEF Asked
<1> HIDE DEF C, S
<1>7. S \in Seq(Seq(C)) /\ Len(S) = n
  <2> DEFINE Z == Seq(C)
  <2> HIDE DEF Z
  <2>1. S \in [1 .. n -> Z]
    BY <1>5, <1>6 DEF Z
  <2>2. S \in Seq(Z) /\ Len(S) = n
    BY <1>4, <2>1
  <2> QED BY <2>2 DEF Z
<1>8. n # 0
  BY <1>3, <1>4 DEF Worded
<1>9. Segments(C, S)
  <2>1. S # <<>>
    BY <1>7, <1>8, EmptySeq
  <2> QED BY <1>5, <1>7, <2>1 DEF Segments
<1> QED BY <1>1, <1>2, <1>9 DEF C, S

(* What has been sent is what resolvePath and buildPath made of the call.  *)
SentInv ==
    /\ op \in Operations /\ ids \in [Places(op) -> IDs] /\ base \in Bases
    /\ result = "sent" =>
          pc = "done" /\ target = resolvePath(base, buildPath(Asked(op, ids)))

LEMMA SentInvHolds == Spec => []SentInv
<1>1. Init => SentInv
  BY DEF Init, SentInv
<1>2. SentInv /\ [Next]_vars => SentInv'
  <2> SUFFICES ASSUME SentInv, [Next]_vars PROVE SentInv'
    OBVIOUS
  <2> USE DEF SentInv
  <2>1. CASE CheckID
    <3>1. /\ pc = "check" /\ UNCHANGED <<op, ids, base>>
          /\ \/ UNCHANGED result
             \/ \E i : result' = checkID(ids[i])
      BY <2>1 DEF CheckID, Reject
    <3>2. \A i : checkID(ids[i]) # "sent"
      BY CheckIDTells
    <3>3. result' # "sent"
      BY <3>1, <3>2
    <3>4. Places(op)' = Places(op)
      BY <3>1 DEF Places
    <3> QED BY <3>1, <3>3, <3>4
  <2>2. CASE WrapBody
    <3>1. pc = "check" /\ UNCHANGED <<op, ids, base>> /\ (UNCHANGED result \/ result' = "nil request")
      BY <2>2 DEF WrapBody, Reject
    <3>2. Places(op)' = Places(op)
      BY <3>1 DEF Places
    <3> QED BY <3>1, <3>2
  <2>3. CASE Send
    <3>1. /\ pc' = "done" /\ UNCHANGED <<op, ids, base>>
          /\ target' = resolvePath(base, buildPath(Asked(op, ids)))
      BY <2>3 DEF Send, Asked
    <3>2. Places(op)' = Places(op)
      BY <3>1 DEF Places
    <3> QED BY <3>1, <3>2
  <2>4. CASE UNCHANGED vars
    <3>1. UNCHANGED <<op, ids, base, pc, result, target>>
      BY <2>4 DEF vars
    <3>2. Places(op)' = Places(op)
      BY <3>1 DEF Places
    <3> QED BY <3>1, <3>2
  <2> QED BY <2>1, <2>2, <2>3, <2>4 DEF Next, Done
<1> QED BY <1>1, <1>2, PTL DEF Spec

(* Nothing unusable is among what has been sent.                           *)
LEMMA SentIsGood ==
    ASSUME SentInv, RejectsBeforeSending, result = "sent"
    PROVE  /\ Alphabet(Characters(op, base)) /\ base \in Seq(Characters(op, base))
           /\ Segments(Characters(op, base), Asked(op, ids))
           /\ target = resolvePath(base, buildPath(Asked(op, ids)))
<1>1. \A i \in Places(op) : ~Bad(ids[i])
  BY DEF SentInv, RejectsBeforeSending, Bad
<1> QED BY <1>1, AskedTells DEF SentInv

(* A request reaches the endpoint of its method with exactly the IDs it    *)
(* was given, whatever they hold, whatever the path of the base URL is and *)
(* whether or not it ends with a slash: no ID is split, merged, resolved   *)
(* as a dot segment, decoded to something else or lost (path.go:13-19 and  *)
(* 40-62).                                                                 *)
THEOREM EveryIDArrives == Spec => []RoutedAsMeant
<1>1. SentInv /\ RejectsBeforeSending => RoutedAsMeant
  <2> SUFFICES ASSUME SentInv, RejectsBeforeSending, result = "sent"
               PROVE  Received(target) = Received(base) \o Asked(op, ids)
    BY DEF RoutedAsMeant, Asked
  <2> DEFINE C == Characters(op, base)
             S == Asked(op, ids)
  <2>1. /\ Alphabet(C) /\ base \in Seq(C) /\ Segments(C, S)
        /\ target = resolvePath(base, buildPath(S))
    BY SentIsGood
  <2> HIDE DEF C, S
  <2> QED BY <2>1, RouteTells DEF S
<1> QED BY <1>1, SentInvHolds, NothingBadIsSent, PTL

(* The path of a base URL has no empty segment of its own.                 *)
CleanBases == \A b \in Bases : Clean(b)

(* No request has an empty segment in its path: an ID makes none, and      *)
(* neither does a base URL, with a slash at its end or without one, that   *)
(* has none itself (path.go:55-62, TestBaseURLPathPrefixPreserved).        *)
THEOREM NoSegmentIsEmpty ==
    ASSUME CleanBases PROVE Spec => []NoEmptySegment
<1>1. SentInv /\ RejectsBeforeSending => NoEmptySegment
  <2> SUFFICES ASSUME SentInv, RejectsBeforeSending, result = "sent"
               PROVE  \A i \in 2 .. Len(Split(target)) : Split(target)[i] # <<>>
    BY DEF NoEmptySegment
  <2> DEFINE C == Characters(op, base)
             S == Asked(op, ids)
  <2>1. /\ Alphabet(C) /\ base \in Seq(C) /\ Segments(C, S)
        /\ target = resolvePath(base, buildPath(S))
    BY SentIsGood
  <2>2. Clean(base)
    BY DEF CleanBases, SentInv
  <2> HIDE DEF C, S
  <2> QED BY <2>1, <2>2, NoneEmptyTells
<1> QED BY <1>1, SentInvHolds, NothingBadIsSent, PTL
=============================================================================
