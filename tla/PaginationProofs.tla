-------------------------- MODULE PaginationProofs --------------------------
(***************************************************************************)
(* A walk over a list of any size, whoever changes it and whichever calls  *)
(* fail: it shows nothing that never matched, no item twice, and when it   *)
(* is over it has missed no item that was there all the time.  The cursor  *)
(* divides the keys: what was seen lies up to it, and all steady items up  *)
(* to it were seen.  A page in flight continues from there.                *)
(***************************************************************************)
EXTENDS Pagination, FiniteSetTheorems, WellFoundedInduction, TLAPS

Cursor == opts.PageCursor

(* What was seen lies up to the cursor, and everything steady up to it was  *)
(* seen.                                                                    *)
CursorInv ==
    /\ seen \subseteq ever
    /\ pc # "ended" => \A k \in seen : k <= Cursor
    /\ \A k \in steady : k <= Cursor \/ pc = "ended" => k \in seen
    /\ steady \subseteq Matching /\ Matching \subseteq ever

(* A request is for the list after the cursor, with the caller's filter,    *)
(* and a page has the beginning of it: everything steady up to the next    *)
(* cursor, whatever has changed since the API made the page.               *)
PageInv ==
    /\ pc \in {"asked", "answered"} => query = filterQuery(opts)
    /\ pc # "answered" => page = NoPage
    /\ pc = "answered" =>
           /\ page.Data \subseteq ever
           /\ \A k \in page.Data : k > Cursor
           /\ ~Over(page) => page.NextPage \in LastOf(page.Data)
           /\ \A k \in steady : k > Cursor /\ (Over(page) \/ k <= page.NextPage)
                                   => k \in page.Data

IInv == TypeOK /\ CursorInv /\ PageInv


-----------------------------------------------------------------------------
(* Of the sets of keys that go with the keys of a set, there is a smallest. *)
LEMMA SmallestExists ==
    ASSUME NEW T \in SUBSET Keys, T # {}, NEW part \in [T -> SUBSET T]
    PROVE  \E k \in T : \A j \in T : ~(part[j] \subseteq part[k] /\ part[j] # part[k])
<1> DEFINE R == StrictSubsetOrdering(T)
           parts == {part[k] : k \in T}
<1>1. IsFiniteSet(T)
  BY PaginationAssumption, FS_Subset
<1>2. IsWellFoundedOn(R, FiniteSubsetsOf(T))
  BY FS_StrictSubsetOrderingWellFounded
<1>3. parts \subseteq FiniteSubsetsOf(T) /\ parts # {}
  BY <1>1, FS_FiniteSubsetsOfFinite
<1> HIDE DEF R, parts
<1>4. PICK p \in parts : \A q \in parts : ~(<<q, p>> \in R)
  BY <1>2, <1>3, WFMin
<1>5. PICK k \in T : p = part[k]
  BY DEF parts
<1>6. ASSUME NEW j \in T, part[j] \subseteq part[k], part[j] # part[k]
      PROVE  <<part[j], p>> \in R
  <2>1. \A A, B \in SUBSET T : A \subseteq B /\ A # B => <<A, B>> \in R
    BY DEF R, StrictSubsetOrdering
  <2>2. part[j] \in SUBSET T /\ part[k] \in SUBSET T
    OBVIOUS
  <2> QED BY <1>5, <1>6, <2>1, <2>2
<1>7. \A j \in T : part[j] \in parts
  BY DEF parts
<1> QED BY <1>4, <1>5, <1>6, <1>7

(* A set of keys that is not empty has a first and a last one.              *)
LEMMA FirstExists ==
    ASSUME NEW T \in SUBSET Keys, T # {}
    PROVE  \E k \in T : \A j \in T : ~(j < k)
<1> DEFINE part == [k \in T |-> {j \in T : j < k}]
<1>1. T \subseteq Nat
  BY PaginationAssumption
<1>2. PICK k \in T : \A j \in T : ~(part[j] \subseteq part[k] /\ part[j] # part[k])
  <2> HIDE DEF part
  <2>1. part \in [T -> SUBSET T]
    BY DEF part
  <2> QED BY <2>1, SmallestExists
<1>3. ASSUME NEW j \in T, j < k
      PROVE  part[j] \subseteq part[k] /\ j \in part[k] /\ j \notin part[j]
  <2>1. \A i \in T : i \in Nat
    BY <1>1
  <2>2. \A i \in part[j] : i \in part[k]
    BY <1>3, <2>1
  <2> QED BY <1>3, <2>1, <2>2
<1> HIDE DEF part
<1> QED BY <1>2, <1>3

LEMMA LastExists ==
    ASSUME NEW T \in SUBSET Keys, T # {}
    PROVE  LastOf(T) # {}
<1> DEFINE part == [k \in T |-> {j \in T : j > k}]
<1>1. T \subseteq Nat
  BY PaginationAssumption
<1>2. PICK k \in T : \A j \in T : ~(part[j] \subseteq part[k] /\ part[j] # part[k])
  <2> HIDE DEF part
  <2>1. part \in [T -> SUBSET T]
    BY DEF part
  <2> QED BY <2>1, SmallestExists
<1>3. ASSUME NEW j \in T, j > k
      PROVE  part[j] \subseteq part[k] /\ j \in part[k] /\ j \notin part[j]
  <2>1. \A i \in T : i \in Nat
    BY <1>1
  <2>2. \A i \in part[j] : i \in part[k]
    BY <1>3, <2>1
  <2> QED BY <1>3, <2>1, <2>2
<1>4. \A j \in T : ~(j > k)
  <2> HIDE DEF part
  <2> QED BY <1>2, <1>3
<1> QED BY <1>1, <1>4 DEF LastOf

(* What the API puts on a page: the first items, no more than the limit,    *)
(* and one at least if there is any.                                       *)
LEMMA FirstItems ==
    ASSUME NEW T \in SUBSET Keys, NEW n \in Nat \ {0}
    PROVE  /\ FirstOf(n, T) \subseteq T
           /\ \A k \in FirstOf(n, T), j \in T : j < k => j \in FirstOf(n, T)
           /\ T # {} => FirstOf(n, T) # {}
           /\ IsFiniteSet(FirstOf(n, T)) /\ Cardinality(FirstOf(n, T)) <= n
<1> DEFINE Before(k) == {j \in T : j < k}
           data == FirstOf(n, T)
<1>1. IsFiniteSet(T) /\ T \subseteq Nat
  BY PaginationAssumption, FS_Subset
<1>2. \A k \in T : IsFiniteSet(Before(k)) /\ Cardinality(Before(k)) \in Nat
  BY <1>1, FS_Subset, FS_CardinalityType
<1>3. data = {k \in T : Cardinality(Before(k)) < n}
  BY DEF FirstOf
<1> HIDE DEF data
<1>4. ASSUME NEW k \in data, NEW j \in T, j < k
      PROVE  j \in data
  <2>1. k \in T /\ \A i \in T : i \in Nat
    BY <1>1, <1>3
  <2>2. \A i \in Before(j) : i \in Before(k)
    BY <1>4, <2>1
  <2>3. Before(j) \in SUBSET Before(k)
    BY <2>2
  <2>4. Cardinality(Before(j)) <= Cardinality(Before(k))
    BY <1>2, <2>1, <2>3, FS_Subset
  <2>5. Cardinality(Before(j)) \in Nat /\ Cardinality(Before(k)) \in Nat
    BY <1>2, <2>1
  <2>6. Cardinality(Before(k)) < n
    BY <1>3
  <2> HIDE DEF Before
  <2> QED BY <1>3, <2>4, <2>5, <2>6
<1>5. ASSUME T # {}
      PROVE  data # {}
  <2>1. PICK k \in T : \A j \in T : ~(j < k)
    BY <1>5, FirstExists
  <2>2. Before(k) = {}
    BY <2>1
  <2>3. Cardinality(Before(k)) = 0
    BY <2>2, FS_EmptySet
  <2> QED BY <1>3, <2>3
<1>6. IsFiniteSet(data) /\ data \in SUBSET T
  BY <1>1, <1>3, FS_Subset
<1>7. Cardinality(data) <= n
  <2>1. CASE data = {}
    BY <2>1, FS_EmptySet
  <2>2. CASE data # {}
    <3>1. PICK k \in data : \A j \in data : j <= k
      BY <1>6, <2>2, LastExists DEF LastOf
    <3>2. data \ {k} \in SUBSET Before(k) /\ k \in T
      BY <1>1, <1>6, <3>1
    <3>3. Cardinality(data \ {k}) <= Cardinality(Before(k))
      BY <1>2, <3>2, FS_Subset
    <3>4. Cardinality(data \ {k}) = Cardinality(data) - 1 /\ Cardinality(data) \in Nat
      BY <1>6, FS_RemoveElement, FS_CardinalityType
    <3>5. Cardinality(Before(k)) < n /\ Cardinality(Before(k)) \in Nat
      BY <1>2, <1>3, <3>2
    <3> HIDE DEF Before
    <3> QED BY <3>3, <3>4, <3>5
  <2> QED BY <2>1, <2>2
<1> QED BY <1>4, <1>5, <1>6, <1>7 DEF data

(* The API has a limit of one at least, and keeps to the caller's if there  *)
(* is one.                                                                 *)
LEMMA LimitApplied ==
    ASSUME NEW o, o.Limit \in Int
    PROVE  LET limit == Applied(listOptionsToQuery(o).limit)
           IN  limit \in Nat \ {0} /\ (o.Limit > 0 => limit <= o.Limit)
BY PaginationAssumption DEF Applied, listOptionsToQuery

-----------------------------------------------------------------------------
LEMMA Kinds ==
    ASSUME TypeOK
    PROVE  /\ opts.Limit \in Int
           /\ Cursor \in Nat /\ page.NextPage \in Nat
           /\ \A k \in Keys : k \in Nat /\ k # 0
           /\ seen \subseteq Keys /\ steady \subseteq ever /\ ever \subseteq Keys
           /\ page.Data \subseteq Keys
<1>1. \A k \in Keys : k \in Nat /\ k # 0
  BY PaginationAssumption
<1>2. opts.Limit \in Limits /\ opts.PageCursor \in Keys \union {0} /\ page.NextPage \in Keys \union {0}
  BY DEF TypeOK
<1>3. \A l \in Limits : l \in Int
  BY PaginationAssumption
<1> QED BY <1>1, <1>2, <1>3 DEF TypeOK, Cursor

LEMMA InitIInv == Init => IInv
<1> SUFFICES ASSUME Init PROVE IInv
  OBVIOUS
<1>1. Matching \subseteq Keys
  BY DEF Matching
<1>2. TypeOK
  <2>1. items \in [Keys -> {Unused, Gone} \union {Item(n) : n \in Names}]
    BY DEF Init
  <2>2. opts \in [Limit : Limits, PageCursor : Keys \union {0}, Name : Filters]
    BY DEF Init
  <2>3. 0 \in 0 .. MaxFailures
    BY PaginationAssumption
  <2>4. Cardinality({}) = 0
    BY FS_EmptySet
  <2>5. opts.Limit > 0 => 0 <= opts.Limit
    <3>1. opts.Limit \in Int
      BY <2>2, PaginationAssumption
    <3> QED BY <3>1
  <2> QED BY <1>1, <2>1, <2>2, <2>3, <2>4, <2>5 DEF Init, TypeOK, NoPage
<1>3. CursorInv
  BY <1>1, PaginationAssumption DEF Init, CursorInv, Cursor
<1>4. PageInv
  BY DEF Init, PageInv
<1> QED BY <1>2, <1>3, <1>4 DEF IInv

(* The API takes the page from what matches after the cursor, from the      *)
(* beginning, and gives the key it ends with unless it is all there is.    *)
LEMMA ServeKeepsInv ==
    ASSUME IInv, Serve
    PROVE  IInv'
<1> USE DEF IInv
<1> DEFINE limit == Applied(query.options.limit)
           rest  == Rest(query)
           data  == FirstOf(limit, rest)
<1>1. query = filterQuery(opts) /\ pc = "asked" /\ pc' = "answered"
  BY DEF Serve, PageInv
<1>2. opts.Limit \in Int /\ Cursor \in Nat /\ \A k \in Keys : k \in Nat /\ k # 0
  BY Kinds
<1>3. limit \in Nat \ {0} /\ (opts.Limit > 0 => limit <= opts.Limit)
  BY <1>1, <1>2, LimitApplied DEF filterQuery
<1>4. rest = {k \in Matching : k > Cursor}
  BY <1>1 DEF Rest, Matching, filterQuery, listOptionsToQuery, Cursor
<1>5. rest \in SUBSET Keys
  BY DEF Rest
<1> HIDE DEF limit, rest
<1>6. /\ data \subseteq rest
      /\ \A k \in data, j \in rest : j < k => j \in data
      /\ rest # {} => data # {}
      /\ Cardinality(data) \in Nat /\ Cardinality(data) <= limit
  BY <1>3, <1>5, FirstItems, FS_CardinalityType
<1>7. page'.Data = data /\ page'.NextPage \in NextPages(query, data)
  BY DEF Serve, Page, limit, rest
<1> HIDE DEF data
<1>8. \/ page'.NextPage = 0 /\ data = rest
      \/ page'.NextPage \in LastOf(data) /\ page'.NextPage # 0
  <2>1. 0 \notin data
    BY <1>5, <1>6, PaginationAssumption
  <2> QED BY <1>7, <2>1 DEF NextPages, LastOf, rest
<1>9. UNCHANGED <<items, opts, query, seen, failures, steady, ever>>
  BY DEF Serve
<1>10. TypeOK'
  <2>1. page'.NextPage \in Keys \union {0}
    BY <1>5, <1>6, <1>8 DEF LastOf
  <2>2. opts.Limit > 0 => Cardinality(page'.Data) <= opts.Limit
    BY <1>2, <1>3, <1>6, <1>7
  <2> QED BY <1>1, <1>5, <1>6, <1>7, <1>9, <2>1, <2>2 DEF TypeOK
<1>11. CursorInv'
  BY <1>1, <1>9 DEF CursorInv, Cursor, Matching
<1>12. PageInv'
  <2>1. page'.Data \subseteq ever /\ \A k \in page'.Data : k > Cursor
    BY <1>4, <1>6, <1>7 DEF CursorInv
  <2>2. ~Over(page') => page'.NextPage \in LastOf(page'.Data)
    BY <1>7, <1>8 DEF Over
  <2>3. ASSUME NEW k \in steady, k > Cursor, Over(page') \/ k <= page'.NextPage
        PROVE  k \in page'.Data
    <3>1. k \in rest
      BY <1>4, <2>3 DEF CursorInv
    <3>2. CASE Over(page')
      BY <1>7, <1>8, <3>1, <3>2, <1>5, <1>6, PaginationAssumption DEF Over, LastOf
    <3>3. CASE ~Over(page')
      <4>1. page'.NextPage \in data /\ k <= page'.NextPage
        BY <1>8, <2>3, <3>3 DEF Over, LastOf
      <4>2. k \in Nat /\ page'.NextPage \in Nat
        BY <1>2, <1>5, <1>6, <3>1, <4>1
      <4> QED BY <1>6, <1>7, <3>1, <4>1, <4>2
    <3> QED BY <3>2, <3>3
  <2> QED BY <1>1, <1>9, <2>1, <2>2, <2>3 DEF PageInv, Cursor, Over
<1> QED BY <1>10, <1>11, <1>12

(* The cursor moves to the end of the page, and the page had everything     *)
(* steady on the way.                                                      *)
LEMMA ReceiveKeepsInv ==
    ASSUME IInv, Receive
    PROVE  IInv'
<1> USE DEF IInv
<1>1. /\ pc = "answered" /\ seen' = seen \union page.Data /\ page' = NoPage
      /\ UNCHANGED <<items, query, failures, steady, ever>>
  BY DEF Receive
<1>2. /\ page.Data \subseteq ever
      /\ \A k \in page.Data : k > Cursor
      /\ ~Over(page) => page.NextPage \in LastOf(page.Data)
      /\ \A k \in steady : k > Cursor /\ (Over(page) \/ k <= page.NextPage) => k \in page.Data
  BY <1>1 DEF PageInv
<1>3. /\ Cursor \in Nat /\ page.NextPage \in Nat
      /\ \A k \in seen \union ever \union page.Data : k \in Nat
      /\ steady \subseteq ever
  BY Kinds
<1>4. /\ NoPage.Data = {} /\ NoPage.NextPage = 0
      /\ opts.Limit > 0 => Cardinality({}) <= opts.Limit
  BY Kinds, FS_EmptySet DEF NoPage
<1>5. \A k \in steady : k <= Cursor => k \in seen
  BY DEF CursorInv
<1>6. CASE Over(page)
  <2>1. pc' = "ended" /\ opts' = opts
    BY <1>6 DEF Receive
  <2>2. steady \subseteq seen'
    BY <1>1, <1>2, <1>3, <1>5, <1>6
  <2>3. TypeOK'
    BY <1>1, <1>4, <2>1 DEF TypeOK
  <2>4. CursorInv'
    BY <1>1, <1>2, <2>1, <2>2 DEF CursorInv, Matching
  <2> QED BY <1>1, <2>1, <2>3, <2>4 DEF PageInv
<1>7. CASE ~Over(page)
  <2>1. /\ pc' = "ready" /\ opts' = [opts EXCEPT !.PageCursor = page.NextPage]
        /\ opts'.PageCursor = page.NextPage /\ opts'.Limit = opts.Limit /\ opts'.Name = opts.Name
    BY <1>7 DEF Receive, TypeOK
  <2>2. /\ page.NextPage \in page.Data /\ page.NextPage > Cursor
        /\ \A k \in page.Data : k <= page.NextPage
    BY <1>2, <1>7 DEF LastOf
  <2>3. TypeOK'
    BY <1>1, <1>4, <2>1 DEF TypeOK
  <2>4. \A k \in seen' : k <= page.NextPage
    <3>1. \A k \in seen : k <= Cursor /\ k \in Nat
      BY <1>1, <1>3 DEF CursorInv
    <3> QED BY <1>1, <1>3, <2>2, <3>1
  <2>5. \A k \in steady : k <= page.NextPage => k \in seen'
    <3>1. ASSUME NEW k \in steady, k <= page.NextPage PROVE k \in seen'
      <4>1. k \in Nat /\ (k <= Cursor \/ k > Cursor)
        BY <1>3
      <4> QED BY <1>1, <1>2, <1>5, <3>1, <4>1
    <3> QED BY <3>1
  <2>6. Matching' = Matching
    BY <1>1, <2>1 DEF Matching
  <2>7. CursorInv'
    BY <1>1, <1>2, <2>1, <2>4, <2>5, <2>6 DEF CursorInv, Cursor
  <2> QED BY <1>1, <2>1, <2>3, <2>7 DEF PageInv
<1> QED BY <1>6, <1>7

(* Whoever changes an item can only take it off the steady ones, or put it  *)
(* on the list for the first time.                                         *)
LEMMA ChangeKeepsInv ==
    ASSUME IInv, NEW k \in Keys, NEW item \in {Gone} \union {Item(n) : n \in Names},
           Change(k, item)
    PROVE  IInv'
<1> USE DEF IInv
<1>1. UNCHANGED <<opts, pc, query, page, seen, failures>> /\ Walking
  BY DEF Change
<1>2. /\ steady' \subseteq steady /\ ever \subseteq ever' /\ ever' \subseteq ever \union {k}
      /\ k \in steady' => Match(item, opts.Name)
      /\ Match(item, opts.Name) => k \in ever'
  BY DEF Change
<1>3. items' = [items EXCEPT ![k] = item] /\ items' \in [Keys -> {Unused, Gone} \union {Item(n) : n \in Names}]
  BY DEF Change, TypeOK
<1>4. TypeOK'
  BY <1>1, <1>2, <1>3 DEF TypeOK
<1>5. steady' \subseteq Matching' /\ Matching' \subseteq ever'
  <2>1. \A j \in Keys : items'[j] = IF j = k THEN item ELSE items[j]
    BY <1>3 DEF TypeOK
  <2>2. \A j \in Keys : j \in Matching' <=> Match(items'[j], opts.Name)
    BY <1>1 DEF Matching
  <2>3. \A j \in Keys : j \in Matching <=> Match(items[j], opts.Name)
    BY DEF Matching
  <2>4. steady \subseteq Matching /\ Matching \subseteq ever /\ ever' \subseteq Keys /\ Matching' \subseteq Keys
    BY <1>4 DEF CursorInv, TypeOK, Matching
  <2> QED BY <1>2, <2>1, <2>2, <2>3, <2>4
<1>6. CursorInv'
  BY <1>1, <1>2, <1>5 DEF CursorInv, Cursor
<1>7. PageInv'
  BY <1>1, <1>2 DEF PageInv, Cursor
<1> QED BY <1>4, <1>6, <1>7

LEMMA NextIInv == IInv /\ [Next]_vars => IInv'
<1> SUFFICES ASSUME IInv, [Next]_vars PROVE IInv'
  OBVIOUS
<1>1. ASSUME List PROVE IInv'
  <2>1. /\ pc = "ready" /\ pc' = "asked" /\ query' = filterQuery(opts)
        /\ UNCHANGED <<items, opts, page, seen, failures, steady, ever>>
    BY <1>1 DEF List
  <2>2. TypeOK'
    BY <2>1 DEF IInv, TypeOK
  <2>3. CursorInv'
    BY <2>1 DEF IInv, CursorInv, Cursor, Matching
  <2> QED BY <2>1, <2>2, <2>3 DEF IInv, PageInv
<1>2. CASE Serve
  BY <1>2, ServeKeepsInv
<1>3. ASSUME Fail PROVE IInv'
  <2>1. /\ NoPage.Data = {} /\ NoPage.NextPage = 0
        /\ opts.Limit > 0 => Cardinality({}) <= opts.Limit
    BY <1>3, Kinds, FS_EmptySet DEF NoPage, IInv
  <2>2. /\ pc \in {"asked", "answered"} /\ failures' \in 0 .. MaxFailures
        /\ pc' \in {"ready", "failed"} /\ page' = NoPage
        /\ UNCHANGED <<items, opts, query, seen, steady, ever>>
    BY <1>3, PaginationAssumption DEF Fail, IInv, TypeOK
  <2>3. TypeOK'
    BY <2>1, <2>2 DEF IInv, TypeOK
  <2>4. CursorInv'
    BY <2>2 DEF IInv, CursorInv, Cursor, Matching
  <2> QED BY <2>2, <2>3, <2>4 DEF IInv, PageInv
<1>4. CASE Receive
  BY <1>4, ReceiveKeepsInv
<1>5. CASE CreateItem \/ RenameItem
  BY <1>5, ChangeKeepsInv DEF CreateItem, RenameItem
<1>6. CASE DeleteItem
  BY <1>6, ChangeKeepsInv DEF DeleteItem
<1>7. ASSUME UNCHANGED vars PROVE IInv'
  BY <1>7 DEF vars, IInv, TypeOK, CursorInv, PageInv, Cursor, Matching, Over
<1> QED BY <1>1, <1>2, <1>3, <1>4, <1>5, <1>6, <1>7 DEF Next, Finished

LEMMA Invariance == Spec => []IInv
BY InitIInv, NextIInv, PTL DEF Spec

(* Every variable has its type, and no page is longer than the limit the    *)
(* caller asked for (pagination.go:8-27), on a list of any size.           *)
THEOREM TypeCorrect == Spec => []TypeOK
BY Invariance, PTL DEF IInv

(* A walk that comes to its end has missed nothing that was on the list all *)
(* the time (pagination.go:9-12).                                          *)
THEOREM NothingIsSkipped == Spec => []NothingSkipped
<1>1. IInv => NothingSkipped
  BY DEF IInv, CursorInv, NothingSkipped
<1> QED BY <1>1, Invariance, PTL

(* No item is on two pages, whatever failed in between                      *)
(* (integration_test.go:538-541).                                          *)
THEOREM NothingIsTwice == Spec => []NothingTwice
<1>1. ASSUME IInv PROVE NothingTwice
  <2> SUFFICES ASSUME pc = "answered", NEW k \in page.Data, k \in seen PROVE FALSE
    BY DEF NothingTwice
  <2>1. k > Cursor /\ k <= Cursor
    BY <1>1 DEF IInv, PageInv, CursorInv
  <2>2. k \in Nat /\ Cursor \in Nat
    BY <1>1, Kinds DEF IInv
  <2> QED BY <2>1, <2>2
<1> QED BY <1>1, Invariance, PTL

(* A walk shows only what matched its filter at some time                   *)
(* (firezone.go:524-527).                                                  *)
THEOREM OnlyMatchesAreSeen == Spec => []OnlyMatches
<1>1. IInv => OnlyMatches
  BY DEF IInv, CursorInv, OnlyMatches
<1> QED BY <1>1, Invariance, PTL

(* Every page but the last leads on, behind everything on it                *)
(* (integration_test.go:527-530): why a walk ends (EveryWalkEnds).         *)
THEOREM CursorLeadsOn ==
    Spec => [][Receive => pc' = "ended" \/ opts'.PageCursor > opts.PageCursor]_vars
<1>1. IInv => [Receive => pc' = "ended" \/ opts'.PageCursor > opts.PageCursor]_vars
  <2> SUFFICES ASSUME IInv, Receive, pc' # "ended"
               PROVE  opts'.PageCursor > opts.PageCursor
    OBVIOUS
  <2>1. ~Over(page) /\ opts' = [opts EXCEPT !.PageCursor = page.NextPage] /\ pc = "answered"
    BY DEF Receive
  <2>2. page.NextPage > Cursor
    BY <2>1 DEF IInv, PageInv, LastOf
  <2>3. opts'.PageCursor = page.NextPage
    BY <2>1 DEF IInv, TypeOK
  <2> QED BY <2>2, <2>3 DEF Cursor
<1> QED BY <1>1, Invariance, PTL DEF Spec
=============================================================================
