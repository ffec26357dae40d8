----------------------------- MODULE Pagination -----------------------------
(***************************************************************************)
(* A caller walks a collection page by page (pagination.go, the List       *)
(* methods, ExampleListOptions) while others change it: items are created, *)
(* renamed and deleted between the pages, and a call may fail and be made  *)
(* again.                                                                  *)
(*                                                                         *)
(* The API lists items in the order of a key that an item keeps for life,  *)
(* and a cursor is the key of the last item of the page it came with.  The *)
(* SDK passes cursors on without looking into them.                        *)
(***************************************************************************)
EXTENDS Integers, FiniteSets

CONSTANTS Keys,         \* the keys that items have in the order of the list
          Names,        \* the names items have, which lists can filter on
          Filters,      \* the filters that callers set
          Limits,       \* the values of ListOptions.Limit
          DefaultLimit, \* of the API: 50
          MaxLimit,     \* of the API: 100
          MaxFailures,  \* bound: failed calls in a walk
          NoName        \* "", a filter that is not set

(* In a query and in JSON, zero is a parameter that is not there, and null. *)
ASSUME PaginationAssumption ==
    /\ IsFiniteSet(Keys) /\ Keys \subseteq Nat \ {0}
    /\ Limits \subseteq Int
    /\ DefaultLimit \in Nat \ {0} /\ MaxLimit \in Nat \ {0} /\ DefaultLimit <= MaxLimit
    /\ MaxFailures \in Nat
    /\ NoName \notin Names /\ Filters \subseteq Names \union {NoName}

VARIABLES items,    \* at the API: each key is unused, gone, or an item's
          opts,     \* the caller's ResourceListOptions, or another's
          pc,       \* ready, asked, answered, ended or failed
          query,    \* of the request
          page,     \* of the response
          seen,     \* the items the caller has been through
          failures, \* calls that failed
          steady,   \* history: items on the list since the walk began
          ever      \* history: items on the list at some time since

vars == <<items, opts, pc, query, page, seen, failures, steady, ever>>

Unused == [state |-> "unused", name |-> NoName]
Gone   == [state |-> "gone", name |-> NoName]
Item(n) == [state |-> "in", name |-> n]

-----------------------------------------------------------------------------
\* Mutant: the limit is left to the cursor.
listOptionsToQueryOnce(o) == [limit       |-> IF o.PageCursor = 0 /\ o.Limit > 0 THEN o.Limit ELSE 0,
                              page_cursor |-> o.PageCursor]

listOptionsToQuery(o) == [limit       |-> IF o.Limit > 0 THEN o.Limit ELSE 0,
                          page_cursor |-> o.PageCursor]

\* Mutant: the filters left to the cursor.
filterQueryFirstPageOnly(o) ==
    [options |-> listOptionsToQuery(o),
     name    |-> IF o.PageCursor = 0 THEN o.Name ELSE NoName]

filterQuery(o) == [options |-> listOptionsToQuery(o), name |-> o.Name]

-----------------------------------------------------------------------------
(* The API.                                                                 *)
Match(item, name) == item.state = "in" /\ (name = NoName \/ item.name = name)

Applied(limit) == CASE limit = 0       -> DefaultLimit
                    [] limit < 0       -> 1
                    [] limit > MaxLimit -> MaxLimit
                    [] OTHER           -> limit

\* Mutant: the last item of a page is the first of the next.
RestInclusive(q) == {k \in Keys : k >= q.options.page_cursor /\ Match(items[k], q.name)}

(* What the list holds after the cursor.                                    *)
Rest(q) == {k \in Keys : k > q.options.page_cursor /\ Match(items[k], q.name)}

FirstOf(n, S) == {k \in S : Cardinality({j \in S : j < k}) < n}

LastOf(S) == {k \in S : \A j \in S : j <= k}

(* The cursor of a page.  None is null on the wire, and "" in a Page.        *)
NextPages(q, data) == IF data = Rest(q) THEN {0} ELSE LastOf(data)

(* A page and its metadata.                                                 *)
Page(q, next) ==
    LET limit == Applied(q.options.limit)
    IN  [Data     |-> FirstOf(limit, Rest(q)),
         Count    |-> Cardinality({k \in Keys : Match(items[k], q.name)}),
         Limit    |-> limit,
         NextPage |-> next]

NoPage == [Data |-> {}, Count |-> 0, Limit |-> 0, NextPage |-> 0]

-----------------------------------------------------------------------------
Matching == {k \in Keys : Match(items[k], opts.Name)}

Init == /\ items \in [Keys -> {Unused} \union {Item(n) : n \in Names}]
        /\ opts \in [Limit : Limits, PageCursor : {0}, Name : Filters]
        /\ pc = "ready" /\ query = filterQuery(opts)
        /\ page = NoPage /\ seen = {} /\ failures = 0
        /\ steady = Matching /\ ever = Matching

Walking == pc \in {"ready", "asked", "answered"}

List == /\ pc = "ready" /\ pc' = "asked"
        /\ query' = filterQuery(opts)
        /\ UNCHANGED <<items, opts, page, seen, failures, steady, ever>>

Serve == /\ pc = "asked" /\ pc' = "answered"
         /\ \E next \in NextPages(query, FirstOf(Applied(query.options.limit), Rest(query))) :
                page' = Page(query, next)
         /\ UNCHANGED <<items, opts, query, seen, failures, steady, ever>>

(* A call that fails leaves the options as they are: it is made again, or  *)
(* the walk is given up.                                                   *)
Fail == /\ pc \in {"asked", "answered"}
        /\ failures < MaxFailures /\ failures' = failures + 1
        /\ pc' \in {"ready", "failed"}
        /\ page' = NoPage
        /\ UNCHANGED <<items, opts, query, seen, steady, ever>>

\* Mutants: the walk is over when a page is shorter than the caller asked
\* for, or when it is empty.
OverWhenShort(p) == Cardinality(p.Data) < opts.Limit \/ p.NextPage = 0
OverWhenEmpty(p) == p.Data = {}

Over(p) == p.NextPage = 0

(* doList returns, and the loop goes on.                                    *)
Receive == /\ pc = "answered"
           /\ seen' = seen \union page.Data
           /\ IF Over(page) THEN pc' = "ended" /\ UNCHANGED opts
              ELSE pc' = "ready" /\ opts' = [opts EXCEPT !.PageCursor = page.NextPage]
           /\ page' = NoPage
           /\ UNCHANGED <<items, query, failures, steady, ever>>

(* Somebody changes the collection.                                         *)
Change(k, item) ==
    /\ Walking
    /\ items' = [items EXCEPT ![k] = item]
    /\ steady' = IF Match(item, opts.Name) THEN steady ELSE steady \ {k}
    /\ ever' = IF Match(item, opts.Name) THEN ever \union {k} ELSE ever
    /\ UNCHANGED <<opts, pc, query, page, seen, failures>>

CreateItem == \E k \in Keys, n \in Names : items[k] = Unused /\ Change(k, Item(n))
RenameItem == \E k \in Keys, n \in Names : items[k].state = "in" /\ Change(k, Item(n))
DeleteItem == \E k \in Keys : items[k].state = "in" /\ Change(k, Gone)

Finished == ~Walking /\ UNCHANGED vars

Next == List \/ Serve \/ Fail \/ Receive \/ CreateItem \/ RenameItem \/ DeleteItem \/ Finished

(* The loop goes on while it can, and a call comes back, if only with an    *)
(* error (EveryCallReturns of Requests).                                   *)
Spec == Init /\ [][Next]_vars /\ WF_vars(List) /\ WF_vars(Serve \/ Fail) /\ WF_vars(Receive)

-----------------------------------------------------------------------------
(* The kinds of the variables, and a page in hand is one: sorted after its  *)
(* cursor, no longer than the limit the caller asked for.                  *)
TypeOK ==
    /\ items \in [Keys -> {Unused, Gone} \union {Item(n) : n \in Names}]
    /\ opts \in [Limit : Limits, PageCursor : Keys \union {0}, Name : Filters]
    /\ pc \in {"ready", "asked", "answered", "ended", "failed"}
    /\ page.Data \subseteq Keys /\ page.NextPage \in Keys \union {0}
    /\ seen \subseteq Keys /\ steady \subseteq ever /\ ever \subseteq Keys
    /\ failures \in 0 .. MaxFailures
    /\ opts.Limit > 0 => Cardinality(page.Data) <= opts.Limit

(* A walk that comes to its end has been through every item that was on the *)
(* list all the time, whatever was created, renamed or deleted before,     *)
(* behind or on the cursor, and whichever calls failed                     *)
(* (TestIntegration_Pagination, pagination.go:9-12).                       *)
NothingSkipped == pc = "ended" => steady \subseteq seen

(* No item is on two pages (integration_test.go:538-541), not even when a   *)
(* call is made again.                                                     *)
NothingTwice == pc = "answered" => page.Data \intersect seen = {}

(* A walk shows only what matched its filter at some time: every page is   *)
(* asked for with the filters of the first (firezone.go:524-527).          *)
OnlyMatches == seen \subseteq ever

(* A walk ends: no cursor leads back, however the collection changes        *)
(* (integration_test.go:527-530).                                          *)
EveryWalkEnds == <>~Walking
=============================================================================
