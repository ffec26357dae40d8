# A TLA+ model of the Firezone Go SDK

This directory specifies the behaviour of `firezone-sdk-go`, the Go client of
the Firezone REST API, in TLA+; model-checks it with TLC on small instances and
proves its central properties with TLAPS for every instance.

## The system

The SDK is one Go package. A caller builds a `Client` once and makes calls on
it, from any number of goroutines. Each call is a method of a service
(`Sites`, `Groups`, ...), which checks its IDs, builds a path and a body, and
hands them to a common engine; the engine talks HTTP to the API, which is
outside this repository and holds all the lasting state.

| component | state | operations | what is hard | what makes it correct |
| --- | --- | --- | --- | --- |
| request engine (`firezone.go`, `retry.go`) | per call: loop variable, timer, context, response | `do`, `doList`, `requestWithRetry`, `rawRequest` | concurrent calls; requests lost, late or processed after the caller gave up; timeouts and cancellation at every point; an answer lost after the effect | no call is processed twice; the outcome tells the truth about the effect; the budget is kept; every call comes back; calls that are throttled together are all served |
| retry policy (`retry.go`, `errors.go`) | none | `parseRetryAfter`, `exponentialBackoff`, `retryWait`, `retryJitter` | integer width, order of max, min and jitter | waits between a floor and a ceiling |
| construction (`firezone.go`) | the `Client` being built | `NewClient`, seven checks, five options | order and repetition of options | a built client works; the first error is reported |
| errors (`errors.go`) | none | `parseAPIError`, `Is*` | classification by status | only 429 counts as rate limited |
| paths (`path.go`) | none | `checkID`, `buildPath`, `resolvePath` | dot segments, escaping | an ID stays one segment |
| pagination (`pagination.go`) | the caller's cursor | list methods | the collection changes between pages; limits that the API clamps; calls that fail on the way | no item that stays is skipped, none is seen twice, the filter lasts, the walk ends |
| bodies (`null.go`, request structs) | none | `Clear`, `Set`, marshalling | three states per field | what is not set is kept |
| memberships, pool members | membership list at the API | `List`, `ReplaceAll`, `Patch` | several callers, late requests | `Patch` loses no change of another caller |
| gateways | token and pending token at the API, secret on the host | `Provision`, `RotateToken`, `Get`, `Delete`, `RotationPending` | lost answers, late requests, pickup, grace period, snapshots | a secret that was handed out works until a newer one is; a poll that shows the pickup can be trusted; a Delete revokes |
| resources, policies, sites, groups, actors, clients | objects at the API | CRUD, `Enable`/`Disable`, `Verify`/`Unverify` | late requests over newer ones | no caller disturbs what another looks after |
| auth providers, directories | objects at the API | read-only | none of its own | as for the engine |
| postures (`postures.go`, `posture_fields.go`) | none | marshalling of condition trees | recursion, exclusive shapes | what is accepted round-trips |
| generator (`internal/genposture`) | none | load, cross-check, identifiers | collisions, two enumerations that drift | every field has one constant |

`PROJECT.json` lists every component with its status and, under `hazards`, what
is hard to test in each, at its line.

## The modules

| module | what it is |
| --- | --- |
| `RetryPolicy` | `retry.go:70-120` and `errors.go:97-106` as operators on bounded integers |
| `CallContract` | the abstract specification of a call: at most one effect, and a verdict |
| `Requests` | the engine, the network and the API; a refinement of `CallContract` |
| `ClientOptions` | `NewClient` and its options |
| `RateLimit` | the calls of `Requests` in time, against the API's token bucket |
| `SharedObject` | updates, `Enable` and `Disable`, `ReplaceAll` and `Patch` on one object by several callers, over `CallContract` |
| `GatewayTokens` | provisioning, rotating, polling and deleting, the API's tokens, and the hosts that use them, over `CallContract` |
| `Pagination` | a walk over a list that others change |
| `Endpoints` | every service method from its arguments to the path and the query the API receives |
| `PostureFields` | the typed posture fields, their operators and values, ISO durations |
| `PostureTable` | the generator of the field constants |
| `Postures` | building expressions from the generated constants, marshalling and reading back |
| `MC...` | constants for TLC |
| `RequestsProofs`, `RateLimitProofs`, `ClientOptionsProofs`, `EndpointsProofs`, `SharedObjectProofs`, `GatewayTokensProofs`, `PaginationProofs`, `PosturesProofs` | theorems about the module each is named for (`RequestsProofs` also about `RetryPolicy`, `PosturesProofs` also about `PostureFields` and `PostureTable`) |

Composition. `Requests` extends `RetryPolicy` and refines `CallContract`;
`RateLimit` extends `Requests` with time and a server that has a reason for its
answers. `SharedObject` and `GatewayTokens` instantiate `CallContract`, and so
stand on what the proofs say of the engine without its details: a request may
take effect after its call has ended as unknown, and never twice. `Postures`
extends `PostureTable`, which extends `PostureFields`: the generator writes the
constants, a caller builds expressions with their methods, and the expressions
go over the wire.

Definitions marked `Mutant` are mistakes a change of the code could introduce;
nothing in the specifications uses them. Each property of a passing run fails
when one of them takes the place of the definition it resembles.

### RetryPolicy

Durations are integers in `-MaxDuration-1 .. MaxDuration`, in any unit; `Wrap`
is two's complement arithmetic. A `Retry-After` header is the number it spells,
negative for an absent or unreadable one. The random padding is the set of
values it can take; zero is always one of them, because the code falls back to
it when the random source fails.

### Requests

A call is a thread with a control point:

    idle --Start--> loop --RawRequest--> inflight --Succeed, Fail--> returned
                     ^                    |    \----GiveUp---------> returned
                     |                 BackOff
                     |                    v
                     +------Wake------ waiting ----CancelWait------> returned

| state | code |
| --- | --- |
| `client` | the `Client` fields that decide control flow: `retryEnabled`, `maxRetries`, `requestTimeout`, `retryMaxWait`; chosen in `Init`, never changed (`firezone.go:81-83`) |
| `attempt`, `wait` | `attempt` and `wait` in `requestWithRetry` |
| `kind` | what the method decodes: nothing (`out == nil`), an object, a list |
| `ctxDone` | the caller's context is cancelled or expired |
| `outcome` | what `do` or `doList` returns: the class of the error, the status of an `*APIError`, and whether anything was decoded |
| `wire`, `replies` | requests and responses in the network |
| `log` | the calls whose request the API has processed, in order |
| `sent`, `asked`, `slept`, `before` | history variables for the properties |

`GiveUp` is the common effect of every way `httpClient.Do` or `io.ReadAll` can
fail: the deadline of `WithRequestTimeout`, the caller's context, the network.
It discards a response that is on its way, with any status, and leaves the
request where it is: the API may still process it. When the timer and the
context are both ready, Go's `select` draws, so `Wake` and `CancelWait` are then
both enabled; after `Wake` the next attempt fails before it is sent
(`RawRequestRefused`).

The API is modelled by what the SDK assumes of it: a 2xx means the request has
been processed, a 3xx or 4xx (429 among them) that it has not, a 5xx either.
Requests may be served late or never. Redirects followed by `net/http`, and
its own resending of requests of which no byte was written, are inside one
attempt. Building the request (`resolvePath`, headers, body) does not fail for
the paths the services build and is left out; that the body is intact on a
retry follows from `requestBody` being bytes (`firezone.go:39-50`) and has no
state here.

An outcome has a verdict. `done`: success, or a decoding error after a 2xx.
`refused`: an `*APIError` other than 5xx, or the bare context error of an
interrupted wait. `unknown`: a transport error or a 5xx.

### CallContract

The promise to one caller: `TakeEffect` happens at most once per call and only
while its verdict is pending or unknown; a call ends `done` only with its
effect, `refused` only without it and then for good. `Requests` implements it
with `verdict` computed from `pc` and `outcome`, and `history` as `log`.

### ClientOptions

The arguments are chosen in `Init`; `CheckBaseURL`, then one `ApplyOption` or
`RefuseOption` per option, then `Build`. A base URL is the record of what
`checkBaseURL` looks at.

### RateLimit

`RetryPolicy` bounds a single wait; this module asks what the waits are worth.
The API has one bucket of tokens per account (`firezone.go:232-239`); others have
just emptied it, and it gets a token every second. Every call has a timer. Time
is `Tick`, which fills the bucket and moves every timer, and any goroutine may
be slow: a timer that has fired may be noticed late, an answer may take long.
The network is healthy, so no answer is lost; `Requests` has those.

`Patience` is what the waits of a budget add up to, in tokens.
`RefusedOnlyBehindAQueue`: a call that gives up has let at least as many requests
of others pass since it was first refused. A backoff that does not grow would
break it. The jitter, which only ever lengthens a wait, is what it is allowed to
be (`retry.go:106-120`), so nothing here depends on luck. `EveryCallServed`: as
many calls at a time as a budget has patience for all get through, though
nothing is assumed of their order; no call starves. The module that instantiates
it also evaluates the patience of the default client against the comment's "a
bit over two minutes of sustained throttling".

### SharedObject

Callers that share one object at the API, with its fields and its member list: a
Policy, a Group and its memberships, a Resource and its pool. A call begins
(`Update`, `Enable`, `Disable`, `ReplaceAll`, `Patch`), is processed by the API
at most once (`Process`), and comes back with a verdict (`Answer`); `Process` may
come after an unknown verdict, and then after newer calls. Each caller makes its
calls one after the other, about fields and IDs that no other caller looks after
(`team`). `want` keeps what each call was made for, in the words of the
documentation; `body` is what the code puts on the wire.

A field of a request struct has one of four kinds (`plain`, `pointer`, `null`,
`node`), and `Omitted`, `MarshalJSON` and `Encode` say what each of its Go values
becomes on the wire. A posture node without a shape cannot be encoded and the
whole request fails before it is sent (`UpdateRejected`). The criteria of a
Resource are its member list under another name, so an editor may replace it; a
nil `RawMessage` keeps it, where a nil slice given to `ReplaceAll` empties it.

`LastWordStands`: what a caller looks after is as its last successful call left
it, unless a call that is open or was left unknown wants it otherwise. The
exception is needed. A `Patch` whose verdict was unknown and that a later,
opposite one overtook may still be processed and undo it; the code has no way to
take a request back.

### GatewayTokens

A Gateway at the API has a token it last connected with (`used`) and one that
was minted since (`spare`); a rotation replaces the second and starts the grace
period of the first, whose end (`GraceEnds`) may come at any time, and a
connection with the second deletes the first (`Connect`). A token is named by
the call that minted it. A secret is in the answer or nowhere: `secret[c]` says
whether the caller of `c` got it, and `Deliver` puts any secret that somebody
holds on the host, in any order, so a host may be late or rolled back.

`HeldSecretWorks` is the promise behind `gateways.go:214-228`: a secret that was
handed out works, unless a rotation it did not know to be over, or a newer one,
or a `Delete` may take its place. `PickupIsConfirmed` says what a poll tells
(`gateways.go:33-41`): a Gateway that shows the ID of a rotation has picked the
token up; one that shows *some* ID and no pending rotation, after the rotation's
answer, has picked up that token or a newer one. The ID is needed. A Gateway
that has never connected has no rotation pending either, because its unused
token is replaced at once, so `RotationPending` alone does not confirm a pickup.
`DeleteRevokes`: after a `Delete` not even a rotation that the API receives late
brings a token back.

### Pagination

The items of a list are in the order of a key they keep for life; a cursor is
the key of the last item of the page it came with. That is what the code and its
tests assume of the API; the SDK hands cursors on without looking into them.
`List`, `Serve` and `Receive` are the loop of `ExampleListOptions`, `Fail` a call
that fails and is made again with the same options, or ends the walk. `Serve`
clamps the limit as the API does, so a page may be shorter than was asked for
without being the last, and may hand out a cursor to an empty page. `CreateItem`,
`RenameItem` and `DeleteItem` may happen at any time.

`steady` are the items that were on the list the whole time and `ever` those
that were at some time: a walk that ends has seen all of the first
(`NothingSkipped`) and nothing but the second (`OnlyMatches`), each once
(`NothingTwice`), and it ends (`EveryWalkEnds`).

### Endpoints

The table of operations has one line per service; a path is a sequence of words
and places for IDs. `CheckID`, `WrapBody` and `Send` are the steps every method
takes in that order. Paths are sequences of characters, because the property is
about escaping: `Received` splits a path at its slashes, resolves dot segments
and decodes, and must give back the words and IDs it was made of. A question mark
stands for the signs that end a path. The HTTP method of an operation is in the
table for the reader; no step depends on it and no property is about it.

A filter is a string, which is left out when it is empty, or a pointer, which is
left out when it is nil; `FiltersAsMeant` compares the query with what the
caller's options mean, nil options included, so that a filter on *not* online is
a filter. The formats of times and numbers in a query are left out.

### PostureTable

The generator reads the API's registry of posture fields twice, from a table in
a description and from the schemas that validate an expression, compares the two
and writes one constant per field. A document is the two lists. A row of the
table that the pattern does not match is passed over (`SkipRow`), one that passes
the checks is taken (`TakeRow`), any other stops the generator (`RefuseRow`), and
so does a table that is too short (`Count`). `identFor` takes names apart, so a
name is a sequence of characters here, and initialisms and capitals are
constants.

`Agreement` says what the comment in the generator wants (`main.go:118-120`): the
legible rows are for the fields that the schemas list, every schema that lists a
field gives it the type of its row, and no two fields get the same identifier.
`StopsOnDrift` is what the code does of it. It never stops without a
disagreement, and then leaves the committed file as it was; and what it writes
agrees, as long as the schemas agree with each other. Where two of them list a
field with different types the code keeps the last one's (`main.go:121-125`), and
if the table names that one too, it guesses: that is `NeverGuesses`, which the
run `drift` violates. `MethodsAreAccepted` follows a constant to the operators
that its methods use: a schema that lists the field takes them.

### PostureFields and Postures

A leaf is a field, an operator and a value, made by a method of a generated
constant (`UseConstant`). Of a value its class is kept, and of a number which one
it is. An `int64` is written in full and a `float64` with the fewest digits that
read back as itself (`Encoded`, `Shortest`); `UnmarshalJSON` decodes every number
into the nearest `float64` (`Decoded`, `Float64`, `postures.go:116-119`), so an
integer changes its Go type always and its value beyond 2^53. An expression is a function from
positions to nodes: `<<>>` is its own node, and `<<key, i, p>>` the position `p` of
the `i`-th child under `And`, `Or` or `Not`; a node says how many children it has.
So a tree of any depth is a value without a recursive definition, and what the
code does to every node of a tree by calling itself (`json.Marshal` calls
`MarshalJSON` below) is said of every position. A tree is built in steps, by the
constructors (`book`) or by setting fields of the struct, then marshalled and
read back. The checks of `MarshalJSON` are `ShapeOK`, and `Marshals` applies them
to every node below, as `json.Marshal` does, which also fails on a NaN or an
infinity. `isoDuration` keeps the numbers that it writes before H, M and S.

`ConstructorsAreAccepted`: an expression built with the typed fields and the
constructors is rejected exactly when a value in it has no JSON. `ReadsBack`: it
comes back as it was, but that its integers are the nearest `float64`s; it is sent
again as it was unless an integer was inexact; and what was read once does not
change any more.

## The runs

| run | question | instance |
| --- | --- | --- |
| `calls` | budget and waits; does a call always come back; effects, verdicts, their order; refinement | one call on 28 clients (retries on and off, 0 to 3 retries, with and without timeout, caps negative, small, large), with success, redirect, client error, 429, server error, every body shape, no header, 0, 1, 4 and 30 s, the last beyond a `Duration`; and two interleaved calls on a client with a retry and a timeout, and on one with neither |
| `ratelimit` | what the budget is worth under throttling | three calls on a client with two retries and a cap above its curve, or one that cuts it; a bucket of two tokens that is empty at first; every padding |
| `options` | construction | all sequences of up to three of 15 options, 17 URL classes |
| `shared` | do callers disturb each other; do fields and members reach the API as meant, and only those | two callers with two calls each, in five divisions of the work: switcher and editor of a field, editor of four fields of all kinds, two that patch an ID each, editor beside one that replaces the list, editor of the list as criteria |
| `endpoints` | is every request routed to its method's endpoint, with the filters that were meant | all methods; IDs of up to three characters out of a letter, a dot, a slash, a percent sign and a question mark; base URLs with and without a path; all lists with all combinations of filters |
| `postures` | what the generator writes, what leaves the SDK and what comes back | every table of up to three rows out of eight beside up to two schemas; a field of each of the 12 types; three steps of building; ten durations; integers that a float64 holds or not, and a number without JSON |
| `gateways` | do secrets work, and can a poll be trusted | one caller with four calls, or two with two and one; one Gateway |
| `pages` | does a walk see what it should, and end | four keys, two names, with and without a filter; limits unset, one, and above the API's; one failed call |
| `retry_after_capped`, `empty_success`, `stray_value`, `drift` | a sentence of the documentation or of a comment that the code does not keep | one call, or the documents and expressions of `postures`; see Findings |

Bounds. Calls do not share state in the SDK; two are enough for every order of
effects of a pair, and the proofs hold for any number. Three retries pass the
point where the backoff is cut (`BackoffLimit` is 2 in the runs) and where the
cap applies. In `calls` a second is 2 units and the jitter at most 3, so that waits
with no, some and full padding occur; `MaxDuration` is above the longest wait and
below the longest header, whose multiplication wraps around. `Scope` keeps the
clients that one call is made on apart from those for two: it cuts off beginnings
of calls and answers of the API, about which no fairness is assumed, so nothing
that must happen is lost with them.

Two calls per caller are the fewest in which a late request can overtake a newer
one of the same caller, and two callers the fewest that can disturb each other;
more of either only lengthen `history`. An ID of three characters holds a dot
segment with a slash at its end, the longest text that means something in a
path. Three steps build trees of depth three with a mistake at any depth. The
durations of `postures` (with three seconds to the minute, four minutes to the
hour, in half seconds) have every combination of zero and non-zero parts. Its
numbers are three that a float64 holds, one of which is written with other
digits than its own, and three integers: one of those three, one that comes back
as another number and is then written as a third, and one that does and is
written as before.

Three calls are the fewest that can form a queue in front of one that has two
retries; with a cap of one second two retries have too little patience for it, so
both sides of the condition of `EveryCallServed` occur. Three rows
let an illegible, a colliding and a good row meet, in any order; the three names
of `postures` are two with the same identifier, one of them an initialism, and
one of its own. Four calls are a `Provision`, two rotations of which one is lost,
and a poll or a `Delete`. Four keys make two full pages at the default limit, or
four of one item, with room to create and delete on both sides of the cursor.

Fairness. `FairSpec` has weak fairness of each call's own steps, among them the
firing of its timers: the Go scheduler runs every goroutine and fires every
timer. Nothing is assumed of the caller, the network or the API, which may stay
silent for ever. `EveryCallReturns` therefore needs a request timeout;
`CancelledCallReturns` does not.

`RateSpec` assumes in addition what `EveryCallServed` is about: time passes, and
the API answers each call in the end. It does not say in which order, so the
property is about the worst one. The fairness of `Pagination` is that of a caller
who goes on with the loop and a call that comes back, if only with an error,
which is what `EveryCallReturns` shows of the engine; nothing makes the others
stop changing the list.

Deadlock is checked in every run: each module has one action that stutters in
the states in which nothing is left to do (`Finished`, `Done`, `AllReturned`,
`Quiescent`, `Terminated`).

## Findings

* `retry.go:84` caps the wait after taking the maximum with `Retry-After`, so a
  long `Retry-After` is cut to the cap, against `firezone.go:246-247`.
* `do` reports success and leaves `out` untouched for a 2xx with an empty body
  or `"data": null`, against its comment (`firezone.go:466`).
* `PostureNode.MarshalJSON` accepts a node with `And`, `Or` or `Not` and a stray
  `Value`, and sends both, against `postures.go:127` and `177-180`.
* `internal/genposture/main.go:124` keeps the type of the last leaf schema that
  lists a field, so where two of them disagree a constant is generated with the
  type of one, against `main.go:118-120` ("stop, don't guess"). The document that
  the generator is run on has no such field.

A remark that is no finding: `errors.go:105` overflows for a `Retry-After` of 292
years or more, and the wait then ignores it instead of being capped; no text of
the repository promises otherwise, and `WaitFloor` says that nothing else is lost.

## What is proved

For any set of calls, clients, statuses and headers, any widths and any cap,
from the named assumptions on the constants (`DurationAssumption`,
`ClientsAssumption`, `EnvironmentAssumption`), which TLC evaluates on every run:

* `TypeCorrect`: type correctness, which needs that waits stay in a `Duration`
  (`RetryWaitsType`, from `WrapInRange`).
* `NoCallTwice` and `VerdictsAreSound`. Neither is inductive: whether a retry may
  be sent depends on what the previous attempt can have left in the network.
  `TraceInv` says it: a request on the wire is the only trace of its call and has
  had no effect; a response on its way is the only trace and tells what the
  effect was; a call that is before an attempt or waiting has left none. The
  step that matters is `BackOff`: a 429 tells that there was no effect, so the
  next request is again the only trace. `OneCallSteps` reduces the steps that
  add nothing to the network to what they say of their own call; `RawRequest`
  and `Serve` have lemmas of their own.
* `BudgetIsKept`, from `LoopInv`: the loop variable counts the requests.
* `WaitsReachTheFloor` and `WaitsStayUnderTheCeiling`, from `RetryWaitBounds` and
  from `OnlyBackOffArms`: a call found waiting has just backed off, or was waiting
  already for the same time and the same answer. Both need that each cap leaves
  room for the jitter (`RoomForJitter`). A header may overflow: `CurveOrCap` keeps
  a wait that is below the cap at or above the power of two, and at or above
  whatever `parseRetryAfter` made of the header.
* `RealTimeOrderIsKept`, from `OrderInv` and `TraceInv`: the calls that had
  returned when another began stay returned, with the verdict they had
  (`ReturnedIsFinal`), so the only way for one of them to take effect later is a
  request that is still on the wire, and `WireInv` says that such a call ended
  unknown (`ServeKeepsOrder`).
* `ContractIsKept`: `Requests` implements `CallContract`, step by step from
  `TraceInv`.

* `RateLimitProofs`: `NobodyLosesOutOfTurn`, for any number of calls, any budget
  and cap that leaves room for the jitter, any bucket, and any order of events.
  The invariant, `QueueInv`, counts the requests of others that were let in since
  a call was first refused, less what the waits it has completed were worth
  (`Lead`). While a call waits, that lead, the tokens in the bucket and the rest of
  the wait together are worth the wait; after it, the lead and the bucket leave no
  debt. So an attempt that finds no token finds that others had it
  (`ThrottleKeepsQueue`), and a tick only turns time into tokens, or fills a bucket
  that is full (`TickKeepsQueue`). `WaitIsWorth` is the step from the engine: a
  backoff, however padded, lasts at least what the call counts for it.
  `PatienceAdds` unfolds the sum `Patience` by one retry. `RateStep` makes every
  step one of `Requests` too, so its invariants are at hand.
* `ClientOptionsProofs`: `TypeCorrect`, `FirstErrorIsReported`,
  `BuiltClientsWork` and `LastOptionsWin`, for any sequence of options and any URL.
  The invariant of the second, `Progress`, adds that once options are being
  applied the URL was acceptable and no option applied so far was refused; that
  of the last, `FieldsInv`, says of the client under construction what the
  property says of the finished one, about the options applied so far. One more
  option is the latest of its kind and leaves the latest of the others what they
  were (`OneMoreOption`). `BuiltClientsFitTheEngine` joins construction to
  the engine: whatever the options, what a built client holds is in the set that
  `ClientsAssumption` of `Requests` asks for, if the caps that callers pass are
  `Duration`s, which is their Go type.
* `EndpointsProofs`: `NothingBadIsSent`, for IDs of any length, from `CheckInv`:
  the places before the next one to check hold usable IDs. It needs that the
  places of every path in the table of operations are numbers (`OperationPaths`),
  of which there is a first (`FirstUnchecked`). `FiltersMeanWhatTheySay`, from
  `KeysApart` (no filter of any service has the name of another one, or of a
  parameter of the page) and `QueryTells` (what is set in a query, key by key),
  under the hypothesis that no number is written as the empty text (`Decimal`).
  `EveryIDArrives` and `NoSegmentIsEmpty`, for any operation, base path and IDs of
  any length, from `SentInv` (what is sent is what `resolvePath` and `buildPath`
  make of the call). They say in two steps why escaping is enough. Splitting
  distributes over texts that meet at a slash (`SplitConcat`), and resolving dot
  segments over lists of segments as long as the second has none
  (`NormaliseConcat`), so what the API receives is the base path followed by the
  segments (`SplitBuilt`, `RouteTells`); and an escaped segment has no slash, is no
  dot segment and decodes to what it was (`PathEscapeTells`), whether it is a word
  of the table of operations (`OperationWords`) or an ID that `checkID` let pass.
* `PaginationProofs`: `TypeCorrect`, `NothingIsSkipped`, `NothingIsTwice` and
  `OnlyMatchesAreSeen`, for any finite set of keys, any names and limits, and
  whatever others do to the list. None is inductive, because a page is made at
  one moment and received at another. The invariant, `IInv`, makes the cursor a
  line through the keys (`CursorInv`): what was seen lies up to it, and all steady
  items up to it were seen; a page on its way (`PageInv`) has everything steady
  from there to its own cursor, and to the end if it is the last, whatever has
  changed since it was made. `LimitApplied` says what the API's clamped limit
  leaves of a list, by well-founded induction over subsets of the keys
  (`SmallestExists`). `CursorLeadsOn`, an action property: a page that does not
  end the walk moves the cursor strictly forward. That is the part of
  `EveryWalkEnds` that is about the code; the rest is fairness.
* `GatewayTokensProofs`: `TypeCorrect`, `DeletesRevoke`, `HeldSecretsWork` and
  `PickupsAreConfirmed`, for any callers and any number of calls. The invariant,
  `IInv`, rests on the order in which calls took effect: the newest token of a
  Gateway is the last that was minted, the one in use is older than one that
  waits (`GatewayInv`); a Gateway is gone exactly when a Delete of it has had its
  effect (`DeletedInv`), for good, because `Provision` takes effect once; what a
  Get has seen in use stays the oldest token that can still work, and was the
  newest one then if nothing was pending (`SeenInv`); and what was done before a
  call began comes before it (`RequestInv`). A late request is a step like any
  other, after the verdict.
* `SharedObjectProofs`: `TypeCorrect` and `LastWordsStand`, for any callers,
  fields, members, division of the work and number of calls. The invariant,
  `IInv`, says of each call that its body does to the object just what its caller
  means and nothing else (`Proper`, proved for each kind of call in
  `UpdatesAreProper`, `ReplacesAreProper` and `PatchesAreProper`); of the history
  that no call is in it twice, that a successful one is and a refused one is
  not, and that it comes before every later call of its caller (`OrderInv`); and
  of each item that the last call in the history that is about it has left it as
  it is (`HeldInv`). Only its owner makes calls about an item, so that call is
  the owner's last successful one, or one that is open and must agree with it.
* `PosturesProofs`, the generator: `ConstantsAreUnique` and `DriftStops`, for any
  documents, initialisms and capitals. The generator never looks for a field that
  has no row: it counts. The invariant, `TableInv`, says that the constants so far
  are fields the schemas accept, each once; `CountingSuffices` (a list without
  duplicates out of a finite set and as long as it lists all of it) makes of
  `Complete` that none is missing, and `RefusedForAReason` that no row is refused
  that the schemas agree with. `LeafTypeIsListed` (the type kept for a field is that
  of a schema that lists it) turns the code's comparison into agreement with every
  schema, where they agree with each other.
  `ConstantsFitSchemas` follows: a constant has the type that one of
  the schemas gives its field, and `GoTypesFit` compares, type by type, the operators of the Go
  methods with those the schemas take.
* `PosturesProofs`, the leaves: `isoDuration` loses nothing (`ExactDurations`), for
  any units and duration, from division with remainder; every leaf that a method
  of a typed field can make holds a value that its operator takes
  (`TypedValuesFit`) and has an operator (`OperatorsAreNamed`).
* `PosturesProofs`, the trees: `OneShapeLeaves`, `NothingBuiltIsRejected`,
  `BuiltExpressionsReadBack`, `TypedLeavesTakeTheirValues` and
  `DurationsArriveExact`, for any document, any durations and any number of steps
  of building. The invariant, `PostureInv`, contains `TableInv`, because a leaf is
  only as good as the constant it is made with. Of the expression it says that all
  its nodes are `Honest` (a duration in one is what `isoDuration` wrote), whoever
  built it, and that all are `Proper` (one shape, with the value its operator
  takes) if it was built by the book; of what was sent, that it passed the checks.
  `SetChildrenTells` says what each position of a tree holds once children are
  put under a key, and each constructor keeps the two properties
  (`ConstructorsTell`, `SetByHandTells`, `RowsTell`, `ConstantsTell`).
  The round trip goes value by value (`ValueComesBack`: what is written and read is
  the value, or the nearest `float64` of an integer), then node by node
  (`TreeComesBack`); `ComesBackOnce` says that a second round changes nothing,
  because a `float64` is written with digits that read back as itself. That there
  is a nearest one needs the least distance of a set of them (`NearestExists`).

Splitting, joining and summing are recursive functions on numbers. The library's
induction theorems cannot be used for them, as they take an operator for a
parameter, so what they say is proved from least elements of sets of numbers
(`LeastNumber`, from the well-foundedness of `<`): `RecursionExists` and
`RecursionUnique` give a recursive definition the value its equations demand, and
`EverySequence` is induction on the length of a sequence, for a set of sequences
in place of a property.

Every theorem rests on the named assumptions on the constants of its module,
which TLC evaluates on the runs, and on the hypotheses that it states itself.

Only model-checked, and why:

* `EveryCallReturns`, `CancelledCallReturns`, `EveryCallServed` and
  `EveryWalkEnds`: liveness under fairness is outside what the provers do.

Every safety invariant that a passing run checks is also a theorem, and so is the
refinement. Three hypotheses narrow a theorem: `RoomForJitter` excludes a cap
within two seconds of the largest `Duration`, `CleanBases` a base URL whose own path has an empty segment, which the SDK
sends as it got it, and `Decimal` says that `strconv.Itoa` writes no number as
nothing.

## Not modelled

* Building the HTTP request beyond its path, query and fields: headers,
  authentication, encoding of bytes.
* The wording of errors: titles, details, validation messages (`errors.go`).
* `Create` and `Delete` of the objects in `SharedObject`, and `Verify` and
  `Unverify`: they are routed in `Endpoints`, and their effects are those of any
  call of `CallContract`. `Delete` of a Gateway, which takes something away that
  others use, is in `GatewayTokens`.
* `List` and `Update` of Gateways touch no token and are in `Endpoints` only.
* `posture_fields_gen.go`: 383 constants, data that the generator wrote. What the
  generator guarantees of them is in `PostureTable`.
* `Null.UnmarshalJSON`, which nothing in the SDK calls.
* `internal/testutil`, the tests and the examples, other than the loop of
  `ExampleListOptions`, which is how the SDK means its pages to be walked.

## Where to go on

The components with a state or an algorithm of their own are modelled, and the
safety properties that the runs check are proved. These are left:

* The four liveness properties. `CursorLeadsOn` and `NobodyLosesOutOfTurn` are the
  parts of `EveryWalkEnds` and `EveryCallServed` that depend on the code.
* Two hazards are listed without a property. One no code here promises to
  prevent: a `ReplaceAll` computed from a stale list (`memberships.go:64`). For the
  fraction of a second that `Before` and `After` cut off (`posture_fields.go:259`)
  times would have to be numbers.
* How long the token that a Gateway uses survives a rotation is the API's to keep
  (`gateways.go:212-228`). `GraceEnds` may come at any time, so nothing is said of
  it; a clock would be needed.
* `SharedObject` has no `Create` and `Delete` of the object itself.
