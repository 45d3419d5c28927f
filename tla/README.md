# scimply in TLA+

scimply is a SCIM 2.0 server library in Go: HTTP handlers in front of a
`store.ResourceStore`, which is an in-memory map, an SQL or MongoDB database, or
another SCIM server. This directory holds TLA+ specifications of its parts, the
TLC models that check them and proofs that TLAPS checks. Paths below are
relative to the repository.

## 1. The system

| Component | State | Operations | Talks to | What makes it correct |
|---|---|---|---|---|
| In-memory store, `store/memory.go` | `resources`: type → id → pointer; `mu`, a `sync.RWMutex`; `hooks` | Create, Get, List, Replace, Patch, Delete | called by one goroutine per HTTP request; calls hooks and the PATCH engine | calls are linearizable; no stored pointer escapes; published resources are immutable; the lock is always given back; metadata and identifiers have a sane history |
| Resource and clone, `resource/resource.go`, `accessor.go`, `path.go` | none (values) | ToMap, FromMap, Clone, Get/Set/Delete of a path | everything | Clone shares nothing with its receiver and keeps the metadata, up to the second |
| PATCH engine, `resource/patch.go` | the working clone | ParsePatchRequest, ApplyPatch: add, remove, replace | stores, proxy | all operations or none; only what the paths name changes; a repetition changes nothing |
| Filters, sorting, `resource/filter*.go`, `sort.go` | none | parse, EvalFilter, SortResources | memory store, translations, proxy | what is written for another server reads back as the same filter; evaluator and databases agree; pages are those of the sorted list |
| Routing and middleware, `server/server.go`, `middleware.go`, `discovery.go` | configuration | content negotiation, media type, authentication, recovery; one handler per method and path | handlers | every request gets one answer |
| Resource handlers, `server/handler.go`, `protocol/` | configuration | decode, call the store, map its error, answer | store, audit log | page limits; the answer and the audit record tell what happened |
| Bulk, `server/bulk.go`, `resource/bulk.go` | results so far, error count | a sequence of requests through the router | handlers | stops at `failOnErrors`; earlier effects stay and are reported |
| Audit log, `audit/` | one mutex around an encoder | Log | handlers | one whole record per call, after its effect |
| PostgreSQL and MySQL, `connector/postgres`, `connector/mysql` | tables (one JSON column, or base and child tables) | the six store methods as statements and transactions | database | no lost update; rows and child rows agree; 404 only when absent |
| MongoDB, `connector/mongodb` | a collection per type, unique indexes | the six store methods | database | same |
| SQL mapping, `connector/sql` | none | filter to SQL, rows to resources | SQL stores | agrees with EvalFilter |
| SCIM proxy, `connector/scim` | none but the request under way | the six store methods as HTTP calls, retried on 429 | another SCIM server | bounded retries, nothing performed twice; errors mapped to the right sentinel |
| SCIM 1.1, `v1/` | none | conversion both ways | clients of 1.1 | round trip |
| Serve command, `cmd/`, `config/` | one HTTP server, one store | start, graceful shutdown | everything | no request is cut off, the store closes last |
| Schema registry, `schema/` | map under an RWMutex | Register, Get | server, discovery | lookups see whole registrations |
| Request classification, `protocol/` `ParseRequest` | none | method and path to an operation | applications | agrees with the router |
| Tracing store, `store/otel.go` | none | delegates | store | transparent |

Behaviours that are hard to test: goroutines interleaving around one lock and
around pointers that outlive it; hooks, which are application code, running
under the lock, failing, panicking or calling back; a patch that fails half-way;
database stores whose methods are several statements; retries against a server
that may already have acted; bulk requests that fail or panic in the middle; a
shutdown while requests run; arrays rebuilt by a PATCH; one filter with four
interpreters; page arithmetic at its limits. `PROJECT.json` lists
each of these hazards at its line.

## 2. Modules

| Module | Role |
|---|---|
| `MemoryStore` | the in-memory store with its callers, hooks, lock and heap |
| `AtomicStore` | what `store.ResourceStore` promises: every call takes effect at one instant |
| `MemoryStoreRefinement` | the refinement mapping from `MemoryStore` to `AtomicStore` |
| `MCMemoryStore`, `MCMemory*.cfg` | the instances TLC checks |
| `MemoryStoreProofs` | the inductive invariant, the theorems about states, and those about steps: metadata, identifiers, names, the wedge |
| `MemoryStoreLinearizable` | the proof that `MemoryStore` implements `AtomicStore` |
| `SqlStore` | PostgreSQL and MySQL in JSON mode and MongoDB: each statement atomic, nothing around them |
| `SqlStoreProofs` | its inductive invariant and theorems |
| `ColumnStore` | PostgreSQL and MySQL in column mode: transactions over several tables, locks, the pool; it takes the statements outside transactions from `SqlStore` |
| `ColumnStoreRefinement` | the refinement mapping from `ColumnStore` to `SqlStore` |
| `ColumnStoreProofs` | the inductive invariant of `ColumnStore` and its theorems |
| `ColumnStoreOneRow` | the proof that `ColumnStore` implements `SqlStore`, and what follows from it |
| `MCSqlStore`, `MCSql*.cfg`, `MCColumnStore`, `MCColumn*.cfg` | the instances TLC checks |
| `ScimClient`, `MCScimClient` | the proxy's calls, the network, an upstream server that may refuse, limit and fail |
| `ScimClientProofs` | its inductive invariant and theorems |
| `Routing` | method and path to handler or refusal |
| `Server`, `MCServer` | a request from the middleware to the answer, bulk requests, audit log, life of the process; composes `Routing` |
| `ServerProofs` | its inductive invariant and theorems |
| `Attributes` | JSON values, attribute paths, accessors, comparison of a value |
| `FilterLanguage` | what PATCH, lists and queries take of filters, as constant operators |
| `FilterText` | parsers of filters and PATCH paths, evaluation of filters, and the proxy's writers of both |
| `PatchEngine` | parsing and applying PATCH requests |
| `ListPages` | list parameters, sorting, cutting a page, the same through the proxy |
| `Translations` | filters as SQL conditions and MongoDB queries, and what the databases make of them |
| `SchemaV1` | conversion between SCIM 1.1 and 2.0 |
| `Values` | one call of a function of the modules above, and its answer |
| `ValuesProofs` | theorems about PATCH, lists, the proxy's lists and SCIM 1.1 |
| `Queries` | `Values` with the translations: what the three databases find |
| `MCValues`, `MCInputs` | `Queries` with the filters of `FilterText`, for every bounded input |

### MemoryStore

The model has a *heap*. `resources`, the locals of the goroutines (`own`, `snap`)
and what callers received (`out`) hold references to cells, as the Go program
holds pointers, and `Clone` is what puts a value into another cell. Whether a
pointer leaks is therefore a property of the model and not an assumption. Cells
that nothing refers to are reused (`Live`, garbage collection).

A resource is its identifier, its userName (or none), its creation and
modification times, what a PATCH has stored in `Attributes` under other spellings of
`id` and `meta` (`otherIds`, `otherMetas`), and a flag that somebody wrote to it (a
handler setting `Meta.Location`, a hook). Other attributes do not influence what the
store does. `Clone` goes through `ToMap`, whose times are RFC 3339 text, so it drops the
sub-second part (`PerSecond` is the number of clock readings in a second), and through
`FromMap`, which ranges over a Go map and takes any spelling of `id` and `meta` for the
field: of two spellings the copy has either (`Clones`), and keeps no second one. The
identifier in a resource may thus differ from the key it is stored under, which the
auxiliary field `key` records. One second spelling of each is enough for all that a
clone can read, and an empty identifier (`Nil`) is not written.

| Code | Actions |
|---|---|
| `Create` | `Refuse` (cancelled, no randomness, pre hook), `Prepare` (identifier and time, before `Lock`), `Acquire`, then `Conflict` or `Create`, then `PostHooks` |
| `Get` | `RLock`, then `Get` or `NotFound` (clone and `RUnlock` in one step) |
| `List` | `RLock`, `Snapshot` (copies pointers, `RUnlock`), `ListFilter` once per resource without the lock, `ListPage` |
| `Replace` | `Refuse`, `Lock`, `Acquire`, `NotFound` or `Replace`, `PostHooks` |
| `Patch` | `Lock`, `Acquire`, `NotFound` or `CloneForHook`, `HookEdits`, `HookRefuses` or `ApplyPatch`, `ApplyOp` once per operation, `PatchFails` or `Patch`, `PostHooks` |
| `Delete` | `Refuse`, `Lock`, `Acquire`, `NotFound` or `Delete`, `PostHooks` |
| `sync.RWMutex` | `Acquire`, `RLock`, `Unlock`, `RUnlock`: an announced writer keeps new readers out; `Unlock` admits every reader that was blocked |
| hooks | `HookEdits`, `HookRefuses`, `HookReenters`, `PostHooks` with the outcome panic |
| `server/handler.go` | `Call`, `CallerEdits`, `Return` |

The deferred `Unlock` is part of every action that leaves a section, also of
those that leave it with an error or a panic.

### AtomicStore

The promise of the interface without locks, pointers or intermediate states:
a table of values, and calls that take effect at one instant between their
invocation and their response. `Create` draws its identifier and its times
before that instant, as the code does; a post hook that panics loses the answer
and keeps the effect; a page of `List` is defined by the places its resources have
among the matches (`Places`), independently of the code's slice arithmetic. What is
shown, and what a PATCH starts from, is a copy, which may have either spelling where
there are two (`Copies`); List copies one resource after the other (`Copy`).

### SqlStore

One resource type in one table or collection. A method is the sequence of
statements it sends, and a goroutine may be anywhere between two of them. What a
method took from one statement to the next is `draft[p]` (the resource it is about
to write) and `total[p]` (List's COUNT). `Dialect` selects what the three connectors
do differently:

| | `postgres` | `mysql` | `mongodb` |
|---|---|---|---|
| times, `Stored`, `ReadBack` | in the JSON column, to the second | columns of their own | not read back: zero |
| rows affected, `NoneAffected` | rows found | rows changed | documents found |
| filter without translation | `Fallback`: 1000 rows, `EvalFilter`, page | not applied, flag set | does not happen for `eq` |
| SELECT without count, `Limit` | no LIMIT | LIMIT of the COUNT | LIMIT of a COUNT above 0 |

| Code | Actions |
|---|---|
| `Create` | `Prepare` (identifier, time, clone), `Insert` (ok, or conflict when `NameTaken`) |
| `Get` | `Get` |
| `Replace` | `ReadForReplace` (the existing row, for its creation time; time stamp), `Update` |
| `Patch` | `ReadForPatch` (Get and ApplyPatch), then the two of `Replace` |
| `Delete` | `Delete` |
| `List` | `Count`, `Select`; or `Fallback` |
| any statement | `StatementFails`, and the outcome internal of `Wrote`: the change is made and its answer lost |
| the server | `Call`, `Return` |

`Callable` says that clients only name identifiers a Create has written: 128 random
bits are not guessed. A missing column (`Columns`) makes a statement fail; an
attribute of an extension schema (`Extensions`) has no translation.

### ColumnStore

A resource is a row of the primary table and a row in each joined table
(`Part`, from `splitByTable`). `rows` is what is committed; `tx[p]` holds the cells
p's transaction has written, which are also the rows it has locked (`Nil` while it has
only locked one), and is published whole by `Commit`. Reading is the SELECT with its LEFT JOINs (`Table`).

| Code | Actions |
|---|---|
| `pool.Begin`, deferred `Rollback`, `Commit` | `Begin`, `Rollback` (part of every failing return), `Commit` (its answer may be lost) |
| `pgInsert` on the primary table | `InsertPrimary` |
| `pgUpdate`, `myUpdate` on the primary table | `LockRow` (the row, or notFound), then `UpdatePrimary` (the UNIQUE index, and the write) |
| the loop over `cfg.Joins`, `pgUpsertJoin`, `myUpsertJoin` | `WriteJoin`, in the order of `Plan` |
| `deleteColumnMode` | `DeleteRow`, joined tables in reverse (those without `DeleteJoin` are passed over, `Skips`), then the primary table |
| cancelled context, failing statement | `Abort`, `StatementFails` |
| everything outside a transaction | `Call`, `Prepare`, `Read`, `Return`, from `SqlStore` on `Table` |

The database is external and assumed to be what the statements need: READ
COMMITTED, row locks to the end of the transaction, an INSERT, and an UPDATE that has
locked its row (`Checks`), waits for a transaction that holds the same UNIQUE value
(`HoldsName`), a detector that ends one
transaction of a waiting circle (`DeadlockVictim`). Assumed of the configuration:
the tables start empty, have no foreign key constraint, every attribute is mapped
to one column, each join has a `ForeignKey`, and only the primary table has a UNIQUE
column. The clock ticks in the resolution of the time columns (microseconds).

### ScimClient

A goroutine's phase says where `do` is: about to send an attempt, in
`HTTPClient.Do`, with a response, waiting before the next attempt, or returning.
`net` holds requests on their way; a request the client has given up stays there and
may still be performed, and a resent one is a second message. The upstream server is
external: any server that follows RFC 7644, may answer 429 or a refusal before it
acts and 500 before or after, and whose answers may be garbled or lost.

| Code | Actions |
|---|---|
| `Create`, `Get`, `List`, `Replace`, `Patch`, `Delete`: building the request | `Call` |
| `do`: `bodyBytes`, `HTTPClient.Do` | `Send` (the body is `Body`), `GiveUp` for an error of any kind |
| `do`: 429, `Retry-After`, `select` on timer and context | `Wait`, `Retry`, `Cancelled`, `RetriesExhausted` |
| `mapHTTPError`, decoding | `Answer` |
| `Patch`, case `StatusNoContent` | `ReadBack`: a GET in the same call |
| the upstream server | `Refuse`, `Perform` |

### Server

A request is what its status depends on: whether content negotiation, media type and
authentication let it pass, method, path, and whether its body is absent, not an
object, of the wrong shape or good. `k[p]` is the bulk operation at hand, 0 for the
request itself; a bulk operation goes to the router directly, as `executeBulkOp` does,
without passing the middleware again. What the store does is any outcome another
module allows it: success, an error before the change or, as an internal one, after it,
a panic of a hook, or nothing at all. `Errors` is what `ErrorFromStoreError` makes of a
store's errors (`Own`), of those a hook refuses with (`Hooked`), and of those the proxy takes
over from its upstream server (`Relays`); through the proxy, one that follows a PATCH may
be the answer to the GET after a 204, and then the change is made (`ReadsBack`).

| Code | Actions |
|---|---|
| middleware, in its order | `Screen` |
| `route`, handler up to the store call | `Dispatch`, `Bulk`; `DispatchPanics` decodes the nil body of a bulk operation without data |
| store call | `StoreReturns`, `StorePanics` |
| `logAudit`, then the answer or the bulk entry | `Audit` with `Record` and `Respond`; a `Log` that fails leaves no record (`lost`) and is not heard of |
| `recoveryMiddleware` | `Panic`: the entries collected so far are lost |
| the loop of `handleBulk` | `Respond`: `Enter`, `Stops` |
| `cmd/serve/root.go` | `Signal`, `ListenFails`, `Expire`, `Shutdown`, `CloseStore`, `Exit` |

### The values

`Attributes` to `SchemaV1` are functions, translated function by function and named
as in the code. `Values` calls one of them and keeps its answer, so that a property
can relate it to the input. Filters are trees and their operators recursive, which no
proof can use; PATCH, lists and queries only need some of their results, so these are
the constants of `FilterLanguage`: the theorems hold for every language of filters, and
`MCValues` gives TLC the code's. The data is smaller than the program's:

- texts are sequences of characters and JSON values are records with their type, so
  letter case, order and the text of a number, a boolean or null are those of the
  code; names of attributes are in lower case (two keys that differ in letter case
  only are left out), numbers have one digit;
- a filter is a sequence of tokens, and a path of pieces; how characters make a
  token is left out, and no attribute is named like a keyword;
- maps and arrays are not compared with values;
- the databases are external: SQL's three values, collation per dialect, columns of
  type text; MongoDB compares by type and tests arrays element by element.

## 3. Properties and runs

| Run | Instance | Properties | States, time |
|---|---|---|---|
| `memory_one_resource` | 2 goroutines, 1 identifier, clock 1..2 with 2 readings a second; all operations, a patch that removes userName and stores a `Meta`, hooks that return, refuse, panic, write | `TypeOK`, `LockInv`, `NoAliasing`, `PublishedImmutable`, `MetaHistory`, `GoneForGood`, `Linearizable` | 330 000, 170 s |
| `memory_users` | 2 users and a group, 2 identifiers, names n and N that differ in letter case, a patch that stores an `ID`, a page from start 2 | `CreateChecksUserName`, `Linearizable` | 100 000, 75 s |
| `memory_live` | 3 goroutines, readers and writers, one of which fails, hooks that may call the store, fair | `WedgeIsFinal`, `OnlyReentryBlocks` | 92 000, 150 s |
| `sql_store` | PostgreSQL, 2 goroutines, 2 identifiers, clock 0..3 with 2 readings a second, `FallbackLimit` 1; all calls, filters that translate, fall back, or fail | `TypeOK`, `SameCreated`, `NotFoundIsTrue`, `GoneForGood`, `ListMatches` | 270 000, 20 s |
| `sql_unfiltered` | MySQL, the same calls | `ListMatches` is violated | see findings |
| `sql_lost` | two patches of different attributes | `PatchAppliesToStored` is violated | see findings |
| `column_store` | PostgreSQL, 2 goroutines, 3 tables, 2 resources that compete for a name and may exchange theirs; all operations | `TypeOK`, `NoOrphans`, `DeadlocksNeedDeleteOrSwap`, `OneRow` | 530 000, 115 s |
| `column_live` | 3 goroutines, 2 connections, 2 tables, fair | `NothingHeld`, `EveryCallReturns` | 9 000, 20 s |
| `column_mysql` | MySQL | `NotFoundIsTrue` is violated | see findings |
| `proxy` | 2 goroutines, 2 calls, 1 upstream resource, `MaxRetries` 3; five kinds of calls, fair | `TypeOK`, `AtMostOnce`, `OutcomeIsTrue`, `Forwarded`, `CallEnds` | 430 000, 110 s |
| `server` | 2 goroutines; ten requests that are refused, three that are served, five bulk requests; hooks that refuse and panic, a proxied store, a log that fails; a signal at any time, fair | `TypeOK`, `BulkStops`, `AnswerTells`, `AuditTells`, `NoCutOff`, `ShutdownEnds` | 700 000, 155 s |
| `values` | every input of `MCValues`: filter texts of up to two tests, whole and cut short; patches of 28 users; lists of up to three resources with their parameters; filters on users and rows; SCIM 2.0 users | `ReadsBack`, `PatchFrame`, `PatchSettles`, `PageIsAsked`, `ProxyIsTransparent`, `QueriesAgree`, `V1Agrees` | 112 000, 15 s |

What the properties of the in-memory store say:

- `LockInv`: the goroutine inside a write section, hooks included, is the one
  writer; readers and a writer never overlap; each exit releases.
- `NoAliasing`, `PublishedImmutable`: every way out of the store is a clone, and a
  resource the store or a running List refers to is never written to. They are
  what makes List's work after `RUnlock` correct.
- `MetaHistory`: however calls interleave, a resource that exists keeps its identifier
  (or takes the key it is stored under) and the second of its creation, and its last
  modification does not go back. What can change them is in the resource itself: an `ID`
  or `Meta` that an earlier PATCH stored, see the observations; the property allows these
  values and no others. Creation times are compared to the second because PATCH drops
  the rest (`Truncate`).
- `GoneForGood`: a racing Replace, Patch or Create never brings back what was
  deleted.
- `CreateChecksUserName`: checking and storing are one section, letter case ignored.
- `Linearizable`: `MemoryStore` implements `AtomicStore`.
- `OnlyReentryBlocks`: nothing but a hook that re-enters stops a call, in particular no
  stream of readers; `WedgeIsFinal`: that hook stops the store for good.

What those of the database stores say:

- `SameCreated`: wherever a resource is seen, in the table, in an answer or in a
  draft that is about to be written, its creation time is in the same second. It is
  why Replace may write back a creation time it read in an earlier statement.
- `NotFoundIsTrue`, `GoneForGood`: the UPDATE after a read is decided by its row count;
  it neither says notFound of what is there nor brings back what was deleted.
- `ListMatches`: every resource of a list response satisfies the filter; PostgreSQL's
  fallback query filters in the connector, MySQL leaves it undone.
- `OneRow`: seen through the joined SELECT, column mode is `SqlStore`: each
  transaction is one write of one row, at its COMMIT.
- `NoOrphans`: Replace upserts joined rows of a resource it read before its
  transaction; the lock on the primary row, taken first, is what keeps a concurrent
  Delete from leaving them behind.
- `DeadlocksNeedDeleteOrSwap`: two kinds of circles of waiting transactions exist. Delete
  against Replace or Patch of the same resource, whose lock orders differ; and Replaces or
  Patches of different resources that exchange userNames, each of which has locked its own
  row and waits at the UNIQUE index for the name the other is about to give up. Without
  the second kind TLC finds a violation, two Replaces that swap names. Creates, and
  writes of joined tables alone, do not deadlock.
- `EveryCallReturns`, `NothingHeld`: neither the pool nor a lock is kept.

What those of the proxy and the server say:

- `AtMostOnce`: `do` repeats a request after a 429 only, which says that it was not
  performed; neither a lost answer nor a timeout makes it send again.
- `OutcomeIsTrue`: success means performed; notFound, conflict, a named SCIM error or
  a cancelled wait mean not performed, also not later. All that is in doubt is
  ErrInternal. A PATCH answered 204 is the exception: its outcome is that of the GET
  that follows, so it may be performed and answered notFound.
- `Forwarded`: each attempt carries the whole body, to the resource of its call.
- `CallEnds`: timeouts and the retry bound end every call, with no assumption about
  the upstream server.
- `BulkStops`: the last operation performed is the last one with an entry, and nothing
  comes after the `failOnErrors`-th failure.
- `AnswerTells`: success means performed, 4xx or no entry means not performed. `Unsure`
  names the answers that leave it open: 500, and through the proxy the 400, 404 or 409 of
  a PATCH, which may be that of the GET after a performed one. So `AnswerTells` agrees with
  `OutcomeIsTrue` on what a client of the proxy may conclude.
- `AuditTells`: each performed operation has a record, unless `Log` failed to write this
  very one, whose error `logAudit` discards (`server/handler.go:258`); each record has the
  status the client is told, once an operation and in their order. A failed `Log` changes no
  answer and no other record.
- A panic is the exception of these three: `recoveryMiddleware` answers 500 for the whole
  request, performed operations included.
- `NoCutOff`, `ShutdownEnds`: the store is closed under a running request only when
  `ShutdownTimeout` has passed; the process ends unless the pool's `Close` waits for a
  store call that never returns.

And those of the values:

- `ReadsBack`: `filterToString` and `patchPathToString` put back enough parentheses:
  the upstream server parses what the client meant.
- `PatchFrame`: a PATCH rebuilds arrays and objects without disturbing what its paths do
  not name. A path names an attribute, or a field of one (`Named`): then the other
  attributes stay, and so do the other fields of the object. A value without fields
  gives way to an object of the fields named, and an array is such a value: that a path
  `emails.type` replaces the array is what the code does, see the observations. With a filter
  it also says which elements, fields and order stay (`ElementsFrame`).
- `PatchSettles`: doing it again, after an answer that was lost, changes nothing, except
  where `Repeatable` says that it does.
- `PageIsAsked`: page limits, sorting and cutting together yield the resources at the
  asked positions; with a maximum page size no index overflows.
- `ProxyIsTransparent`: a list through the proxy is the list without it, unless
  count is 0.
- `QueriesAgree`: without a negation the databases select nothing that the evaluator does
  not match. Where every attribute that the filter compares is there, PostgreSQL and
  MySQL select exactly what it matches, if they can run the query; so does MongoDB where the
  values have the types they are compared with, for it orders values within a type
  only (`title lt true` matches no text there, and does in the evaluator). Wildcards and
  letter case are excepted, see the observations.
- `V1Agrees`: SCIM 1.1 clients see no field of 2.0, and a canonical 2.0 user comes
  back as it was. `Canonical` says which users those are: among other things they list no
  schema of 1.1 and no group's, for `FromV2` and `ToV2` drop or rename those.

Every property has a mutant in `PROJECT.json`: a plausible bug of the code (no
clone, a return without unlock, names compared with `==`, a reset creation time,
an UPDATE that inserts, joins in map order, ...) under which TLC finds the property violated.

**Bounds.** Two goroutines suffice for every pairwise race; three are used for
readers against writers, where the third matters. One identifier concentrates
two goroutines on one resource; two are needed for name clashes and pages. The
`Refs` are seven or eight cells: each goroutine holds at most the cells of one
call and `Room` makes an allocating step wait when two are not free, which at these
sizes is no restriction (liveness holds with it). `MaxClock` bounds the clock; with
`PerSecond` = 2 it reaches a second that is half over. Identifiers are never
reused, so at most `Cardinality(Ids)` Creates get past `Prepare` in a behaviour;
afterwards `Create` can only be refused.

In `SqlStore` and `ColumnStore` two goroutines are the two sides of every race over
one row; in `column_live` a third one is one more than there are connections. Two
joined tables give Delete an order to get wrong. Tables are bounded by `Ids`; a
`FallbackLimit` of 1 stands for 1000.

`memory_one_resource` starts its clock at 1 (`FirstClock`), the second half of the first
second: the next tick is both another second and one whose fraction Clone drops.
In `ScimClient` two calls are a call and another one it may be mixed up with, and one
upstream resource makes all of them meet; `MaxRetries` 3 is the code's default. `MaxBulkOps`
is 3, and there are bulk requests of two, three and four operations that fail first, in
the middle, last, or by panic. The run has hooks, proxy and a `Close` that waits at once,
which allows every outcome that one of them does; the theorems also cover each alone. In `Values` two operands show precedence and
associativity, three resources have every order with a tie and a resource without
the key, `MaxInt` 7 puts an overflow within reach of the parameters, and two elements
with a value that is no object are what an array operation can tell apart.

**Symmetry** of the goroutines is used in runs without liveness properties.

**Fairness.** `WF(Step(p))`: the Go scheduler runs every runnable goroutine and
hooks end. `SF(Acquire(p))`: `RWMutex.Lock` first takes an ordinary mutex, which in
its starvation mode hands over to the longest waiter, so a writer that finds the
lock free again and again gets it. A call need not arrive, a hook need not write
and the clock need not tick: `Call`, `HookEdits`, `CallerEdits` and `Tick` are not fair.
In `ColumnStore`, `SF(Work(p))`: the pool and the database's lock queues are first in,
first out, and the deadlock detector acts, so what a goroutine waits for again and
again it gets; failures (`StatementFails`, `Abort`) are not fair.
In `ScimClient`, `WF(Step(p))` is the scheduler, the timers and `HTTPClient.Timeout`, which
ends a request nobody answers (30 s unless configured); nothing is assumed of network
and server. In `Server` the process (`Expire`, `Shutdown`, `CloseStore`, `Exit`) and the
handlers go on; requests and signals need not come and a store call need not return.
`CHECK_DEADLOCK FALSE` is set where the system really stops: in `memory_live` by
re-entry, in `proxy` when all calls are made, in `server` when the process has
exited, in `values` after the one call.

**Findings.** Each is a run in which TLC finds the violation of what the repository
says.

- `sql_lost`: `docs/guides/patch-operations.mdx:68` says that the SQL and MongoDB
  connectors wrap a patch in a transaction; `Patch` is Get, ApplyPatch and Replace
  without one, and the later of two patches undoes the earlier.
- `sql_unfiltered`: `docs/reference/store-interface.mdx:47` says that the server
  evaluates the filter when `NeedsClientFilter` is set; `server/handler.go:139` does not
  look at it.
- `column_mysql`: `docs/guides/custom-store.mdx:30` reserves notFound for resources that
  do not exist; `myUpdate` says so of a row that an UPDATE did not change.

**Observations** without a run of their own, met while modelling. Where nothing in
the repository says otherwise, or only an exception in a property, they are no findings.

Stores:

- A PATCH that adds a key `ID` or `Meta` stores it in `Attributes` beside the field
  (`resource/patch.go:183-185`, `:206`, `resource/accessor.go:87-97`), and from then on each
  clone may read it as the identifier or the metadata (`resource/resource.go:66-100`, by
  the order of a Go map); `Patch` (`store/memory.go:282-294`) resets neither. The resource
  stays under its key, and a Replace ends it. `schema/core.go:86` has `id` read-only.
- userName is unique in Create only (`store/memory.go:91`), while
  `docs/guides/custom-store.mdx:31` and `schema/core.go:106` present it as unique: in the
  states of `memory_users` two users share a name after a Replace.
- `connector/postgres/store_test.go:137` compares the creation time Replace answers
  with to Create's with `!=`; the JSON column has dropped its sub-second part, which
  `SameCreated`, to the second, does not tell.
- `pgUpdate` (`connector/postgres/store.go:780`), with no column to set, relies on the
  Get before the transaction: with `PrimaryWritten` = FALSE, TLC finds a joined row left
  behind by a Replace that raced a Delete.
- The order of an unsorted list is that of a Go map: pages without `sortBy` may repeat
  or skip resources. Sorting by `id`, `meta` or a sub-attribute of an array has no effect,
  and `compareForSort` is not transitive over numbers mixed with texts.
- `docs/reference/connectors.mdx:176` has MongoDB evaluate value paths in process; the code
  uses `$elemMatch`. The name of the table of a value path is the attribute and an `s`,
  `emailss` for the e-mails, so such lists fail in SQL.

Filters and PATCH:

- A missing attribute compares as the text `<nil>`; `eq` ignores letter case and `gt`,
  `lt` do not; the URN of a path is not looked at; `emails.value pr` is true of any array.
  SQL's NULL and MongoDB's missing fields make `ne` and `not` differ from the evaluator,
  and `%`, `_` and regular expressions are not escaped.
- A PATCH path `emails.type` without a filter takes `type` into the attribute path: add and
  replace put an object in place of the array, remove does nothing, where the comments
  at `resource/patch.go:174-176` and `:267-268` have each element changed. `PatchFrame`
  allows the object, in so many words.
- A filtered replace of a missing attribute stores its value as the attribute.

Server and proxy:

- A bulk operation without data panics (`server/bulk.go:118-129`): 500 for the whole bulk
  request although earlier operations were performed. The comment at `:85-96` has the
  authentication middleware reused; the operation goes to the router.
- A count of 0 in a `.search` body, or `00`, becomes the default page size, against the
  comment at `server/handler.go:107-108`; numbers from a million up are ignored there. The
  proxy leaves a count of 0 out of its query. `start + pageSize` overflows only
  when `maxPageSize` is not positive.
- A PATCH through the proxy that its upstream server answers with 204 is performed, and
  the client is told what the GET after it was answered, also 404
  (`connector/scim/client.go:352-355`).
- `logAudit` discards the error of `Log`. A `json.Encoder`, which `JSONLogger` keeps for its
  life (`audit/json.go:11-25`), returns its first write error for ever: after one failed
  write no record of any later operation is written, and nobody is told.
- `/schemas` and `/resourcetypes` in other letter case are routed and then not found.
- `ShutdownTimeout` does not bound `pgxpool.Close` and `sql.DB.Close`; PostgreSQL's `Close`
  sets the pool to nil while calls may still read it.
- `Retry-After` as an HTTP date is ignored (`connector/scim/client.go:125`).

SCIM 1.1: the converters change nested maps of their input, promoting overwrites an
extension that is there, a custom attribute of the extension does not come back, and
the `id` of a group membership has no inverse, nor has a user's schema list with a schema
of 1.1 or a group's in it.

## 4. Proofs

### The in-memory store

The theorems hold for every set of goroutines, types, identifiers, names and
requests, every number of cells and every clock bound, under the assumptions
`TypesAssumption`, `RequestsAssumption` (requests are well typed; those on one
resource carry an id), `ClockAssumption`, `NilAssumption` (`Nil` is none of the
values), `MemoryAssumption` (there are finitely many cells, for otherwise the length of a
list need not be a number) and, for the refinement, `ViewsAssumption` (nor is `Nil` what a
client sees of a resource). TLC evaluates them in every run.

`MemoryStoreProofs` proves `Spec => []IInv` (theorem `Inductive`), where `IInv` is the
conjunction of

- `TypeOK` and `LockInv`;
- `LocalInv`: what `own`, `out`, `snap` and the request are at each point of a call;
  without it nothing says that Patch's clone exists when it is edited;
- `HeapInv`: every pointer leads to a resource that has a key; `TypeOK` alone allows
  dangling ones;
- `Separation`: `NoAliasing`, pointer by pointer. `NoAliasing` is not inductive by
  itself: a step that publishes `own[p]` needs that `own[p]` is a resource of `p`
  alone and that new cells are outside `Live` (lemmas `CellsFresh`, `NotLive`).

Three lemmas serve several actions each (`FailStep`, `PublishStep`, `OwnCloneStep`),
then there is one lemma per action. `TypeCorrect`, `MutualExclusion` and `ClonesApart`
follow.

The second part of the module adds `Provenance` (a stored resource has the key it is stored
under and was not modified in the future; the key of a running Create is nobody else's; the
clone of a Patch has the identifier and creation time of its target, or what an earlier
PATCH stored in it, `CopyOf`) and the lemma `EntryChange` (the four ways an entry of `resources`
changes), and concludes `PublishedNeverWritten`, `MetaKept`, `DeletedStaysDeleted`,
`CreateIsChecked` and `WedgeStays`. The arithmetic is in `TruncateType` and
`TruncateTwice`.

`MemoryStoreLinearizable` proves `Linear`: `Spec => Linearizable`, the refinement of
`AtomicStore` under the mapping of `MemoryStoreRefinement`. `IInv` and `Provenance` say what
the pointers are, not how far a call has come; the third invariant, `Course`, does:

- the clone of a Create has the name that was asked for, and no second spelling, until it
  is stored;
- before operation `step` of a Patch, none of the earlier ones failed, and its clone is a copy
  of the target to which the last of them of each kind were applied (`Applying`), so that at
  the end it is what `AtomicStore` writes in one step;
- the resources a List has copied or has yet to look at differ in their keys, so that the
  page, a set of pointers, has as many resources as pointers, and the copied ones hold no
  second spelling.

Each action of `MemoryStore` is then one of `AtomicStore` or a stutter, a lemma each (`CallMaps` to
`EditsMaps`). They share three facts. What one goroutine does changes nothing another shows:
the stored and returned cells are nobody else's to write (`CellKept`, `SameTable`, `SameOthers`,
`Frame`). A step of its own that shows nothing is a stutter (`Unseen`): a lock, a clone, a
hook's or caller's edit. A call that ends shows its status and its cells (`Ends`,
`PublishMaps`). List takes effect at its snapshot and looks at the resources only after it
has released the lock; what it finds is what was there because no published resource
is ever written (`PublishedKept`).
`PageLength` shows that `ListPage`'s arithmetic with start and end, for every integer
`startIndex` and `count`, is the number of places the abstract page has; the times in
seconds are `InSeconds` and `NextSecond`.

### The SQL and MongoDB stores

`SqlStoreProofs` is about every set of goroutines, identifiers, attributes, values and
requests, every precision and bound of the clock and every limit of the fallback
query, under the assumptions of `SqlStore`: what the requests and `Nil` are, that
`PerSecond` is positive, and that there are finitely many identifiers (they have 128
bits), for otherwise a COUNT need not be a number.

`Inductive` proves `Spec => []IInv`: `TypeOK`; `Local`, what `req`, `draft` and `out` are
at each statement of a call, with the fact that the draft of a Replace or Patch has
the identifier the request names; `KnownRows` and `KnownCopies`, every row lies under
its own identifier and every identifier seen anywhere was issued. Without `Local`
nothing says that an UPDATE touches the row its call asked for; without the other two
a Create could draw an identifier that an answer still carries. `FinishStep`,
`FailStep`, `ProceedStep` and `WriteStep` serve the actions, of which `StepInductive`
has one case each.

- `TrueNotFound` (every database but MySQL) and `Deleted` (all of them) follow from
  `IInv` action by action.
- `OneCreation` (every database but MongoDB) is an induction of its own: after every
  step, every copy descends from one seen before (`Kin`), with the same identifier and
  the same second, except that of a Create, whose identifier nobody has seen.
  `TruncateOnce` is the arithmetic: formatting a time twice is formatting it once.
- `Lists` (PostgreSQL and MongoDB) strengthens `ListMatches` by: what was counted has
  a filter that the database applies.

The database a theorem excludes is one where the property fails: MySQL's
notFound and unfiltered lists are findings above, and MongoDB's `Replace` does not find
the creation time it should keep.

### Column mode

`ColumnStoreProofs` is about every set of goroutines, identifiers, attributes and calls, every
number of joined tables and mapping of the attributes to them, every pool, and both drivers,
under the assumptions of `ColumnStore`. `Inductive` proves `Spec => []IInv`:

- `Locals`: what `req` and `draft` are at each statement;
- `Progress`: a transaction is open exactly inside one, has locked only its own row, in
  tables it is through with (`OwnRow`), has written there what its call asked for (`Putting`,
  `Deleting`), and an UPDATE of the primary row was of a row that is there (`Updating`);
- `Exclusive`: two transactions never have one row; with it what a transaction found in a
  row it has locked still holds at its COMMIT;
- `Fresh`, `Known`: the identifier of a running Create is in no row and in no other call;
- `Whole`: a resource has a row in every joined table, which is why an upsert writes.

`Statement` and `WritesRow` serve the statements, `Outside` and `Proceeds` what is outside
transactions, `Committed` says which rows a COMMIT changes.

- `Orphanless` follows at a COMMIT: a Create, Replace or Patch leaves the primary row behind,
  a Delete leaves no row in a table of `DeleteJoin`. The hypothesis `PrimaryWritten` is needed:
  without a mapped column `pgUpdate` and `myUpdate` send no UPDATE, and nothing tells the
  upserts that the resource is gone.
- `Deadlocks`: in a circle without a Delete and a Replace or Patch of one resource whoever is
  waited for has come further (`Place`: its statement, and whether that has its row) than
  who waits for it (`AheadRow`, `AheadName`), unless both are at the UNIQUE index with their
  rows locked. A set of numbers has a least one (`NatMin`), so those who have come furthest
  wait for each other there, for names (`Succeeds`).
- `Atomically` (module `ColumnStoreOneRow`, PostgreSQL with `PrimaryWritten`) is `OneRow`: the
  statements outside transactions are those of `SqlStore` on the joined rows (`OutsideMaps`,
  `ReadMaps`), those inside are stutters (`Unseen`), a COMMIT is the write, a roll-back the
  failure (`CommitMaps`, `RollbackMaps`). `SqlStore` refuses a taken userName in the write
  itself, here it is checked statements earlier; `Owned` carries it over: the userName a
  transaction has written is in no other row, and no other transaction has written it. MySQL is
  excluded because its count of changed rows is the finding `column_mysql`.
- `ColumnNotFound`, `ColumnDeleted` and `ColumnCreation` are what follows from it: the theorems of
  `SqlStoreProofs`, whose assumptions hold of the joined rows (`Assumed`; `IdsAssumption` and `NilAssumption`
  say that there are finitely many identifiers and that `Nil` is nobody's value). `Promise` is
  `SqlStoreProofs` under the mapping of `Rows`, and `SameSpec` says that both are about the same steps.
  `ColumnNotFound` is, for PostgreSQL, the property that `column_mysql` finds violated for MySQL.

### The proxy

`ScimClientProofs` is about every set of goroutines, upstream resources and requests,
every number of calls and every `MaxRetries`, under `RequestsAssumption`, `BoundsAssumption`
and `NilAssumption`. `AtMostOnce` is not inductive: what keeps a call from being performed
twice is spread over the client, the network and the server. `IInv` adds

- `Faithful`: a message that is to change something is what its call asked for, has not
  been performed, is the only one of its call, and its call has not ended with anything
  but ErrInternal;
- `Local`: before an attempt that is to change something, no such message of the call is
  under way (`Settled`) and nothing is performed; with an answer at hand, its status tells
  whether it was performed. This is where `do`, which sends again after a 429 only, and a
  server that answers 429 only before it acts, come together;
- `Owners`, `Later`, `FollowedDone` and `Types`: a call is of one goroutine, nothing has
  happened of calls to come, and a PATCH followed by a GET was performed.

`LoopStep` and `FinishStep` serve the client's actions, `RespondStep` and `ServerStep` the
server's. `PerformedOnce`, `TrueOutcome` and `TypeCorrect` follow from `IInv`, and
`ForwardedWhole` from `Faithful` in the one action that changes the server's resources.

### The server

`ServerProofs` is about every set of goroutines, endpoints and requests, bulk requests of
every length and every `MaxBulkOps`, under `EndpointsAssumption` and `ServerAssumption`, which
says what a request is: among other things that no bulk operation is a bulk request
which `handleBulk` accepts (refused ones may occur; see section 5). `Hooked` and `Relays`, the
hooks and the proxy, may be TRUE or FALSE. The properties speak of the moment the answer is
written; `IInv` says what holds on the way there:

- `Books`: of the operations that are over (`Over`), what was answered is true up to `Unsure`
  (`Tells`), what was recorded is the same, what was performed is recorded or `lost`, and
  records are in order;
- `Local`: only operations that are over, or at hand and just returned, were performed;
  inside the loop there is one entry less than the operation at hand and `failOnErrors` has
  not been reached; at its end the last entry is the first to reach it (`Complete`);
- `NoCutOff`, which is inductive with the types.

`RespondStep` (an operation gets its status), `GoesOn` and `PanicStep`
serve the actions; `FailuresAppend` counts failures. A loop that went on after the limit, an
entry left out, a record before the outcome is known would break `Local` at the step where
it happens.

### The values

`ValuesProofs` is about every set of inputs and every language of filters. A lemma,
`AnswersOfInputs`, leads from `Values` to its functions: an answer is the one of its input. The
theorems are about the functions, which are loops in the code and recursive functions in the model. `Least` and
`Induction` (from the library's well-founded minimum) and `Iteration` (a loop of N rounds has a
run) make each recursive function the loop it is (`SortLoop`, `KeptLoop`, `ApplyPatchIs`), and what
it computes an induction on the rounds.

- `ListsArePages` is `PageIsAsked`. Texts and keys are totally ordered (`TextOrderIs`,
  `KeysAreOrdered`), so the insertion sort is a sorted permutation (`SortByIs`); the place of a
  resource lies between the number of those that precede it and of those it precedes
  (`Ranked`); the limits of `ListParams` keep `Cut` within int.
- `GatewayIsTransparent` is `ProxyIsTransparent`: the query the proxy writes is read with
  the parameters it was written from.
- `PatchesKeepTheRest` is `PatchFrame`, and `PatchesSettle` is `PatchSettles`: an operation writes
  or removes one attribute or one field (`SetKeeps`, `WriteFrame`, `RemoveFrame`), what two
  operations leave alone both leave alone (`SameTwice`); in an array it keeps the elements
  its filter does not match, in their order (`KeptIs`), and a second time finds what it left
  (`OpSettles`).
- `V1IsFaithful` is `V1Agrees`: schemas (`SchemasReturn`) and attributes (`UserReturns`) come back
  one by one. The proof showed that `Canonical` had to exclude the schemas of 1.1 and of
  groups.

The assumptions, which TLC evaluates for the inputs of `MCValues`, say what an input is:

- `ListsAssumption`: numbers of a request fit an int (`strconv.Atoi` refuses others), a store
  holds each resource once, there is room for a page above the number of resources, and the
  values sorted by are texts, booleans, nothing, or numbers of one digit. With longer
  numbers, mixed with texts, `compareForSort` is not transitive (see the observations), and no
  order is there to be asked for;
- `PatchesAssumption`: arrays are lists, as `encoding/json` makes them;
- `FiltersAssumption`: the filter of a list, written and read again, is itself. That it is so
  for the filters of the code is `ReadsBack`, which TLC checks;
- `ResourcesAssumption`: a resource has schemas, as `ToMap` writes them, its arrays and
  objects are JSON, and its extension is an object without an attribute called `schemas` or
  named by the extension's own URN.

### What is only model-checked

`OnlyReentryBlocks`, `EveryCallReturns`, `CallEnds` and `ShutdownEnds`: liveness is
outside what the prover does. `ReadsBack` and `QueriesAgree`: filters and their expressions are
trees, and what the recursive functions that parse, write, evaluate and translate them compute
on every tree needs an induction over data.

## 5. Not modelled

Left out, with the reason:

- lexing of filters, JSON and HTTP encoding, log output: conversions without control;
- schema registry and validation (`schema/`): a map that is filled before the server
  starts and read afterwards; no handler calls `Validate`, so it constrains nothing;
- `ParseRequest` and `DetectVersion` (`protocol/`): a second router that nothing in the
  repository calls;
- `store/otel.go`, which delegates and records spans;
- a bulk operation that is itself an acceptable bulk request: nothing in the code keeps a
  client from it, and `handleBulk` runs a loop within its loop, with the limits of each;
- reading the configuration, `Init` and migration of the SQL stores, generated DDL, custom
  column mappings, MongoDB's field mappings and lookups: statements run once, alone,
  before the first call, or data the properties do not depend on;
- `v1/endpoints.go`, a table of paths; the compliance suite and the examples.
