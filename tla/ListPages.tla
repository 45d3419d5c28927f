------------------------------- MODULE ListPages -------------------------------
(***************************************************************************)
(* Listing resources: the parameters of a request (protocol/pagination.go,  *)
(* server/handler.go), sorting (resource/sort.go), the page that the memory *)
(* store cuts (store/memory.go), and the same through the SCIM proxy        *)
(* (connector/scim/client.go).                                             *)
(***************************************************************************)
EXTENDS FilterLanguage

CONSTANTS
  MaxInt,     \* of Go's int
  Exponent,   \* the least integer that "%g" writes with an exponent, 10^6
  PageSizes   \* server configurations: defaultPageSize and maxPageSize

ASSUME PagesAssumption ==
  /\ MaxInt \in Nat /\ Exponent \in Nat
  /\ \A c \in PageSizes : c.default \in 0 .. MaxInt /\ c.max \in 0 .. MaxInt

\* Parameters of a query or a body.  A number is absent, or is n; Zeros is a zero
\* that is not written "0"; one that does not parse is Garbage.
Number(n) == [k |-> "n", n |-> n]
Absent == [k |-> "absent"]
Zeros == [k |-> "zeros"]
Garbage == [k |-> "garbage"]

Given(number) == number.k \in {"n", "zeros"}
Amount(number) == IF number.k = "n" THEN number.n ELSE 0

Query(start, count, filter, sortBy, sortOrder) ==
  [start |-> start, count |-> count, filter |-> filter, sortBy |-> sortBy, sortOrder |-> sortOrder]
NoQuery == Query(Absent, Absent, <<>>, <<>>, "")

-----------------------------------------------------------------------------
(* The parameters of a request.                                             *)

AtLeast(n, low) == IF n < low THEN low ELSE n

ParseListParams(q) ==
  [filter |-> q.filter,
   sortBy |-> q.sortBy,
   sortOrder |-> IF q.sortOrder \in {"ascending", "descending"} THEN q.sortOrder ELSE "",
   start |-> IF Given(q.start) THEN AtLeast(Amount(q.start), 1) ELSE 1,
   count |-> IF Given(q.count) THEN AtLeast(Amount(q.count), 0) ELSE 0]

\* A number of a .search body is written and parsed again, which fails from
\* Exponent on.
Legible(number) == IF Given(number) /\ Amount(number) >= Exponent THEN Garbage ELSE number

bodyToURLValues(b) == [b EXCEPT !.start = Legible(@), !.count = Legible(@)]

\* What a .search body says goes before the query.
Overriding(p, b) ==
  [filter |-> IF b.filter # <<>> THEN b.filter ELSE p.filter,
   sortBy |-> IF b.sortBy # <<>> THEN b.sortBy ELSE p.sortBy,
   sortOrder |-> IF b.sortOrder # "" THEN b.sortOrder ELSE p.sortOrder,
   start |-> IF b.start > 1 THEN b.start ELSE p.start,
   count |-> IF b.count > 0 THEN b.count ELSE p.count]

\* Mutant: the limit is for the counts that were asked for.
Unlimited(count, q, sizes) ==
  IF count = 0 /\ q.count # Number(0) THEN sizes.default ELSE count

\* The default page size is for a count that is not "0" in the query, wherever
\* the zero is from.
PageSize(count, q, sizes) ==
  LET asked == IF count = 0 /\ q.count # Number(0) THEN sizes.default ELSE count
  IN  IF sizes.max > 0 /\ asked > sizes.max THEN sizes.max ELSE asked

Filtered(params, filter, count) ==
  IF filter = BadFilter THEN BadFilter
  ELSE [filter |-> filter, sortBy |-> params.sortBy,
        descending |-> params.sortOrder = "descending", start |-> params.start, count |-> count]

\* handleList: what it asks of the store.  body: None or a query.
ListParams(q, body, sizes) ==
  LET p == ParseListParams(q)
      all == IF body = None THEN p ELSE Overriding(p, ParseListParams(bodyToURLValues(body.query)))
  IN  Filtered(all, IF all.filter = <<>> THEN None ELSE FilterFrom(all.filter),
               PageSize(all.count, q, sizes))

-----------------------------------------------------------------------------
(* Sorting.  A resource is its id and its attributes.                       *)

ToMap(r) == setAttr(r.attrs, "id", Str(r.id))

isPrimary(elem) == IsMap(elem) /\ lookupAttr(elem.m, "primary") = Bool(TRUE)

\* Of an object in an array the sub-attribute of the path, else its value; an
\* object without a value has a text that no bound of the model reaches.
extractSortableValue(elem, sub) ==
  IF ~ IsMap(elem) THEN elem ELSE lookupAttr(elem.m, IF sub # "" THEN sub ELSE "value")

\* Of an array the primary element, else the first.
sortValue(r, path) ==
  LET val == GetAttr(r.attrs, path)
      primary == {i \in DOMAIN val.a : isPrimary(val.a[i])}
  IN  IF ~ IsArr(val) THEN val
      ELSE IF primary # {} THEN extractSortableValue(val.a[Min(primary)], path.sub)
      ELSE IF val.a = <<>> THEN Nil
      ELSE extractSortableValue(val.a[1], path.sub)

compareForSort(a, b) ==
  IF a = Nil \/ b = Nil THEN Order(IF a = Nil THEN 0 ELSE 1, IF b = Nil THEN 0 ELSE 1)
  ELSE IF a.t = "num" /\ b.t = "num" THEN Order(a.n, b.n)
  ELSE TextOrder(LowerText(a), LowerText(b))

SortsBefore(r, s, path, descending) ==
  compareForSort(sortValue(r, path), sortValue(s, path)) = IF descending THEN 1 ELSE -1

\* sort.SliceStable inserts the elements one by one, up to 20 of them.
Insert(sorted, r, path, descending) ==
  LET stay == {i \in DOMAIN sorted : ~ SortsBefore(r, sorted[i], path, descending)}
  IN  InsertAt(sorted, Max(stay \cup {0}) + 1, r)

SortBy(rs, path, descending) ==
  IF path = BadPath THEN rs
  ELSE LET sorted[n \in 0 .. Len(rs)] ==
             IF n = 0 THEN <<>> ELSE Insert(sorted[n - 1], rs[n], path, descending)
       IN  sorted[Len(rs)]

SortResources(rs, sortBy, descending) ==
  IF sortBy = <<>> THEN rs ELSE SortBy(rs, ParsePath(sortBy), descending)

-----------------------------------------------------------------------------
(* The memory store.  all: the resources in the order the map is iterated.  *)

\* Addition of Go's int.
Plus(a, b) == IF a + b > MaxInt THEN a + b - 2 * (MaxInt + 1) ELSE a + b

AtMost(n, high) == IF n > high THEN high ELSE n

Selects(filter, r) == filter = None \/ EvalFilter(filter, ToMap(r))

Matching(all, filter) ==
  Kept(all, {i \in DOMAIN all : Selects(filter, all[i])})

Page(resources, total, start) ==
  [resources |-> resources, total |-> total, start |-> start, items |-> Len(resources)]

\* recoveryMiddleware's answer to a panic.
Internal == [status |-> 500]

\* A slice whose end has overflowed panics.
Cut(found, params) ==
  LET total == Len(found)
      start == AtMost(AtLeast(params.start, 1) - 1, total)
      size == IF params.count < 0 THEN total ELSE params.count
      end == AtMost(Plus(start, size), total)
  IN  IF end < start THEN Internal
      ELSE Page(SubSeq(found, start + 1, end), total, AtLeast(params.start, 1))

\* Mutant: the page is cut before it is sorted.
CutFirst(all, params) ==
  LET page == Cut(Matching(all, params.filter), params)
  IN  IF page = Internal THEN page
      ELSE [page EXCEPT !.resources = SortResources(@, params.sortBy, params.descending)]

MemoryList(all, params) ==
  Cut(SortResources(Matching(all, params.filter), params.sortBy, params.descending), params)

PageOrRefusal(all, params) == IF params = BadFilter THEN BadFilter ELSE MemoryList(all, params)

\* The answer of a server with the memory store.
HandleList(all, q, body, sizes) == PageOrRefusal(all, ListParams(q, body, sizes))

-----------------------------------------------------------------------------
(* The proxy: its store asks an upstream server.                            *)

\* Mutant: the sort order is left to the upstream server.
Unordered(params) ==
  Query(IF params.start > 0 THEN Number(params.start) ELSE Absent,
        IF params.count > 0 THEN Number(params.count) ELSE Absent,
        IF params.filter = None THEN <<>> ELSE FilterToText(params.filter),
        params.sortBy, "")

\* A zero count is not sent.
ProxyQuery(params) ==
  Query(IF params.start > 0 THEN Number(params.start) ELSE Absent,
        IF params.count > 0 THEN Number(params.count) ELSE Absent,
        IF params.filter = None THEN <<>> ELSE FilterToText(params.filter),
        params.sortBy,
        IF params.sortBy = <<>> THEN "" ELSE IF params.descending THEN "descending" ELSE "ascending")

\* mapHTTPError passes a 400 and a 500 on.
Returned(page) ==
  IF page \in {BadFilter, Internal} THEN page
  ELSE [page EXCEPT !.start = IF @ = 0 THEN 1 ELSE @]

ProxyList(all, params, sizes) ==
  IF params = BadFilter THEN BadFilter
  ELSE Returned(HandleList(all, ProxyQuery(params), None, sizes))

\* The same request through a gateway with the proxy as its store.
ThroughProxy(all, q, body, sizes) == ProxyList(all, ListParams(q, body, sizes), sizes)

=============================================================================
