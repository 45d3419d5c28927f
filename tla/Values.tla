-------------------------------- MODULE Values --------------------------------
(***************************************************************************)
(* The functions of the library that keep no state, called one at a time:   *)
(* filters, PATCH, lists, queries, SCIM 1.1.  A behaviour is one call; its   *)
(* answer is compared with what the caller relies on.                      *)
(***************************************************************************)
EXTENDS PatchEngine, ListPages, SchemaV1

CONSTANTS
  FilterTexts, \* texts given to FilterFrom
  Patches,     \* [attrs, ops]: a resource and a request to patch it
  Lists,       \* [all, query, body, sizes]: a store and a request to list it
  Selections,  \* [attrs, filter]: a resource and a filter
  V2Resources

IsNumber(n) ==
  n \in {Absent, Zeros, Garbage} \/ (n = Number(n.n) /\ n.n \in Int /\ n.n <= MaxInt)

IsQuery(q) ==
  q = Query(q.start, q.count, q.filter, q.sortBy, q.sortOrder) /\ IsNumber(q.start) /\ IsNumber(q.count)

IsListOf(s) == s \in Seq(ToSet(s))

\* A value that resources are sorted by; Text knows numbers of one digit.
IsKey(v) ==
  \/ v \in {Nil, Bool(TRUE), Bool(FALSE)}
  \/ v.t = "str" /\ v = Str(v.s) /\ v.s \in Seq(Nat)
  \/ v.t = "num" /\ v = Num(v.n) /\ v.n \in 0 .. 9

\* A store has each resource once, and room for a page of them more.
ASSUME ListsAssumption ==
  \A l \in Lists :
    /\ l.sizes \in PageSizes /\ IsQuery(l.query) /\ (l.body # None => IsQuery(l.body.query))
    /\ IsListOf(l.all) /\ IsInjective(l.all)
    /\ Len(l.all) + l.sizes.max <= MaxInt
    /\ \A text \in {l.query.sortBy} \cup IF l.body = None THEN {} ELSE {l.body.query.sortBy} :
         text # <<>> /\ ParsePath(text) # BadPath =>
           \A i \in DOMAIN l.all : IsKey(sortValue(l.all[i], ParsePath(text)))

\* Arrays are lists.
ListsIn(attrs) ==
  \A n \in DOMAIN attrs :
    /\ IsArr(attrs[n]) => IsListOf(attrs[n].a)
    /\ IsMap(attrs[n]) => \A m \in DOMAIN attrs[n].m : IsArr(attrs[n].m[m]) => IsListOf(attrs[n].m[m].a)

ASSUME PatchesAssumption ==
  \A p \in Patches : ListsIn(p.attrs) /\ (p.ops # None => IsListOf(p.ops.a))

\* The filters of the requests are read as they are written (the filter language
\* itself is in FilterText, where ReadsBack is checked for more of them).
ASSUME FiltersAssumption ==
  \A l \in Lists :
    \A text \in {l.query.filter} \cup IF l.body = None THEN {} ELSE {l.body.query.filter} :
      LET e == FilterFrom(text)
      IN  text # <<>> /\ e # BadFilter =>
            e # None /\ FilterToText(e) # <<>> /\ FilterFrom(FilterToText(e)) = e

IsFields(m) == m = [n \in DOMAIN m |-> m[n]]

WellFormed(v) ==
  /\ IsMap(v) => v = Map(v.m) /\ IsFields(v.m)
  /\ IsArr(v) => v = Arr(v.a) /\ IsListOf(v.a)

\* A resource names its schemas; its extension, when it has one, is an object of
\* attributes of its own.
ASSUME ResourcesAssumption ==
  \A r \in V2Resources :
    /\ IsFields(r) /\ \A n \in DOMAIN r : WellFormed(r[n])
    /\ "schemas" \in DOMAIN r /\ IsArr(r["schemas"]) /\ r["schemas"].a # <<>>
    /\ \A i \in DOMAIN r["schemas"].a : r["schemas"].a[i].t = "uri"
    /\ Enterprise \in DOMAIN r =>
         /\ IsMap(r[Enterprise]) /\ DOMAIN r[Enterprise].m \cap {"schemas", Enterprise} = {}
         /\ \A n \in DOMAIN r[Enterprise].m : WellFormed(r[Enterprise].m[n])
    /\ "groups" \in DOMAIN r /\ IsArr(r["groups"]) =>
         \A i \in DOMAIN r["groups"].a : WellFormed(r["groups"].a[i])

VARIABLES input, answer

vars == <<input, answer>>

NoAnswer == [kind |-> "none"]

Case(kind, of) == [kind |-> kind, of |-> of]

Init ==
  /\ answer = NoAnswer
  /\ \/ \E t \in FilterTexts : input = Case("filter", t)
     \/ \E p \in Patches : input = Case("patch", p)
     \/ \E l \in Lists : input = Case("list", l)
     \/ \E s \in Selections : input = Case("select", s)
     \/ \E r \in V2Resources : input = Case("convert", r)

Asked(kind) == answer = NoAnswer /\ input.kind = kind

Answer(a) ==
  /\ answer' = [kind |-> input.kind, is |-> a]
  /\ UNCHANGED input

\* A filter is parsed, and parsed again by the server the proxy sends it to.
Filter ==
  /\ Asked("filter")
  /\ \E e \in {FilterFrom(input.of)} :
       Answer([e |-> e, upstream |-> IF e = BadFilter THEN e ELSE FilterFrom(FilterToText(e))])

Forwarded(parsed) ==
  IF Fails(parsed) THEN parsed ELSE ParsePatchRequest(patchBody(parsed.ops))
Applied(target, parsed) ==
  IF Fails(parsed) THEN parsed
  ELSE IF Fails(target) THEN target ELSE ApplyPatch(target.attrs, parsed.ops)

\* A PATCH request is parsed, sent on by the proxy, applied, and applied again.
Patch ==
  /\ Asked("patch")
  /\ \E parsed \in {ParsePatchRequest(input.of.ops)} :
       \E once \in {Applied(Done(input.of.attrs), parsed)} :
         Answer([parsed |-> parsed, upstream |-> Forwarded(parsed),
                 once |-> once, twice |-> Applied(once, parsed)])

\* The same list, from a server with the store and through the proxy.
List ==
  LET l == input.of
  IN  /\ Asked("list")
      /\ Answer([direct |-> HandleList(l.all, l.query, l.body, l.sizes),
                 proxied |-> ThroughProxy(l.all, l.query, l.body, l.sizes)])

\* The filter on a resource, and the queries on its row and its document.
Select ==
  LET s == input.of
  IN  /\ Asked("select")
      /\ Answer([eval |-> EvalFilter(s.filter, s.attrs),
                 postgres |-> Selected(s.filter, s.attrs, "postgres"),
                 mysql |-> Selected(s.filter, s.attrs, "mysql"),
                 mongo |-> Selected(s.filter, s.attrs, "mongodb")])

\* A resource becomes SCIM 1.1, and 2.0 again.
Convert ==
  /\ Asked("convert")
  /\ Answer([v1 |-> FromV2(input.of), v2 |-> ToV2(FromV2(input.of), "User")])

Next == Filter \/ Patch \/ List \/ Select \/ Convert

Spec == Init /\ [][Next]_vars

-----------------------------------------------------------------------------
(* Properties.                                                              *)

Answered(kind) == answer.kind = kind

\* The upstream server of the proxy reads the filter, and the operations of a
\* PATCH, that the client sent: writing loses no precedence, path or value.
ReadsBack ==
  /\ Answered("filter") => answer.is.upstream = answer.is.e
  /\ Answered("patch") => answer.is.upstream = answer.is.parsed

\* The places an operation names: <<attribute, "">> or <<attribute, field>>.
Named(op) ==
  IF op.path # None THEN {<<op.path.attr.attr, op.path.attr.sub>>}
  ELSE IF IsMap(op.value) THEN {<<n, "">> : n \in DOMAIN op.value.m} ELSE {}

Fields(v) == IF IsMap(v) THEN v.m ELSE <<>>

\* What naming some fields of an attribute leaves of it: the others.  A value that
\* has no fields gives way to an object of those named, an array as well.
FieldsFrame(before, after, names) ==
  \/ after = before
  \/ /\ names # {} /\ IsMap(after)
     /\ \A n \in (DOMAIN Fields(before) \cup DOMAIN after.m) \ names :
          lookupAttr(after.m, n) = lookupAttr(Fields(before), n)

WrittenNames(op) ==
  IF op.path.sub # "" THEN {op.path.sub} ELSE IF IsMap(op.value) THEN DOMAIN op.value.m ELSE {}

\* What an operation with a filter leaves of the elements it is given.
ElementsFrame(op, before, after) ==
  LET hit(elem) == Matched(elem, op.path.filter)
  IN  IF op.op = "remove" /\ op.path.sub = ""
      THEN \E from \in [DOMAIN after -> {i \in DOMAIN before : ~ hit(before[i])}] :
             /\ \A i, j \in DOMAIN after : i < j => from[i] < from[j]
             /\ \A i \in DOMAIN after : after[i] = before[from[i]]
             /\ \A k \in DOMAIN before : ~ hit(before[k]) => \E i \in DOMAIN after : from[i] = k
      ELSE /\ Len(after) = Len(before)
           /\ \A i \in DOMAIN before :
                /\ ~ hit(before[i]) => after[i] = before[i]
                /\ hit(before[i]) /\ IsMap(after[i]) =>
                     \A n \in DOMAIN before[i].m \ WrittenNames(op) :
                       lookupAttr(after[i].m, n) = before[i].m[n]

\* A PATCH changes what its paths name and nothing else: other attributes, the
\* other fields of an object of which a path names one, the elements a filter does
\* not match, the other fields of those it does match, and the order stay as they
\* were.
PatchFrame ==
  Answered("patch") /\ ~ Fails(answer.is.once) =>
    LET ops == answer.is.parsed.ops
        before == input.of.attrs
        after == answer.is.once.attrs
        named == UNION {Named(ops[i]) : i \in DOMAIN ops}
    IN  /\ \A n \in DOMAIN before \cup DOMAIN after : <<n, "">> \notin named =>
             FieldsFrame(lookupAttr(before, n), lookupAttr(after, n),
                         {place[2] : place \in {x \in named : x[1] = n}})
        /\ Len(ops) = 1 /\ ops[1].path # None =>
             LET p == ops[1].path
                 val == GetAttr(before, p.attr)
             IN  p.filter # None /\ val # Nil =>
                   ElementsFrame(ops[1], getMultiValued(val), GetAttr(after, p.attr).a)

\* An operation whose repetition changes nothing.  An array grows with each add,
\* and a filtered replace of a missing attribute stores its value as it is, which
\* the next one takes for the only element.
Repeatable(attrs, op) ==
  op.path # None =>
    /\ op.op = "add" /\ op.path.filter = None =>
         ~ IsArr(GetAttr(attrs, op.path.attr)) /\ ~ IsArr(op.value)
    /\ op.op = "replace" /\ op.path.filter # None => GetAttr(attrs, op.path.attr) # Nil

\* A PATCH that is sent twice, after an answer that was lost, leaves the resource
\* as it is.
PatchSettles ==
  Answered("patch") /\ ~ Fails(answer.is.once) =>
    LET ops == answer.is.parsed.ops
    IN  Len(ops) = 1 /\ Repeatable(input.of.attrs, ops[1]) => answer.is.twice = answer.is.once

IsPage(a) == "resources" \in DOMAIN a

\* The page a client asks for: at most maxPageSize of the resources that match, at
\* the positions from startIndex that their keys give them, whatever the order in
\* which the store holds them; ties are anybody's.  A page size limit keeps every
\* index within int.
PageIsAsked ==
  Answered("list") =>
    LET page == answer.is.direct
        l == input.of
        params == ListParams(l.query, l.body, l.sizes)
        found == {r \in ToSet(l.all) : Selects(params.filter, r)}
        path == ParsePath(params.sortBy)
        precedes(r, s) ==
          params.sortBy # <<>> /\ path # BadPath /\ SortsBefore(r, s, path, params.descending)
    IN  /\ l.sizes.max > 0 => page # Internal
        /\ IsPage(page) =>
             /\ l.sizes.max > 0 => page.items <= l.sizes.max
             /\ page.total = Cardinality(found)
             /\ page.items = Cardinality(ToSet(page.resources))
             /\ page.items = AtLeast(AtMost(params.count, page.total - (params.start - 1)), 0)
             /\ \A i \in DOMAIN page.resources :
                  LET r == page.resources[i]
                      position == page.start - 1 + i
                  IN  /\ r \in found
                      /\ Cardinality({s \in found : precedes(s, r)}) < position
                      /\ Cardinality({s \in found : precedes(r, s)}) <= page.total - position

\* A gateway answers a list like its upstream server, unless it is asked for no
\* resources: then the upstream server applies its default page size.
ProxyIsTransparent ==
  Answered("list") =>
    LET params == ListParams(input.of.query, input.of.body, input.of.sizes)
    IN  params # BadFilter =>
          (params.count # 0 => answer.is.proxied = answer.is.direct)

\* A SCIM 2.0 user as its schema wants it: no field and no schema of SCIM 1.1, the
\* extension has enterprise attributes only, and the schemas are named once, the
\* user's first and no group's.
Canonical(r) ==
  LET ext == lookupAttr(r, Enterprise)
  IN  /\ IsMap(ext) => ext.m # <<>> /\ DOMAIN ext.m \subseteq EnterpriseAttrs
      /\ DOMAIN r \cap EnterpriseAttrs = {}
      /\ IsMap(ext) /\ IsMap(lookupAttr(ext.m, "manager")) => "managerid" \notin DOMAIN ext.m["manager"].m
      /\ \A v \in ToSet(getMultiValued(lookupAttr(r, "groups"))) : IsMap(v) => "id" \notin DOMAIN v.m
      /\ r["schemas"].a[1] = User2 /\ IsInjective(r["schemas"].a)
      /\ ToSet(r["schemas"].a) \cap {Core1, Enterprise1, Group2} = {}

\* A SCIM 1.1 client sees no trace of 2.0, and what it sends back is the resource
\* it was given.
V1Agrees ==
  Answered("convert") =>
    LET v1 == answer.is.v1
    IN  /\ ToSet(v1["schemas"].a) \cap {User2, Group2, Enterprise2} = {}
        /\ Enterprise \notin DOMAIN v1
        /\ IsMap(lookupAttr(v1, "manager")) => "value" \notin DOMAIN v1["manager"].m
        /\ Canonical(input.of) => answer.is.v2 = input.of

=============================================================================
