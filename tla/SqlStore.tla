------------------------------ MODULE SqlStore ------------------------------
(***************************************************************************)
(* connector/postgres, connector/mysql (JSON mode) and connector/mongodb   *)
(* (without field mappings): one resource type in one table or collection, *)
(* each statement atomic in the database, and no transaction around the    *)
(* several statements of Replace, Patch and List.                          *)
(* pc[p], the statement p issues next:                                     *)
(*   idle     no call               called   the first one of the call     *)
(*   patched  Patch calls Replace   write    INSERT or UPDATE of draft[p]  *)
(*   counted  List's SELECT         done     the answer is on its way      *)
(* The database itself (tables, UNIQUE, row counts) is external, known     *)
(* from the statements the connectors send to it.                          *)
(***************************************************************************)
EXTENDS Integers, FiniteSets

CONSTANTS
  Procs,         \* goroutines of net/http
  Ids,           \* random identifiers
  Attrs, Values, \* attributes of the resource type and what they can hold
  UserName,      \* the attribute declared UNIQUE, Nil in a table without
  Columns,       \* attributes with a column of their own
  Extensions,    \* attributes of extension schemas, which no filter translates
  Requests,      \* the calls the goroutines make
  Dialect,       \* "postgres" "mysql" "mongodb", or "columns": see ColumnStore
  FallbackLimit, \* rows of the unfiltered query (LIMIT 1000)
  PerSecond,     \* clock readings in a second
  MaxClock,      \* bound on the clock
  Nil

Times == 0 .. MaxClock

Resources == [id : Ids, attrs : [Attrs -> Values \cup {Nil}],
              created : Times \cup {Nil}, modified : Times \cup {Nil}]

\* attrs: the attributes of a body, or those a Patch sets; bad: ApplyPatch
\* fails; List's filter, if any, is "filter eq value".
RequestType ==
  [op : {"Create", "Get", "List", "Replace", "Patch", "Delete"}, id : Ids \cup {Nil},
   attrs : UNION {[S -> Values \cup {Nil}] : S \in SUBSET Attrs}, bad : BOOLEAN,
   filter : Attrs \cup {Nil}, value : Values \cup {Nil}, start : Int, count : Int]

ASSUME SqlAttrsAssumption ==
  UserName \in Attrs \cup {Nil} /\ Columns \subseteq Attrs /\ Extensions \subseteq Attrs \ Columns
ASSUME SqlRequestsAssumption ==
  /\ Requests \subseteq RequestType
  /\ \A r \in Requests : r.op \in {"Get", "Replace", "Patch", "Delete"} => r.id # Nil
ASSUME SqlDialectAssumption == Dialect \in {"postgres", "mysql", "mongodb", "columns"}
ASSUME SqlNumbersAssumption ==
  FallbackLimit \in Nat /\ PerSecond \in Nat \ {0} /\ MaxClock \in Nat
ASSUME SqlIdsAssumption == IsFiniteSet(Ids)
ASSUME SqlNilAssumption ==
  Nil \notin Procs \cup Ids \cup Attrs \cup Values \cup Requests \cup Resources \cup Times

VARIABLES
  clock,   \* time.Now()
  table,   \* id -> row
  issued,  \* ids generateID has returned
  pc,
  req,     \* arguments of the call
  draft,   \* the resource the call is about to write
  total,   \* List's COUNT
  out,     \* resources for the caller
  status   \* outcome of the call

vars == <<clock, table, issued, pc, req, draft, total, out, status>>

Init ==
  /\ clock = 0
  /\ table = [i \in Ids |-> Nil]
  /\ issued = {}
  /\ pc = [p \in Procs |-> "idle"]
  /\ req = [p \in Procs |-> Nil]
  /\ draft = [p \in Procs |-> Nil]
  /\ total = [p \in Procs |-> 0]
  /\ out = [p \in Procs |-> {}]
  /\ status = [p \in Procs |-> "none"]

-----------------------------------------------------------------------------
(* Rows and resources.                                                      *)

Rows == {table[i] : i \in Ids} \ {Nil}

Row(p) == table[req[p].id]

Truncate(t) == IF t = Nil THEN Nil ELSE PerSecond * (t \div PerSecond)

\* The data column holds RFC 3339 times, which end at the second; MySQL reads
\* the times from columns of their own.
Stored(o) ==
  IF Dialect \in {"mysql", "columns"} THEN o
  ELSE [o EXCEPT !.created = Truncate(@), !.modified = Truncate(@)]

\* A nested BSON document is not the map[string]interface{} FromMap looks for
\* under "meta": from MongoDB the times come back as zero.
ReadBack(o) == IF Dialect = "mongodb" THEN [o EXCEPT !.created = Nil, !.modified = Nil] ELSE o

Overlay(attrs, changes) ==
  [a \in Attrs |-> IF a \in DOMAIN changes THEN changes[a] ELSE attrs[a]]

\* Mutant: a body without an attribute makes a resource without it.
AsSent(r) == r.attrs

Body(r) == Overlay([a \in Attrs |-> Nil], r.attrs)

\* UNIQUE: another row has the value of o.
NameTaken(o) ==
  /\ UserName # Nil
  /\ o.attrs[UserName] # Nil
  /\ \E q \in Rows : q.id # o.id /\ q.attrs[UserName] = o.attrs[UserName]

-----------------------------------------------------------------------------
(* The calls.                                                               *)

Drawn == {draft[p].id : p \in {q \in Procs : draft[q] # Nil /\ req[q].op = "Create"}}

\* A client names identifiers that some Create has written: 128 random bits
\* cannot be guessed.  (One that never existed is answered as a deleted one.)
\* Bound: there is an identifier left for every Create.
Callable(r) ==
  /\ r.id = Nil \/ r.id \in issued \ Drawn
  /\ r.op = "Create" =>
       Cardinality({p \in Procs : pc[p] = "called" /\ req[p].op = "Create"}) < Cardinality(Ids \ issued)

Call(p) ==
  /\ pc[p] = "idle"
  /\ \E r \in Requests : Callable(r) /\ req' = [req EXCEPT ![p] = r]
  /\ pc' = [pc EXCEPT ![p] = "called"]
  /\ UNCHANGED <<clock, table, issued, draft, total, out, status>>

Finish(p, s, S, n) ==
  /\ pc' = [pc EXCEPT ![p] = "done"]
  /\ status' = [status EXCEPT ![p] = s]
  /\ out' = [out EXCEPT ![p] = S]
  /\ total' = [total EXCEPT ![p] = n]
  /\ draft' = [draft EXCEPT ![p] = Nil]
  /\ UNCHANGED <<clock, issued, req>>

Fail(p, s) == Finish(p, s, {}, 0) /\ UNCHANGED table

\* A statement that changed the table is answered, or the connection is lost
\* before the answer arrives and the call reports an internal error.
Wrote(p, S) == Finish(p, "ok", S, 0) \/ Finish(p, "internal", {}, 0)

\* No randomness, no connection, a cancelled context, a column that is not there.
StatementFails(p) ==
  /\ pc[p] \in {"called", "patched", "write", "counted"}
  /\ Fail(p, "internal")

\* p goes on to statement s with the resource o.
Proceed(p, s, o) ==
  /\ pc' = [pc EXCEPT ![p] = s]
  /\ draft' = [draft EXCEPT ![p] = o]
  /\ UNCHANGED <<clock, table, req, total, out, status>>

\* What Create does before its INSERT.  128 random bits never repeat.
Prepare(p) ==
  /\ pc[p] = "called"
  /\ req[p].op = "Create"
  /\ \E i \in Ids \ issued :
       /\ issued' = issued \cup {i}
       /\ Proceed(p, "write",
                  [id |-> i, attrs |-> Body(req[p]), created |-> clock, modified |-> clock])

Write(p) ==
  /\ table' = [table EXCEPT ![draft[p].id] = Stored(draft[p])]
  /\ Wrote(p, {draft[p]})

Insert(p) ==
  /\ pc[p] = "write"
  /\ req[p].op = "Create"
  /\ IF NameTaken(draft[p]) THEN Fail(p, "conflict") ELSE Write(p)

Get(p) ==
  /\ pc[p] = "called"
  /\ req[p].op = "Get"
  /\ IF Row(p) = Nil THEN Fail(p, "notFound")
     ELSE Finish(p, "ok", {ReadBack(Row(p))}, 0) /\ UNCHANGED table

\* Patch reads the resource and applies the operations to what it read.
ReadForPatch(p) ==
  /\ pc[p] = "called"
  /\ req[p].op = "Patch"
  /\ IF Row(p) = Nil THEN Fail(p, "notFound")
     ELSE IF req[p].bad THEN Fail(p, "badPatch")
     ELSE /\ Proceed(p, "patched",
                     [ReadBack(Row(p)) EXCEPT !.attrs = Overlay(@, req[p].attrs)])
          /\ UNCHANGED issued

\* Mutant: the clone keeps the creation time of its body.
BodyCreated(p, existing) == Nil

\* clone.Meta.Created = existing.Meta.Created
CreatedOf(p, existing) == existing.created

\* Replace, called by the server or by Patch, reads the creation time.
ReadForReplace(p) ==
  /\ \/ pc[p] = "called" /\ req[p].op = "Replace"
     \/ pc[p] = "patched"
  /\ IF Row(p) = Nil THEN Fail(p, "notFound")
     ELSE /\ Proceed(p, "write",
               [id |-> req[p].id,
                attrs |-> IF pc[p] = "patched" THEN draft[p].attrs ELSE Body(req[p]),
                created |-> CreatedOf(p, ReadBack(Row(p))), modified |-> clock])
          /\ UNCHANGED issued

\* Mutants: an UPDATE that inserts a missing row; one that, whatever the
\* database, counts the rows it changed.
Upserts(p) == FALSE

NoneChanged(p) == Row(p) = Nil \/ Row(p) = Stored(draft[p])

\* RowsAffected: MySQL counts the rows the statement changed.
NoneAffected(p) ==
  \/ Row(p) = Nil
  \/ Dialect = "mysql" /\ Row(p) = Stored(draft[p])

Update(p) ==
  /\ pc[p] = "write"
  /\ req[p].op \in {"Replace", "Patch"}
  /\ IF NoneAffected(p) THEN Fail(p, "notFound")
     ELSE IF NameTaken(draft[p]) THEN Fail(p, "conflict")
     ELSE Write(p)

Delete(p) ==
  /\ pc[p] = "called"
  /\ req[p].op = "Delete"
  /\ IF Row(p) = Nil THEN Fail(p, "notFound")
     ELSE table' = [table EXCEPT ![req[p].id] = Nil] /\ Wrote(p, {})

-----------------------------------------------------------------------------
(* List: a COUNT, then a SELECT.                                            *)

Matches(o, r) == r.filter = Nil \/ o.attrs[r.filter] = r.value

\* The filter has a translation, to a column that exists.
Native(r) == r.filter = Nil \/ r.filter \in Columns \/ Dialect = "mongodb"

Untranslated(r) == ~ Native(r) /\ r.filter \in Extensions

\* Rows of the WHERE clause, empty when the filter has no translation.
Selected(r) == {o \in Rows : Native(r) => Matches(o, r)}

Count(p) ==
  /\ pc[p] = "called"
  /\ req[p].op = "List"
  /\ Native(req[p]) \/ (Untranslated(req[p]) /\ Dialect # "postgres")
  /\ pc' = [pc EXCEPT ![p] = "counted"]
  /\ total' = [total EXCEPT ![p] = Cardinality(Selected(req[p]))]
  /\ UNCHANGED <<clock, table, issued, req, draft, out, status>>

\* Length of the page of n rows that begins at a 1-based start.
PageLen(n, start, limit) ==
  LET rest == IF start < 1 THEN n ELSE n - (start - 1)
  IN  IF rest < 0 THEN 0 ELSE IF rest < limit THEN rest ELSE limit

\* LIMIT of the SELECT for n rows: a request without count gets them all, but
\* in MySQL and MongoDB no more than were counted.
Limit(p, n) ==
  IF req[p].count > 0 THEN req[p].count
  ELSE IF Dialect = "mysql" \/ (Dialect = "mongodb" /\ total[p] > 0) THEN total[p]
  ELSE n

\* The order of the rows is the database's: any page of the right length.
Page(p, S, limit) ==
  {page \in SUBSET S : Cardinality(page) = PageLen(Cardinality(S), req[p].start, limit)}

Select(p) ==
  /\ pc[p] = "counted"
  /\ LET S == Selected(req[p])
     IN  \E page \in Page(p, S, Limit(p, Cardinality(S))) :
           Finish(p, "ok", {ReadBack(o) : o \in page}, total[p])
  /\ UNCHANGED table

\* Mutant: the rows of the fallback query are not filtered.
ClientUnfiltered(S, r) == S

ClientFilter(S, r) == {o \in S : Matches(o, r)}

\* listJSONMode of PostgreSQL reads some rows without a filter and applies it.
Fallback(p) ==
  /\ pc[p] = "called"
  /\ req[p].op = "List"
  /\ Untranslated(req[p])
  /\ Dialect = "postgres"
  /\ \E read \in SUBSET Rows :
       /\ Cardinality(read) = PageLen(Cardinality(Rows), 1, FallbackLimit)
       /\ LET S == ClientFilter(read, req[p])
              n == Cardinality(S)
          IN  \E page \in Page(p, S, IF req[p].count > 0 THEN req[p].count ELSE n) :
                Finish(p, "ok", page, n)
  /\ UNCHANGED table

\* The server sends what the store returned (server/handler.go).
Return(p) ==
  /\ pc[p] = "done"
  /\ pc' = [pc EXCEPT ![p] = "idle"]
  /\ req' = [req EXCEPT ![p] = Nil]
  /\ out' = [out EXCEPT ![p] = {}]
  /\ total' = [total EXCEPT ![p] = 0]
  /\ status' = [status EXCEPT ![p] = "none"]
  /\ UNCHANGED <<clock, table, issued, draft>>

Tick ==
  /\ clock < MaxClock
  /\ clock' = clock + 1
  /\ UNCHANGED <<table, issued, pc, req, draft, total, out, status>>

Step(p) ==
  \/ StatementFails(p) \/ Prepare(p) \/ Insert(p) \/ Get(p) \/ ReadForPatch(p)
  \/ ReadForReplace(p) \/ Update(p) \/ Delete(p) \/ Count(p) \/ Select(p) \/ Fallback(p)
  \/ Return(p)

Next == Tick \/ \E p \in Procs : Call(p) \/ Step(p)

Spec == Init /\ [][Next]_vars

-----------------------------------------------------------------------------
(* Properties.                                                              *)

\* Type invariant of the table and of the locals of the connectors' methods.
TypeOK ==
  /\ clock \in Times
  /\ table \in [Ids -> Resources \cup {Nil}]
  /\ issued \subseteq Ids
  /\ pc \in [Procs -> {"idle", "called", "patched", "write", "counted", "done"}]
  /\ req \in [Procs -> Requests \cup {Nil}]
  /\ draft \in [Procs -> Resources \cup {Nil}]
  /\ total \in [Procs -> Nat]
  /\ out \in [Procs -> SUBSET Resources]
  /\ status \in [Procs -> {"none", "ok", "internal", "notFound", "conflict", "badPatch"}]

\* What the table holds, what callers were given and what is to be written.
Views == Rows \cup UNION {out[p] \cup ({draft[p]} \ {Nil}) : p \in Procs}

\* Wherever a resource is seen, and however old the copy is, its creation time
\* is the same second: Replace and Patch may write a creation time they read
\* in an earlier statement, because no later one can differ.
SameCreated == \A v, w \in Views : v.id = w.id => Truncate(v.created) = Truncate(w.created)

\* notFound tells the truth: no row has the identifier when a call is answered
\* so, although Replace and Patch found one a statement earlier.
NotFoundIsTrue ==
  [][\A p \in Procs : status[p] # "notFound" /\ status'[p] = "notFound" =>
       table[req[p].id] = Nil]_vars

\* An identifier that was issued, has no row and is not about to get one.
Gone(i) ==
  /\ i \in issued
  /\ table[i] = Nil
  /\ \A p \in Procs : draft[p] # Nil /\ req[p].op = "Create" => draft[p].id # i

\* A deleted resource stays deleted: the UPDATE of a Replace or Patch that read
\* it before the DELETE does not put it back.
GoneForGood == [][\A i \in Ids : Gone(i) => Gone(i)']_vars

\* Every resource of a list response satisfies the filter of the request.
ListMatches ==
  [][\A p \in Procs : pc[p] = "done" /\ pc'[p] = "idle" /\ req[p].op = "List" =>
       \A o \in out[p] : Matches(o, req[p])]_vars

\* What a Patch writes is its operations applied to the resource that is in the
\* table when it writes.
PatchAppliesToStored ==
  [][\A p \in Procs : pc[p] = "write" /\ req[p].op = "Patch" /\ table' # table =>
       \A i \in Ids : table'[i] # table[i] =>
         table'[i].attrs = Overlay(table[i].attrs, req[p].attrs)]_vars

=============================================================================
