----------------------------- MODULE Translations -----------------------------
(***************************************************************************)
(* Filters as queries: connector/sql/filter.go and mapper.go for PostgreSQL *)
(* and MySQL, connector/mongodb/query.go for MongoDB; and what the databases *)
(* make of the queries.  A column has the names of its path, joined by "_"; *)
(* a row has Nil for NULL.                                                 *)
(***************************************************************************)
EXTENDS Attributes

CONSTANT Wildcards  \* characters with a meaning in LIKE or in a $regex

Untranslatable == [bad |-> "translation"]

-----------------------------------------------------------------------------
(* SQL.                                                                     *)

\* Mapper.Ref without custom mappings: none for an attribute of an extension.
Column(path) ==
  IF path.schema # <<>> THEN <<>>
  ELSE IF path.sub = "" THEN <<path.attr>> ELSE <<path.attr, path.sub>>

Test(column, op, value) == [c |-> "test", column |-> column, op |-> op, value |-> value]
Junction(op, l, r) == [c |-> op, left |-> l, right |-> r]
Negation(q) == [c |-> "not", inner |-> q]
Exists(table, q) == [c |-> "exists", table |-> table, inner |-> q]

RECURSIVE TranslateSql(_)
TranslateSql(e) ==
  CASE e.kind = "attr" ->
         IF Column(e.path) = <<>> THEN Untranslatable ELSE Test(Column(e.path), e.op, e.value)
    [] e.kind = "logical" ->
         LET l == TranslateSql(e.left)
             r == TranslateSql(e.right)
         IN  IF Untranslatable \in {l, r} THEN Untranslatable ELSE Junction(e.op, l, r)
    [] e.kind = "not" ->
         LET q == TranslateSql(e.inner) IN IF q = Untranslatable THEN q ELSE Negation(q)
    [] e.kind = "path" ->   \* the table has an "s" after the attribute's name
         LET q == TranslateSql(e.filter)
         IN  IF q = Untranslatable THEN q ELSE Exists(<<e.path.attr, "s">>, q)

\* The database: a query names columns of the table; no table has the name of a
\* translated value path, and such a query fails.
RECURSIVE Executable(_, _)
Executable(q, columns) ==
  CASE q.c = "test" -> q.column \in columns
    [] q.c = "not" -> Executable(q.inner, columns)
    [] q.c = "exists" -> FALSE
    [] OTHER -> Executable(q.left, columns) /\ Executable(q.right, columns)

\* Texts are compared by their bytes in PostgreSQL, without case in MySQL.
Collated(v, dialect) == IF dialect = "mysql" THEN LowerText(v) ELSE Text(v)

SqlCompare(op, a, b) ==
  CASE op = "eq" -> a = b
    [] op = "ne" -> a # b
    [] op = "co" -> Occurs(b, a)
    [] op = "sw" -> IsPrefix(b, a)
    [] op = "ew" -> IsSuffix(b, a)
    [] op = "gt" -> TextOrder(a, b) > 0
    [] op = "ge" -> TextOrder(a, b) >= 0
    [] op = "lt" -> TextOrder(a, b) < 0
    [] op = "le" -> TextOrder(a, b) <= 0

SqlTest(q, row, dialect) ==
  LET val == row[q.column]
  IN  IF q.op = "pr" THEN (IF val = Nil THEN "false" ELSE "true")
      ELSE IF Nil \in {val, q.value} THEN "unknown"
      ELSE IF SqlCompare(q.op, Collated(val, dialect), Collated(q.value, dialect)) THEN "true"
      ELSE "false"

\* A condition is true, false or unknown; rows are selected for which it is true.
RECURSIVE SqlHolds(_, _, _)
SqlHolds(q, row, dialect) ==
  LET l == SqlHolds(q.left, row, dialect)
      r == SqlHolds(q.right, row, dialect)
      inner == SqlHolds(q.inner, row, dialect)
  IN  CASE q.c = "test" -> SqlTest(q, row, dialect)
        [] q.c = "not" -> IF inner = "unknown" THEN inner ELSE IF inner = "true" THEN "false" ELSE "true"
        [] q.c = "and" ->
             IF "false" \in {l, r} THEN "false" ELSE IF "unknown" \in {l, r} THEN "unknown" ELSE "true"
        [] q.c = "or" ->
             IF "true" \in {l, r} THEN "true" ELSE IF "unknown" \in {l, r} THEN "unknown" ELSE "false"

\* The row of a resource, in a table with these columns.
Row(attrs, columns) ==
  [c \in columns |-> GetAttr(attrs, Path(<<>>, c[1], IF Len(c) = 1 THEN "" ELSE c[2]))]

-----------------------------------------------------------------------------
(* MongoDB.  A query on a field that is an array looks at its elements.     *)

\* The values a query on a path looks at, Nil being one that is missing.
FieldValues(doc, path) ==
  LET val == lookupAttr(doc, path.attr)
      outer == IF IsArr(val) THEN {o \in ToSet(val.a) : path.sub = "" \/ IsMap(o)} ELSE {val}
      field(o) == IF path.sub = "" THEN o ELSE IF IsMap(o) THEN lookupAttr(o.m, path.sub) ELSE Nil
  IN  {field(o) : o \in outer}

\* $exists and $ne null: an empty array is there.
FieldPresent(doc, path) ==
  /\ Nil \notin FieldValues(doc, path)
  /\ path.sub = "" \/ FieldValues(doc, path) # {}

\* Comparisons are by type, and with letter case; a null equals what is missing.
MongoCompare(op, a, b) == a.t = b.t /\ SqlCompare(op, Text(a), Text(b))

\* What a $regex is made of: a value that is no string counts as an empty one.
Pattern(value) == IF value.t = "str" THEN value ELSE Str(<<>>)

MongoTest(e, doc) ==
  LET values == FieldValues(doc, e.path)
  IN  CASE e.op = "pr" -> FieldPresent(doc, e.path)
        [] e.op = "ne" -> ~ \E v \in values : MongoCompare("eq", v, e.value)
        [] e.op \in {"co", "sw", "ew"} -> \E v \in values : MongoCompare(e.op, v, Pattern(e.value))
        [] OTHER -> \E v \in values : MongoCompare(e.op, v, e.value)

\* Mutant: a condition on the array for each comparison in place of $elemMatch:
\* different elements may meet them.
RECURSIVE MongoAcross(_, _)
MongoAcross(e, doc) ==
  CASE e.kind = "attr" -> MongoTest(e, doc)
    [] e.kind = "logical" ->
         IF e.op = "and" THEN MongoAcross(e.left, doc) /\ MongoAcross(e.right, doc)
         ELSE MongoAcross(e.left, doc) \/ MongoAcross(e.right, doc)
    [] e.kind = "not" -> ~ MongoAcross(e.inner, doc)
    [] e.kind = "path" /\ e.filter.kind = "logical" ->
         LET f == e.filter
         IN  MongoAcross(Logical(f.op, ValuePath(e.path, f.left), ValuePath(e.path, f.right)), doc)
    [] OTHER ->
         LET val == lookupAttr(doc, e.path.attr)
         IN  IsArr(val) /\ \E i \in DOMAIN val.a : IsMap(val.a[i]) /\ MongoAcross(e.filter, val.a[i].m)

\* $and, $or, $nor, $elemMatch; no array, no match of $elemMatch.
RECURSIVE MongoHolds(_, _)
MongoHolds(e, doc) ==
  CASE e.kind = "attr" -> MongoTest(e, doc)
    [] e.kind = "logical" ->
         IF e.op = "and" THEN MongoHolds(e.left, doc) /\ MongoHolds(e.right, doc)
         ELSE MongoHolds(e.left, doc) \/ MongoHolds(e.right, doc)
    [] e.kind = "not" -> ~ MongoHolds(e.inner, doc)
    [] e.kind = "path" ->
         LET val == lookupAttr(doc, e.path.attr)
         IN  IsArr(val) /\ \E i \in DOMAIN val.a : IsMap(val.a[i]) /\ MongoHolds(e.filter, val.a[i].m)

-----------------------------------------------------------------------------
(* The filters for which the databases and evalExpr are to agree.           *)

RECURSIVE Comparisons(_)
Comparisons(e) ==
  CASE e.kind = "attr" -> {e}
    [] e.kind = "logical" -> Comparisons(e.left) \cup Comparisons(e.right)
    [] e.kind = "not" -> Comparisons(e.inner)
    [] e.kind = "path" -> Comparisons(e.filter)

RECURSIVE Negated(_)
Negated(e) ==
  CASE e.kind = "attr" -> e.op = "ne"
    [] e.kind = "logical" -> Negated(e.left) \/ Negated(e.right)
    [] e.kind = "not" -> TRUE
    [] e.kind = "path" -> Negated(e.filter)

\* Texts are searched for texts without wildcards: values are not escaped, and one
\* that is no string becomes the empty pattern.
Literal(e) ==
  \A c \in Comparisons(e) : c.op \in {"co", "sw", "ew"} =>
    c.value.t = "str" /\ Wildcards \cap ToSet(c.value.s) = {}

=============================================================================
