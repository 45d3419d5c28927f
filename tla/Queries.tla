------------------------------- MODULE Queries --------------------------------
(***************************************************************************)
(* The filters of FilterText on resources, and what the three databases     *)
(* find with the queries that Translations makes of them.                  *)
(***************************************************************************)
EXTENDS Values, Translations

CONSTANT Columns  \* of the table the filters are translated for

SqlFinds(q, row, dialect) ==
  IF q = Untranslatable THEN "error"
  ELSE IF ~ Executable(q, Columns) THEN "error" ELSE SqlHolds(q, row, dialect)

Found(e, attrs, database) ==
  IF database = "mongodb" THEN (IF MongoHolds(e, attrs) THEN "true" ELSE "false")
  ELSE SqlFinds(TranslateSql(e), Row(attrs, Columns), database)

\* Every attribute that e compares is there, in each element of the array for a
\* value path, and no value is null; typed: it has the type of the value.
RECURSIVE Complete(_, _, _)
Complete(e, attrs, typed) ==
  LET val == GetAttr(attrs, e.path)
  IN  CASE e.kind = "attr" ->
             /\ val # Nil
             /\ e.op # "pr" => e.value # Nil /\ (typed => val.t = e.value.t)
        [] e.kind = "logical" -> Complete(e.left, attrs, typed) /\ Complete(e.right, attrs, typed)
        [] e.kind = "not" -> Complete(e.inner, attrs, typed)
        [] e.kind = "path" ->
             /\ IsArr(val)
             /\ \A elem \in ToSet(val.a) : IsMap(elem) /\ Complete(e.filter, elem.m, typed)

RECURSIVE LowerCase(_, _)
LowerCase(e, attrs) ==
  CASE e.kind = "attr" -> \A v \in {e.value} \cup FieldValues(attrs, e.path) : Text(v) = LowerText(v)
    [] e.kind = "logical" -> LowerCase(e.left, attrs) /\ LowerCase(e.right, attrs)
    [] e.kind = "not" -> LowerCase(e.inner, attrs)
    [] e.kind = "path" ->
         \A elem \in FieldValues(attrs, e.path) : IsMap(elem) => LowerCase(e.filter, elem.m)

\* A query without a negation selects no resource that the filter does not match.
\* Where nothing is missing the SQL databases select exactly those it matches, if
\* they can run the query, and so does MongoDB, which compares values of one type
\* only.  Excepted are wildcards in values and letter case.
QueriesAgree ==
  Answered("select") =>
    LET e == input.of.filter
        attrs == input.of.attrs
        a == answer.is
        sql == {a.postgres, a.mysql}
        matches == IF a.eval THEN "true" ELSE "false"
    IN  Literal(e) /\ LowerCase(e, attrs) =>
          /\ ~ Negated(e) => ("true" \in sql \/ a.mongo = "true" => a.eval)
          /\ "error" \notin sql /\ Complete(e, attrs, FALSE) => sql = {matches}
          /\ Complete(e, attrs, TRUE) => a.mongo = matches

=============================================================================
