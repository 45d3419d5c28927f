------------------------------- MODULE MCValues -------------------------------
(* Inputs for Values: every request over the users of MCInputs.             *)
EXTENDS Queries, MCInputs

MCEvalFilter(e, attrs) == Lang!evalExpr(e, attrs)
MCFilterFrom(text) == Lang!ParseFilter(text)
MCFilterToText(e) == Lang!filterToString(e)
MCPatchPathFrom(text) == Lang!ParsePatchPath(text)
MCPatchPathToText(p) == Lang!patchPathToString(p)
MCSelected(e, attrs, database) == Found(e, attrs, database)

-----------------------------------------------------------------------------
Basic == {Comparison(Title, "eq", a), Comparison(Extended, "pr", Nil),
          Comparison(Given1, "ne", Nil), Comparison(EmailType, "co", ab)}
Simple ==
  Basic \cup {Not(e) : e \in Basic} \cup {ValuePath(Plain("emails"), e) : e \in Basic}
  \cup {Logical(op, l, r) : op \in {"and", "or"}, l, r \in Basic}

Grouped(text) == <<Lang!Word("(")>> \o text \o <<Lang!Word(")")>>

\* Two filters with a word between them, with and without parentheses; after not,
\* and in brackets; whole and cut short.
MCFilterTexts ==
  LET texts == {Lang!Bare(e) : e \in Simple}
      pairs == {l \o <<Lang!Word(op)>> \o r :
                  op \in {"and", "or"}, l, r \in texts \cup {Grouped(t) : t \in texts}}
      nots == {<<Lang!Word("not")>> \o Grouped(t) : t \in texts}
      paths == {<<Lang!PathToken(<<"emails">>), Lang!Word("[")>> \o t \o <<Lang!Word("]")>> : t \in texts \cup nots}
      all == texts \cup pairs \cup nots \cup paths
  IN  all \cup {Front(t) : t \in texts \cup nots \cup paths} \cup {<<>>}

-----------------------------------------------------------------------------
PatchValues == {b, Nil, Email(h, b), Map("type" :> h), Arr(<<Email(w, b)>>), Map("title" :> b)}

RawOps ==
  {RawOp(op, p, v) : op \in {"add", "remove", "replace", "copy"}, p \in PatchPaths, v \in PatchValues}
FewOps ==
  {RawOp("add", None, Map("title" :> b)), RawOp("add", Lang!PatchText(<<"emails">>, Works, <<>>), b),
   RawOp("replace", Lang!PatchText(<<"emails">>, Others, <<>>), Map("type" :> w)),
   RawOp("remove", Lang!PatchText(<<"emails">>, Works, <<>>), Nil), NotAnObject}

MCPatches ==
  [attrs : Users, ops : {Arr(<<o>>) : o \in RawOps} \cup {Arr(<<o, p>>) : o, p \in FewOps} \cup {None}]

-----------------------------------------------------------------------------
Listed(id, title, emails) == [id |-> id, attrs |-> User(title, Nil, emails)]
r1 == Listed(<<49>>, a, Arr(<<Email(w, b), Main(Email(h, a))>>))
r2 == Listed(<<50>>, b, Arr(<<Email(w, a)>>))
r3 == Listed(<<51>>, A, Nil)
r4 == Listed(<<52>>, Nil, Arr(<<>>))
Stores == {<<>>, <<r1>>, <<r1, r2>>, <<r3, r4>>} \cup {<<x, y, z>> : x, y, z \in {r1, r2, r3, r4}}
Distinct == {s \in Stores : IsInjective(s)}

FilterText == Lang!Bare(Comparison(Title, "eq", a))
Queries ==
  {Query(s, c, f, o[1], o[2]) :
     s \in {Absent, Garbage, Number(0), Number(2), Number(5)},
     c \in {Absent, Number(0), Zeros, Number(-1), Number(1), Number(2), Number(7)},
     f \in {<<>>, FilterText},
     o \in {<<<<>>, "">>, <<<<"title">>, "descending">>, <<<<"emails">>, "other">>}}
Bodies ==
  {[query |-> Query(s, c, f, <<"title">>, o)] :
     s \in {Absent, Number(2)}, c \in {Absent, Number(0), Number(1), Number(6)},
     f \in {<<>>, FilterText, Front(FilterText)}, o \in {"", "ascending", "descending"}}

MCPageSizes == {[default |-> 2, max |-> 2], [default |-> 1, max |-> 0], [default |-> 3, max |-> 2]}

MCLists ==
  [all : Distinct, query : Queries, body : {None}, sizes : MCPageSizes]
  \cup [all : {<<r3, r1, r2>>, <<r1>>}, body : Bodies, sizes : MCPageSizes,
        query : {NoQuery, Query(Number(2), Number(0), <<>>, <<"title">>, "descending")}]

-----------------------------------------------------------------------------
Tests ==
  {Comparison(p, op, v) : p \in {Title, Given1, EmailType, Extended},
                          op \in Lang!Operators \ {"pr"}, v \in {a, ab, w, A, Nil, Bool(TRUE), Str(<<37>>)}}
  \cup {Comparison(p, "pr", Nil) : p \in {Title, EmailType}}
FewTests ==
  {Comparison(Title, "eq", a), Comparison(Title, "gt", b), Comparison(Given1, "sw", b),
   Comparison(Title, "pr", Nil), Comparison(Given1, "ne", b), Comparison(EmailType, "eq", w)}
Inner == {Comparison(Type, "eq", w), Comparison(Plain("value"), "eq", b), Comparison(Type, "pr", Nil)}
InnerPairs == {Logical(op, l, r) : op \in {"and", "or"}, l, r \in Inner}

MCSelections ==
  [attrs : Users \cup {User(A, ab, Nil)},
   filter : Tests \cup {Logical(op, l, r) : op \in {"and", "or"}, l, r \in FewTests}
            \cup {Not(e) : e \in FewTests}
            \cup {Not(Logical(op, l, r)) : op \in {"and", "or"}, l, r \in FewTests}
            \cup {ValuePath(Plain("emails"), e) : e \in Inner \cup InnerPairs}]

MCColumns == {<<"title">>, <<"name", "given">>}

-----------------------------------------------------------------------------
Managers == {Nil, Map("value" :> a), Map(("value" :> a) @@ ("display" :> b)), Map("managerid" :> a), a}
Extensions ==
  {Nil, Map(<<>>), Map("custom" :> a)}
  \cup {Map(("department" :> b) @@ (IF m = Nil THEN <<>> ELSE "manager" :> m)) : m \in Managers}
SchemaLists ==
  {Arr(<<User2>>), Arr(<<User2, Enterprise2>>), Arr(<<User2, Enterprise2, Uri("x"), Uri("x")>>),
   Arr(<<Enterprise2, User2>>), Arr(<<User2, Core1, Group2, Enterprise1>>)}
Memberships == {Nil, Arr(<<Map("value" :> a)>>), Arr(<<Map("id" :> a), b>>)}

MCV2Resources ==
  {("schemas" :> s) @@ (IF e = Nil THEN <<>> ELSE Enterprise :> e)
     @@ (IF g = Nil THEN <<>> ELSE "groups" :> g) @@ (IF t = Nil THEN <<>> ELSE "organization" :> t)
   : s \in SchemaLists, e \in Extensions, g \in Memberships, t \in {Nil, a}}

=============================================================================
