------------------------------- MODULE MCInputs -------------------------------
(* Inputs for Filters and Values: texts of one or two characters, a user     *)
(* with a title, a name and a few e-mail addresses, paths of PATCH.          *)
EXTENDS Attributes, TLC

Lang == INSTANCE FilterText

a == Str(<<97>>)
b == Str(<<98>>)
A == Str(<<65>>)
ab == Str(<<97, 98>>)
w == Str(<<119>>)
h == Str(<<104>>)

Email(type, value) == Map(("type" :> type) @@ ("value" :> value))
Main(email) == Map(("primary" :> Bool(TRUE)) @@ email.m)

Emails ==
  {Nil, Arr(<<>>), Arr(<<Email(w, a)>>), Arr(<<Email(w, a), Email(w, b)>>),
   Arr(<<Email(h, b), Email(w, a)>>), Arr(<<a, Email(w, b), Email(h, a)>>), Email(w, a)}

User(title, given, emails) ==
  (IF title = Nil THEN <<>> ELSE "title" :> title)
  @@ (IF given = Nil THEN <<>> ELSE "name" :> Map("given" :> given))
  @@ (IF emails = Nil THEN <<>> ELSE "emails" :> emails)

Users == {User(t, g, e) : t \in {Nil, a}, g \in {Nil, b}, e \in Emails}

Urn == <<"urn", ":", "x">>
Title == Plain("title")
Given1 == Path(<<>>, "name", "given")
Type == Plain("type")
EmailType == Path(<<>>, "emails", "type")
Extended == Path(Urn, "title", "")

-----------------------------------------------------------------------------
Works == Lang!Bracketed(Lang!Bare(Comparison(Type, "eq", w)))
Others == Lang!Bracketed(Lang!Bare(Not(Comparison(Type, "eq", w))))
PatchPaths ==
  {None, Lang!PatchText(<<"title">>, None, <<>>), Lang!PatchText(<<"name", ".", "given">>, None, <<>>),
   Lang!PatchText(Urn \o <<":", "title">>, None, <<>>), Lang!PatchText(<<"emails">>, None, <<>>),
   Lang!PatchText(<<"emails", ".", "type">>, None, <<>>), Lang!PatchText(<<"emails">>, Works, <<>>),
   Lang!PatchText(<<"emails">>, Works, <<".", "value">>), Lang!PatchText(<<"emails">>, Others, <<>>),
   Lang!PatchText(<<"emails">>, Others, <<".", "value">>), Lang!PatchText(<<"emails">>, Works, <<"value">>),
   Lang!PatchText(<<"emails">>, Lang!Bracketed(<<>>), <<>>), Lang!PatchText(<<"title", ".", "1">>, None, <<>>)}

=============================================================================
