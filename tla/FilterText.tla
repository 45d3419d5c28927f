------------------------------ MODULE FilterText ------------------------------
(***************************************************************************)
(* resource/filter_eval.go: how a filter is evaluated; resource/filter.go:  *)
(* the parser of filters and of PATCH paths; connector/scim/client.go: how  *)
(* the proxy writes both for the upstream server.  A text is a sequence of  *)
(* tokens: a word (keyword, operator or bracket), a path, or a value.       *)
(***************************************************************************)
EXTENDS Attributes

-----------------------------------------------------------------------------
(* Evaluation.                                                              *)

\* The sub-attribute of a path is not taken from a value that is no object.
getAttrValue(attrs, p) ==
  LET val == lookupAttr(attrs, p.attr)
  IN  IF p.sub # "" /\ IsMap(val) THEN lookupAttr(val.m, p.sub) ELSE val

\* An array matches if one of its elements does.
evalAttrExpr(e, attrs) ==
  LET val == getAttrValue(attrs, e.path)
      field(elem) ==
        IF e.path.sub = "" THEN elem
        ELSE IF IsMap(elem) THEN lookupAttr(elem.m, e.path.sub) ELSE Nil
  IN  IF e.op = "pr" THEN val # Nil
      ELSE IF IsArr(val) THEN \E i \in DOMAIN val.a : compareValues(e.op, field(val.a[i]), e.value)
      ELSE compareValues(e.op, val, e.value)

RECURSIVE evalExpr(_, _)

evalValuePath(e, attrs) ==
  LET val == lookupAttr(attrs, e.path.attr)
      elems == IF IsArr(val) THEN val.a ELSE <<val>>
  IN  \E i \in DOMAIN elems : IsMap(elems[i]) /\ evalExpr(e.filter, elems[i].m)

evalExpr(e, attrs) ==
  CASE e.kind = "attr" -> evalAttrExpr(e, attrs)
    [] e.kind = "logical" ->
         IF e.op = "and" THEN evalExpr(e.left, attrs) /\ evalExpr(e.right, attrs)
         ELSE evalExpr(e.left, attrs) \/ evalExpr(e.right, attrs)
    [] e.kind = "not" -> ~ evalExpr(e.inner, attrs)
    [] e.kind = "path" -> evalValuePath(e, attrs)

-----------------------------------------------------------------------------
(* Parsing.                                                                 *)

Word(w) == [k |-> "word", w |-> w]
PathToken(text) == [k |-> "path", text |-> text]
ValueToken(v) == [k |-> "value", v |-> v]

Operators == {"eq", "ne", "co", "sw", "ew", "gt", "ge", "lt", "le", "pr"}

\* What a parser function returns: the expression and the tokens that are left.
Parsed(e, rest) == [e |-> e, rest |-> rest]
Malformed == Parsed(BadFilter, <<>>)

At(tokens, w) == tokens # <<>> /\ Head(tokens) = Word(w)

\* The closing bracket after a sub-expression, which becomes a part of another.
Closed(r, w, Part(_)) == IF At(r.rest, w) THEN Parsed(Part(r.e), Tail(r.rest)) ELSE Malformed

\* The operand after an operator.
Joined(op, l, r) ==
  IF r.e = BadFilter THEN Malformed ELSE Parsed(Logical(op, l.e, r.e), r.rest)

parseCompValue(path, op, tokens) ==
  IF tokens # <<>> /\ Head(tokens).k = "value"
  THEN Parsed(Comparison(path, op, Head(tokens).v), Tail(tokens))
  ELSE Malformed

RECURSIVE parseOr(_), parseOrTail(_), parseAndTail(_)

parseAttrOrValuePath(tokens) ==
  IF tokens = <<>> \/ Head(tokens).k # "path" THEN Malformed
  ELSE LET path == ParsePath(Head(tokens).text)
           rest == Tail(tokens)
       IN  IF path = BadPath \/ rest = <<>> THEN Malformed
           ELSE IF At(rest, "[")
           THEN Closed(parseOr(Tail(rest)), "]", LAMBDA e : ValuePath(path, e))
           ELSE IF At(rest, "pr") THEN Parsed(Comparison(path, "pr", Nil), Tail(rest))
           ELSE IF Head(rest).k = "word" /\ Head(rest).w \in Operators
           THEN parseCompValue(path, Head(rest).w, Tail(rest))
           ELSE Malformed

parsePrimary(tokens) ==
  IF At(tokens, "(") THEN Closed(parseOr(Tail(tokens)), ")", LAMBDA e : e)
  ELSE parseAttrOrValuePath(tokens)

parseNot(tokens) ==
  IF ~ At(tokens, "not") THEN parsePrimary(tokens)
  ELSE IF ~ At(Tail(tokens), "(") THEN Malformed
  ELSE Closed(parseOr(Tail(Tail(tokens))), ")", Not)

\* Operators of one kind are grouped to the left.
parseAndTail(l) ==
  IF ~ At(l.rest, "and") THEN l
  ELSE parseAndTail(Joined("and", l, parseNot(Tail(l.rest))))

parseAnd(tokens) == parseAndTail(parseNot(tokens))

parseOrTail(l) ==
  IF ~ At(l.rest, "or") THEN l
  ELSE parseOrTail(Joined("or", l, parseAnd(Tail(l.rest))))

parseOr(tokens) == parseOrTail(parseAnd(tokens))

\* Nothing may be left over.
Whole(r) == IF r.rest = <<>> THEN r.e ELSE BadFilter

ParseFilter(tokens) == Whole(parseOr(tokens))

-----------------------------------------------------------------------------
(* Writing.                                                                 *)

\* Mutant: parentheses only where a conjunction has a disjunction in it.
RECURSIVE Bare(_)
Bare(e) ==
  CASE e.kind = "attr" ->
         <<PathToken(PathString(e.path)), Word(e.op)>>
         \o (IF e.op = "pr" THEN <<>> ELSE <<ValueToken(e.value)>>)
    [] e.kind = "logical" -> Bare(e.left) \o <<Word(e.op)>> \o Bare(e.right)
    [] e.kind = "not" -> <<Word("not"), Word("(")>> \o Bare(e.inner) \o <<Word(")")>>
    [] e.kind = "path" -> <<PathToken(PathString(e.path)), Word("[")>> \o Bare(e.filter) \o <<Word("]")>>

RECURSIVE filterToString(_)
filterToString(e) ==
  CASE e.kind = "attr" ->
         <<PathToken(PathString(e.path)), Word(e.op)>>
         \o (IF e.op = "pr" THEN <<>> ELSE <<ValueToken(e.value)>>)
    [] e.kind = "logical" ->
         <<Word("(")>> \o filterToString(e.left) \o <<Word(e.op)>>
         \o filterToString(e.right) \o <<Word(")")>>
    [] e.kind = "not" -> <<Word("not"), Word("(")>> \o filterToString(e.inner) \o <<Word(")")>>
    [] e.kind = "path" ->
         <<PathToken(PathString(e.path)), Word("[")>> \o filterToString(e.filter) \o <<Word("]")>>

-----------------------------------------------------------------------------
(* PATCH paths, resource/path.go: attr, attr[filter] or attr[filter].sub.    *)
(* The text is split at its first "[" and last "]": attr, filter and rest.  *)

PatchText(attr, filter, rest) == [attr |-> attr, filter |-> filter, rest |-> rest]
PatchPath(attr, filter, sub) == [attr |-> attr, filter |-> filter, sub |-> sub]

\* The path, once its parts are parsed: rest is empty, or "." and a name.
Parts(attr, filter, rest) ==
  LET suffix == rest = <<>> \/ (rest[1] = "." /\ isValidAttrName(Tail(rest)))
  IN  IF attr = BadPath \/ ~ suffix \/ filter = BadFilter THEN BadPath
      ELSE PatchPath(attr, filter, IF rest = <<>> THEN "" ELSE Last(rest))

ParsePatchPath(text) ==
  Parts(ParsePath(text.attr),
        IF text.filter = None THEN None ELSE ParseFilter(text.filter.tokens), text.rest)

Bracketed(tokens) == [kind |-> "bracket", tokens |-> tokens]

patchPathToString(p) ==
  PatchText(PathString(p.attr),
            IF p.filter = None THEN None ELSE Bracketed(filterToString(p.filter)),
            IF p.sub = "" THEN <<>> ELSE <<".", p.sub>>)

=============================================================================
