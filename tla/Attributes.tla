------------------------------ MODULE Attributes ------------------------------
(***************************************************************************)
(* resource/accessor.go, path.go and filter_eval.go: JSON values, attribute *)
(* paths, and how a filter compares two values.                            *)
(*                                                                         *)
(* A value is a record with its type t and one field of its own; a text is *)
(* the sequence of its bytes.  Names are in lower case: the maps of the    *)
(* model have no two keys that differ in letter case only.                 *)
(***************************************************************************)
EXTENDS Integers, Sequences, FiniteSetsExt, Functions, SequencesExt

CONSTANT BadNames  \* pieces of paths that isValidAttrName refuses

Nil == [t |-> "nil"]
Str(s) == [t |-> "str", s |-> s]
Num(n) == [t |-> "num", n |-> n]
Bool(b) == [t |-> "bool", b |-> b]
Map(m) == [t |-> "map", m |-> m]
Arr(a) == [t |-> "arr", a |-> a]

IsMap(v) == v.t = "map"
IsArr(v) == v.t = "arr"

\* The elements of s at the positions in K, in their order.
Kept(s, K) ==
  LET kept[n \in 0 .. Len(s)] ==
        IF n = 0 THEN <<>> ELSE IF n \in K THEN Append(kept[n - 1], s[n]) ELSE kept[n - 1]
  IN  kept[Len(s)]

-----------------------------------------------------------------------------
(* Attribute paths.  The text of a path is a sequence of pieces: names, ":" *)
(* and ".".                                                                *)

Path(schema, attr, sub) == [schema |-> schema, attr |-> attr, sub |-> sub]
Plain(attr) == Path(<<>>, attr, "")
BadPath == [bad |-> "path"]

isValidAttrName(text) == Len(text) = 1 /\ text[1] \notin BadNames \cup {":", "."}

Positions(text, piece) == {i \in DOMAIN text : text[i] = piece}
Before(text, i) == SubSeq(text, 1, i - 1)
After(text, i) == SubSeq(text, i + 1, Len(text))

\* The part before the first dot.
AttrPart(text) ==
  LET dots == Positions(text, ".") IN IF dots = {} THEN text ELSE Before(text, Min(dots))

\* attr or attr.sub
ParseRemainder(schema, text) ==
  LET attr == AttrPart(text)
      sub == After(text, Len(attr) + 1)
      dotted == Len(text) > Len(attr)
  IN  IF ~ isValidAttrName(attr) \/ (dotted /\ ~ isValidAttrName(sub)) THEN BadPath
      ELSE Path(schema, attr[1], IF dotted THEN sub[1] ELSE "")

\* The schema of a URN path ends at its last colon.
ParsePath(text) ==
  LET colons == Positions(text, ":")
      last == Max(colons)
      urn == Len(text) > 1 /\ text[1] = "urn" /\ text[2] = ":"
  IN  IF urn /\ isValidAttrName(AttrPart(After(text, last)))
      THEN ParseRemainder(Before(text, last), After(text, last))
      ELSE ParseRemainder(<<>>, text)

PathString(p) ==
  (IF p.schema = <<>> THEN <<>> ELSE Append(p.schema, ":"))
  \o <<p.attr>> \o (IF p.sub = "" THEN <<>> ELSE <<".", p.sub>>)

-----------------------------------------------------------------------------
(* Accessors.  A path's schema is ignored: attributes are looked up at the  *)
(* top of the resource.                                                     *)

lookupAttr(m, name) == IF name \in DOMAIN m THEN m[name] ELSE Nil

setAttr(m, name, v) == [n \in DOMAIN m \cup {name} |-> IF n = name THEN v ELSE m[n]]

deleteAttr(m, name) == Restrict(m, DOMAIN m \ {name})

\* value's fields over those of fields.
Merged(fields, value) ==
  [n \in DOMAIN fields \cup DOMAIN value |-> IF n \in DOMAIN value THEN value[n] ELSE fields[n]]

GetAttr(attrs, p) ==
  LET val == lookupAttr(attrs, p.attr)
  IN  IF p.sub = "" THEN val
      ELSE IF IsMap(val) THEN lookupAttr(val.m, p.sub) ELSE Nil

\* Mutant: the object of the sub-attribute is always a new one.
SetAttrAfresh(attrs, p, v) ==
  setAttr(attrs, p.attr, IF p.sub = "" THEN v ELSE Map(setAttr(<<>>, p.sub, v)))

SetAttr(attrs, p, v) ==
  LET parent == lookupAttr(attrs, p.attr)
      fields == IF IsMap(parent) THEN parent.m ELSE <<>>
  IN  setAttr(attrs, p.attr, IF p.sub = "" THEN v ELSE Map(setAttr(fields, p.sub, v)))

DeleteAttr(attrs, p) ==
  LET parent == lookupAttr(attrs, p.attr)
  IN  IF p.sub = "" THEN deleteAttr(attrs, p.attr)
      ELSE IF IsMap(parent) THEN setAttr(attrs, p.attr, Map(deleteAttr(parent.m, p.sub)))
      ELSE attrs

-----------------------------------------------------------------------------
(* Comparisons of filters.                                                  *)

Comparison(path, op, value) == [kind |-> "attr", path |-> path, op |-> op, value |-> value]
Logical(op, l, r) == [kind |-> "logical", op |-> op, left |-> l, right |-> r]
Not(e) == [kind |-> "not", inner |-> e]
ValuePath(path, e) == [kind |-> "path", path |-> path, filter |-> e]

None == [kind |-> "none"]   \* no filter, no path
BadFilter == [bad |-> "filter"]

Lower(s) == [i \in DOMAIN s |-> IF s[i] \in 65 .. 90 THEN s[i] + 32 ELSE s[i]]

\* fmt.Sprintf("%v"); numbers have one digit, complex values are not compared.
Text(v) ==
  CASE v.t = "str" -> v.s
    [] v.t = "num" -> <<48 + v.n>>
    [] v.t = "bool" -> IF v.b THEN <<116, 114, 117, 101>> ELSE <<102, 97, 108, 115, 101>>
    [] v.t = "nil" -> <<60, 110, 105, 108, 62>>

LowerText(v) == Lower(Text(v))

Order(a, b) == IF a < b THEN -1 ELSE IF a > b THEN 1 ELSE 0

\* strings.Compare
TextOrder(a, b) ==
  LET differ == {i \in DOMAIN a \cap DOMAIN b : a[i] # b[i]}
  IN  IF differ = {} THEN Order(Len(a), Len(b)) ELSE Order(a[Min(differ)], b[Min(differ)])

compareOrder(a, b) ==
  IF a.t = "num" /\ b.t = "num" THEN Order(a.n, b.n) ELSE TextOrder(Text(a), Text(b))

valuesEqual(a, b) ==
  IF a.t = "nil" \/ b.t = "nil" THEN a.t = b.t ELSE LowerText(a) = LowerText(b)

Occurs(s, in) == \E i \in 0 .. Len(in) - Len(s) : SubSeq(in, i + 1, i + Len(s)) = s

compareValues(op, a, b) ==
  CASE op = "eq" -> valuesEqual(a, b)
    [] op = "ne" -> ~ valuesEqual(a, b)
    [] op = "co" -> Occurs(LowerText(b), LowerText(a))
    [] op = "sw" -> IsPrefix(LowerText(b), LowerText(a))
    [] op = "ew" -> IsSuffix(LowerText(b), LowerText(a))
    [] op = "gt" -> compareOrder(a, b) > 0
    [] op = "ge" -> compareOrder(a, b) >= 0
    [] op = "lt" -> compareOrder(a, b) < 0
    [] op = "le" -> compareOrder(a, b) <= 0

=============================================================================
