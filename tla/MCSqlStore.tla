------------------------------ MODULE MCSqlStore ------------------------------
(* Instances of SqlStore for TLC: name is the UNIQUE attribute, nick has no *)
(* constraint, ext belongs to an extension schema.                          *)
EXTENDS SqlStore, TLC

CONSTANTS i1, i2, name, nick, ext, a, b

Request(op, id, attrs) ==
  [op |-> op, id |-> id, attrs |-> attrs, bad |-> FALSE, filter |-> Nil, value |-> Nil,
   start |-> 1, count |-> 0]

List(f, v, start, count) ==
  [Request("List", Nil, <<>>) EXCEPT !.filter = f, !.value = v, !.start = start, !.count = count]

\* Every kind of call, to two resources with clashing names; the filters of the
\* lists have a translation, none, or a column that is not there.
MCCalls ==
  {Request("Create", Nil, (name :> v) @@ (ext :> v)) : v \in {a, b}}
  \cup {Request("Replace", i1, name :> b), Request("Patch", i1, ext :> b),
        [Request("Patch", i1, <<>>) EXCEPT !.bad = TRUE], Request("Delete", i1, <<>>),
        Request("Get", i1, <<>>), List(name, a, 0, 1), List(Nil, Nil, 2, 0),
        List(ext, a, 1, 0), List(nick, a, 1, 1)}

\* Two patches of different attributes.
MCPatches ==
  {Request("Create", Nil, name :> a), Request("Patch", i1, name :> b),
   Request("Patch", i1, nick :> b)}

Symmetry == Permutations(Procs)

=============================================================================
