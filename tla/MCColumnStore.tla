----------------------------- MODULE MCColumnStore -----------------------------
(* Instances of ColumnStore for TLC: name is in the primary table, first and *)
(* last are in two joined tables.                                           *)
EXTENDS ColumnStoreRefinement, TLC

CONSTANTS i1, i2, name, first, last, a, b, accounts, profiles, details

MCJoins == <<profiles, details>>
MCHome == (name :> accounts) @@ (first :> profiles) @@ (last :> details)
MCShortHome == (name :> accounts) @@ (first :> profiles)
MCOneJoin == <<profiles>>

Request(op, id, attrs) ==
  [op |-> op, id |-> id, attrs |-> attrs, bad |-> FALSE, filter |-> Nil, value |-> Nil,
   start |-> 1, count |-> 0]

All(n, v) == (name :> n) @@ (first :> v) @@ (last :> v)

\* Writes to every table, of two resources that compete for a userName and can
\* exchange theirs, and reads of what they leave.
MCCalls ==
  {Request("Create", Nil, All(a, a)), Request("Create", Nil, All(b, b)),
   Request("Replace", i1, All(b, a)), Request("Replace", i2, All(a, a)),
   Request("Patch", i1, first :> b),
   Request("Delete", i1, <<>>), Request("Get", i1, <<>>), Request("List", Nil, <<>>)}

\* Writes that can lock each other out.
MCShort ==
  {Request("Create", Nil, (name :> a) @@ (first :> a)), Request("Replace", i1, first :> b),
   Request("Delete", i1, <<>>)}

Symmetry == Permutations(Procs)

=============================================================================
