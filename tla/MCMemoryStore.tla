---------------------------- MODULE MCMemoryStore ----------------------------
(* Instances of MemoryStore for TLC: names n and N differ in case only.     *)
EXTENDS MemoryStoreRefinement, TLC

CONSTANTS User, Group, i1, i2, n, N

MCFold == [x \in Names |-> IF x = N THEN n ELSE x]

Request(op, id, name) ==
  [op |-> op, type |-> User, id |-> id, name |-> name, bodyId |-> Nil, ops |-> <<>>,
   start |-> 1, count |-> -1]

PatchOp(kind) == [kind |-> kind, name |-> Nil, ids |-> {}, metas |-> {}]
Set(name) == [PatchOp("userName") EXCEPT !.name = name]

PatchWith(ops) == [Request("Patch", i1, Nil) EXCEPT !.ops = ops]

\* Everything that can happen to one resource: a PATCH removes userName and stores
\* a "Meta" with the times of the epoch.
MCOneResource ==
  {Request("Create", Nil, n), Request("Replace", i1, n),
   PatchWith(<<Set(Nil), [PatchOp("meta") EXCEPT !.metas = {[created |-> 0, modified |-> 0]}]>>),
   Request("Get", i1, Nil), Request("Delete", i1, Nil), Request("List", Nil, n)}

\* Users whose names may clash, groups with a user's name, a PATCH that stores an
\* "ID", and a page.
MCUsers ==
  {Request("Create", Nil, n), PatchWith(<<Set(N), [PatchOp("id") EXCEPT !.ids = {i2}]>>),
   [Request("Create", Nil, n) EXCEPT !.type = Group],
   [Request("List", Nil, Nil) EXCEPT !.type = Group, !.start = 2, !.count = 2]}

\* Readers against a stream of writers, one of which fails.
MCReadersWriters ==
  {Request("Get", i1, Nil), Request("Create", Nil, n), Request("Delete", i1, Nil),
   PatchWith(<<PatchOp("noTarget")>>)}

Symmetry == Permutations(Procs)

=============================================================================
