---- MODULE MCScimClient ----
(* Instances of ScimClient for TLC.                                         *)
EXTENDS ScimClient

CONSTANTS i1, v, w

Request(op, id, value) == [op |-> op, id |-> id, value |-> value]

MCRequests ==
  {Request("Create", Nil, v), Request("Replace", i1, w), Request("Patch", i1, w),
   Request("Delete", i1, Nil), Request("List", Nil, Nil)}


=============================================================================
