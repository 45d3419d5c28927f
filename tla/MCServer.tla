------------------------------- MODULE MCServer -------------------------------
(* Instances of Server for TLC: one registered endpoint, requests that get   *)
(* to every handler and every refusal, and bulk requests that fail half-way. *)
EXTENDS Server

Path(word, rest) == [base |-> "slash", word |-> word, exact |-> TRUE, rest |-> rest]
Users == Path("users", "")
OneUser == Path("users", "id")

Do(method, path, body) == [method |-> method, path |-> path, body |-> body]
Asked(op) ==
  [acceptable |-> TRUE, media |-> TRUE, auth |-> "ok", op |-> op, fail |-> 0, ops |-> <<>>]
BulkOf(ops, fail) ==
  [Asked(Do("POST", Path("bulk", ""), "good")) EXCEPT !.ops = ops, !.fail = fail]

Create == Do("POST", Users, "good")
Remove == Do("DELETE", OneUser, "none")

MCRefused ==
  {[Asked(Create) EXCEPT !.acceptable = FALSE], [Asked(Create) EXCEPT !.media = FALSE],
   [Asked(Create) EXCEPT !.auth = "denied"], [Asked(Create) EXCEPT !.auth = "error"],
   Asked(Do("DELETE", Users, "none")), Asked(Do("GET", Path("things", ""), "none")),
   Asked(Do("GET", [Path("schemas", "id") EXCEPT !.exact = FALSE], "none")),
   Asked(Do("PUT", OneUser, "broken")), Asked(Do("PATCH", OneUser, "wrong")),
   Asked(Do("POST", Path("bulk", ""), "wrong"))}

MCServed ==
  {Asked(Create), Asked(Do("GET", Users, "wrong")), Asked(Do("GET", OneUser, "none"))}

MCBulks ==
  {BulkOf(<<Do("PATCH", OneUser, "wrong"), Remove, Do("PUT", Users, "none")>>, 2),
   BulkOf(<<Create, Do("PATCH", OneUser, "good")>>, 1),
   BulkOf(<<Do("PUT", OneUser, "good"), Do("POST", Nil, "good"), Do("POST", Users, "none")>>, 0),
   BulkOf(<<Do("POST", Path("bulk", ""), "wrong"), Create>>, 0),
   BulkOf([n \in 1 .. 4 |-> Do("PUT", Users, "none")], 0)}

MCRequests == MCRefused \cup MCServed \cup MCBulks

=============================================================================
