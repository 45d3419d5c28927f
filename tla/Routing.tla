------------------------------- MODULE Routing -------------------------------
(***************************************************************************)
(* Which handler a request gets: the router of server/server.go and the    *)
(* discovery handlers of server/discovery.go.  A path is its first segment *)
(* in lower case, what follows it, how it starts (with the base path and a *)
(* slash, with the base path glued to the next letter, or without it), and *)
(* whether the first segment is spelled as in the specification or in      *)
(* other letter case.                                                      *)
(***************************************************************************)
CONSTANTS
  Endpoints,   \* first segments of the registered resource types
  Unknown      \* first segments nothing is registered for

Discovery == {"serviceproviderconfig", "resourcetypes", "schemas"}
Words == {"", "bulk", ".search"} \cup Discovery \cup Endpoints \cup Unknown

\* "" is the collection itself, "id" a resource, "alien" something unregistered.
Rests == {"", ".search", "id", "alien"}
Methods == {"GET", "POST", "PUT", "PATCH", "DELETE"}

Paths == [base : {"slash", "glued", "absent"}, word : Words, exact : BOOLEAN, rest : Rests]

ASSUME EndpointsAssumption == Endpoints \cap ({"", "bulk", ".search"} \cup Discovery \cup Unknown) = {}

Refused(status) == [to |-> "nobody", status |-> status]
To(handler) == [to |-> handler, status |-> 0]

\* Handlers by method.
Described == [GET |-> "Discovery"]
Bulks == [POST |-> "Bulk"]
Collection == [GET |-> "List", POST |-> "Create"]
Search == [POST |-> "List"]
Item == [GET |-> "Get", PUT |-> "Replace", PATCH |-> "Patch", DELETE |-> "Delete"]

Handlers(path) ==
  IF path.word \in Discovery THEN Described
  ELSE IF path.word = "bulk" THEN Bulks
  ELSE IF path.rest = "" THEN Collection
  ELSE IF path.rest = ".search" THEN Search
  ELSE Item

\* TrimPrefix with the base path must have removed something.
Served(path) == path.base # "absent" /\ path.word \in Discovery \cup {"bulk"} \cup Endpoints

Route(method, path) ==
  IF ~ Served(path) THEN Refused(404)
  ELSE IF method \notin DOMAIN Handlers(path) THEN Refused(405)
  ELSE To(Handlers(path)[method])

\* The discovery handlers strip the prefix again, in its exact spelling; a path
\* in other letter case is looked up whole, and not found.
DiscoveryStatus(path) ==
  IF path.word = "serviceproviderconfig" THEN 200
  ELSE IF path.exact /\ path.base = "slash" /\ path.rest \in {"", "id"} THEN 200
  ELSE 404

=============================================================================
