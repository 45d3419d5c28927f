-------------------------------- MODULE Server --------------------------------
(***************************************************************************)
(* server/: a request from the middleware to the answer, the operations of *)
(* a bulk request one after the other, the audit log, and cmd/serve: how   *)
(* the server is shut down while requests are under way.  Goroutine p has  *)
(* one request at a time:                                                  *)
(*   idle    no request         screen   in the middleware                 *)
(*   op      operation k[p] is about to be dispatched (0: the request)     *)
(*   store   a call of the store                                           *)
(*   audit   it has returned, nothing is recorded yet                      *)
(*   sent    the answer is written                                         *)
(* A call of the store returns, fails before or after it acted, panics in  *)
(* an application's hook, or never returns; the other modules say when.    *)
(***************************************************************************)
EXTENDS Routing, Integers, Sequences, FiniteSets

CONSTANTS
  Procs,       \* goroutines of net/http
  Requests,
  MaxBulkOps,
  Hooked,      \* the store has hooks, which may refuse a change or panic
  Relays,      \* the store is the proxy: it relays the upstream's 400, 404, 409
  CloseWaits,  \* Close waits for running calls (pgxpool, database/sql)
  Nil

\* body: absent, not a JSON object, an object of the wrong shape (also: a filter
\* that does not parse), or what the operation wants.
Bodies == {"none", "broken", "wrong", "good"}
Operation == [method : Methods, path : Paths \cup {Nil}, body : Bodies]

\* No bulk operation is a bulk request that handleBulk accepts; refused ones may
\* occur.
ASSUME ServerAssumption ==
  /\ MaxBulkOps \in Nat
  /\ Hooked \in BOOLEAN /\ Relays \in BOOLEAN /\ CloseWaits \in BOOLEAN
  /\ \A r \in Requests :
       /\ r.acceptable \in BOOLEAN /\ r.media \in BOOLEAN
       /\ r.auth \in {"ok", "denied", "error"}
       /\ r.op \in Operation /\ r.op.path # Nil
       /\ r.fail \in Nat
       /\ r.ops \in Seq(Operation)
       /\ \A k \in DOMAIN r.ops :
            /\ r.ops[k].method # "GET"
            /\ r.ops[k].path # Nil /\ Route(r.ops[k].method, r.ops[k].path).to = "Bulk" =>
                 r.ops[k].body # "good"
  /\ Nil \notin Requests \cup Paths

VARIABLES
  life,      \* of the process
  expired,   \* ShutdownTimeout has passed
  pc,
  req,
  k,         \* operation at hand, 0 for the request itself
  status,    \* of the operation whose store call has returned
  results,   \* statuses of the bulk operations in the answer
  answer,    \* status of the answer
  performed, \* history: operations that changed the store
  panicked,  \* history: the request ended in recoveryMiddleware
  trail,     \* audit records of the request
  lost       \* history: operations whose record Log could not write

request == <<req, k, status, results, answer, performed, panicked, trail, lost>>
vars == <<life, expired, pc, request>>

Init ==
  /\ life = "serving"
  /\ expired = FALSE
  /\ pc = [p \in Procs |-> "idle"]
  /\ req = [p \in Procs |-> Nil]
  /\ k = [p \in Procs |-> 0]
  /\ status = [p \in Procs |-> 0]
  /\ results = [p \in Procs |-> <<>>]
  /\ answer = [p \in Procs |-> 0]
  /\ performed = [p \in Procs |-> {}]
  /\ panicked = [p \in Procs |-> FALSE]
  /\ trail = [p \in Procs |-> <<>>]
  /\ lost = [p \in Procs |-> {}]

-----------------------------------------------------------------------------
(* Answers.                                                                 *)

Go(p, where) == pc' = [pc EXCEPT ![p] = where]

\* The operation at hand; one of a bulk request goes to the router directly.
Op(p) == IF k[p] = 0 THEN req[p].op ELSE req[p].ops[k[p]]

\* The handler of the operation at hand; a bulk operation must have a path.
Routed(p) == IF Op(p).path = Nil THEN Refused(400) ELSE Route(Op(p).method, Op(p).path)

Sends(p, s) ==
  /\ answer' = [answer EXCEPT ![p] = s]
  /\ Go(p, "sent")

Failed(s) == s >= 300
Failures(rs) == Cardinality({n \in DOMAIN rs : Failed(rs[n])})

\* Mutant: one failure too many.
StopsLate(p, rs) == req[p].fail > 0 /\ Failures(rs) > req[p].fail

Stops(p, rs) == req[p].fail > 0 /\ Failures(rs) >= req[p].fail

\* Mutant: an operation that failed gets no entry.
EnterSuccess(p, s) == IF Failed(s) THEN results[p] ELSE Append(results[p], s)

Enter(p, s) == Append(results[p], s)

\* The operation at hand is over with status s: it is the answer, or an entry of
\* the bulk answer.
Respond(p, s) ==
  IF k[p] = 0
  THEN Sends(p, s) /\ UNCHANGED <<results, k>>
  ELSE LET rs == Enter(p, s)
       IN  /\ results' = [results EXCEPT ![p] = rs]
           /\ IF Stops(p, rs) \/ k[p] = Len(req[p].ops)
              THEN Sends(p, 200) /\ UNCHANGED k
              ELSE Go(p, "op") /\ k' = [k EXCEPT ![p] = @ + 1] /\ UNCHANGED answer

\* recoveryMiddleware: what the handlers had collected is lost.
Panic(p) ==
  /\ Sends(p, 500)
  /\ results' = [results EXCEPT ![p] = <<>>]
  /\ panicked' = [panicked EXCEPT ![p] = TRUE]
  /\ UNCHANGED <<life, expired, req, k, status, trail, lost>>

-----------------------------------------------------------------------------
(* A request.                                                               *)

Receive(p) ==
  /\ life = "serving" /\ pc[p] = "idle"
  /\ \E r \in Requests : req' = [req EXCEPT ![p] = r]
  /\ Go(p, "screen")
  /\ UNCHANGED <<life, expired, k, status, results, answer, performed, panicked, trail, lost>>

\* Content negotiation, media type, authentication, in this order.
Refusal(r) ==
  IF ~ r.acceptable THEN 406
  ELSE IF r.op.method \in {"POST", "PUT", "PATCH"} /\ ~ r.media THEN 415
  ELSE IF r.auth = "error" THEN 500
  ELSE IF r.auth = "denied" THEN 401
  ELSE 0

Screen(p) ==
  /\ pc[p] = "screen"
  /\ IF Refusal(req[p]) # 0
     THEN Sends(p, Refusal(req[p]))
     ELSE Go(p, "op") /\ UNCHANGED answer
  /\ UNCHANGED <<life, expired, req, k, status, results, performed, panicked, trail, lost>>

Reads == {"Create", "Replace", "Patch", "Bulk"}   \* the body

\* Decoding the nil body of a bulk operation without data.
NilBody(p) ==
  /\ k[p] # 0 /\ Op(p).body = "none"
  /\ Routed(p).to \in Reads

\* The status with which a handler refuses an operation unrecorded, or 0.
Unrecorded(p) ==
  IF Routed(p).to = "nobody" THEN Routed(p).status
  ELSE IF Routed(p).to = "Discovery" THEN DiscoveryStatus(Op(p).path)
  ELSE IF Routed(p).to \in Reads /\ Op(p).body \in {"none", "broken"} THEN 400
  ELSE IF Routed(p).to = "Bulk" /\ Op(p).body = "wrong" THEN 400
  ELSE 0

\* Refused after parsing, with a record: a patch, a filter.
Recorded(p) == Op(p).body = "wrong" /\ Routed(p).to \in {"Patch", "List"}

Dispatch(p) ==
  /\ pc[p] = "op" /\ Routed(p).to # "Bulk" /\ ~ NilBody(p)
  /\ \/ /\ Unrecorded(p) # 0
        /\ Respond(p, Unrecorded(p))
        /\ UNCHANGED status
     \/ /\ Unrecorded(p) = 0
        /\ IF Recorded(p)
           THEN status' = [status EXCEPT ![p] = 400] /\ Go(p, "audit")
           ELSE Go(p, "store") /\ UNCHANGED status
        /\ UNCHANGED <<k, results, answer>>
  /\ UNCHANGED <<life, expired, req, performed, panicked, trail, lost>>

DispatchPanics(p) ==
  /\ pc[p] = "op" /\ NilBody(p)
  /\ Panic(p)
  /\ UNCHANGED performed

\* Mutant: one operation too many.
TooManyByOne(p) == MaxBulkOps > 0 /\ Len(req[p].ops) > MaxBulkOps + 1

TooMany(p) == MaxBulkOps > 0 /\ Len(req[p].ops) > MaxBulkOps

\* handleBulk up to its loop.
Bulk(p) ==
  /\ pc[p] = "op" /\ Routed(p).to = "Bulk" /\ ~ NilBody(p)
  /\ IF Unrecorded(p) # 0 THEN Respond(p, Unrecorded(p))
     ELSE IF TooMany(p) THEN Respond(p, 413)
     ELSE IF req[p].ops = <<>> THEN Respond(p, 200)
     ELSE k' = [k EXCEPT ![p] = 1] /\ UNCHANGED <<pc, results, answer>>
  /\ UNCHANGED <<life, expired, req, status, performed, panicked, trail, lost>>

Mutations == {"Create", "Replace", "Patch", "Delete"}
Success(op) == CASE op = "Create" -> 201 [] op = "Delete" -> 204 [] OTHER -> 200

\* ErrorFromStoreError, but for internal errors: what the store itself reports,
\* what a hook refuses with, and what mapHTTPError takes from the upstream.
Own(to) ==
  CASE to = "Create" -> {409}
    [] to = "Replace" -> {404, 409}
    [] to = "Patch" -> {400, 404, 409}
    [] to = "List" -> {}
    [] OTHER -> {404}

Relayed == {400, 404, 409}

Errors(to) ==
  Own(to) \cup {s \in Relayed \cup {413} : Hooked /\ to \in Mutations}
          \cup {s \in Relayed : Relays}

\* ScimClient's Patch: a PATCH answered 204 is followed by a GET, and what the
\* GET is answered is the answer.
ReadsBack(to) == Relays /\ to = "Patch"

\* performed, once the operation at hand has changed the store.
Changed(p) ==
  [performed EXCEPT ![p] = @ \cup {n \in {k[p]} : Routed(p).to \in Mutations}]

\* An internal error may come up after the change was made.
StoreReturns(p) ==
  /\ pc[p] = "store"
  /\ \/ /\ life # "closed"
        /\ status' = [status EXCEPT ![p] = Success(Routed(p).to)]
        /\ performed' = Changed(p)
     \/ /\ life # "closed"
        /\ \E s \in Errors(Routed(p).to) :
             /\ status' = [status EXCEPT ![p] = s]
             /\ \/ UNCHANGED performed
                \/ ReadsBack(Routed(p).to) /\ s \in Relayed /\ performed' = Changed(p)
     \/ /\ status' = [status EXCEPT ![p] = 500]
        /\ performed' \in {performed, Changed(p)}
  /\ Go(p, "audit")
  /\ UNCHANGED <<life, expired, req, k, results, answer, panicked, trail, lost>>

\* A hook panics, before the change or after it; a store whose pool Close has set
\* to nil panics, too.
StorePanics(p) ==
  /\ pc[p] = "store"
  /\ Panic(p)
  /\ \/ Hooked /\ performed' \in {performed, Changed(p)}
     \/ CloseWaits /\ life = "closed" /\ UNCHANGED performed

\* Mutant: errors leave no record.
RecordSuccess(p) == IF Failed(status[p]) THEN trail[p] ELSE Append(trail[p], <<k[p], status[p]>>)

Record(p) == Append(trail[p], <<k[p], status[p]>>)

\* logAudit, which drops the error of a Log that could not write, then the answer.
Audit(p) ==
  /\ pc[p] = "audit"
  /\ \/ trail' = [trail EXCEPT ![p] = Record(p)] /\ UNCHANGED lost
     \/ lost' = [lost EXCEPT ![p] = @ \cup {k[p]}] /\ UNCHANGED trail
  /\ Respond(p, status[p])
  /\ UNCHANGED <<life, expired, req, status, performed, panicked>>

Done(p) ==
  /\ pc[p] = "sent"
  /\ Go(p, "idle")
  /\ req' = [req EXCEPT ![p] = Nil]
  /\ k' = [k EXCEPT ![p] = 0]
  /\ status' = [status EXCEPT ![p] = 0]
  /\ results' = [results EXCEPT ![p] = <<>>]
  /\ answer' = [answer EXCEPT ![p] = 0]
  /\ performed' = [performed EXCEPT ![p] = {}]
  /\ panicked' = [panicked EXCEPT ![p] = FALSE]
  /\ trail' = [trail EXCEPT ![p] = <<>>]
  /\ lost' = [lost EXCEPT ![p] = {}]
  /\ UNCHANGED <<life, expired>>

Handler(p) == Screen(p) \/ Dispatch(p) \/ DispatchPanics(p) \/ Bulk(p) \/ Audit(p) \/ Done(p)

-----------------------------------------------------------------------------
(* The process, cmd/serve/root.go.                                          *)

Becomes(l) == life' = l /\ UNCHANGED <<pc, request>>

\* SIGINT or SIGTERM.
Signal == life = "serving" /\ Becomes("draining") /\ UNCHANGED expired

\* ListenAndServe returns an error: the process ends, the store is not closed.
ListenFails == life = "serving" /\ Becomes("exited") /\ UNCHANGED expired

Expire == life = "draining" /\ expired' = TRUE /\ UNCHANGED <<life, pc, request>>

\* Mutant: http.Server.Close in place of Shutdown.
NotWaited == TRUE

\* Mutant: Shutdown with a context that has no deadline.
Undeadlined == \A p \in Procs : pc[p] = "idle"

\* http.Server.Shutdown returns: no request left, or its time is up.
Drained == expired \/ \A p \in Procs : pc[p] = "idle"

Shutdown == life = "draining" /\ Drained /\ Becomes("closing") /\ UNCHANGED expired

\* closeStore.Close; pgxpool and database/sql ignore the deadline.
CloseStore ==
  /\ life = "closing"
  /\ CloseWaits => \A p \in Procs : pc[p] # "store"
  /\ Becomes("closed")
  /\ UNCHANGED expired

Exit == life = "closed" /\ Becomes("exited") /\ UNCHANGED expired

Process == Signal \/ ListenFails \/ Expire \/ Shutdown \/ CloseStore \/ Exit

Next ==
  \/ Process
  \/ /\ life # "exited"
     /\ \E p \in Procs : Receive(p) \/ Handler(p) \/ StoreReturns(p) \/ StorePanics(p)

Spec == Init /\ [][Next]_vars

\* The process and its handlers go on; a signal need not come and a call of the
\* store need not return.
Fairness ==
  /\ WF_vars(Expire) /\ WF_vars(Shutdown) /\ WF_vars(CloseStore) /\ WF_vars(Exit)
  /\ \A p \in Procs : WF_vars(life # "exited" /\ Handler(p))

FairSpec == Spec /\ Fairness

-----------------------------------------------------------------------------
(* Properties.                                                              *)

Statuses == {0, 200, 201, 204, 400, 401, 404, 405, 406, 409, 413, 415, 500}

\* Type invariant; no bulk answer has more entries than MaxBulkOps.
TypeOK ==
  /\ life \in {"serving", "draining", "closing", "closed", "exited"}
  /\ expired \in BOOLEAN
  /\ pc \in [Procs -> {"idle", "screen", "op", "store", "audit", "sent"}]
  /\ req \in [Procs -> Requests \cup {Nil}]
  /\ k \in [Procs -> Nat]
  /\ status \in [Procs -> Statuses] /\ answer \in [Procs -> Statuses]
  /\ \A p \in Procs :
       /\ \A n \in DOMAIN results[p] : results[p][n] \in Statuses \ {0}
       /\ MaxBulkOps > 0 => Len(results[p]) <= MaxBulkOps
       /\ performed[p] \subseteq Nat

\* What the client was told about operation n: its entry of a bulk answer, the
\* answer itself, or nothing (0).
Told(p, n) ==
  IF n = 0 THEN answer[p] ELSE IF n \in DOMAIN results[p] THEN results[p][n] ELSE 0

\* A bulk request performs nothing after its failOnErrors-th failure (RFC 7644
\* section 3.7), and everything before it: the operations that were performed and
\* the entries of the answer stop at the same place.
BulkStops ==
  \A p \in Procs : pc[p] = "sent" /\ k[p] > 0 /\ ~ panicked[p] =>
    LET before == SubSeq(results[p], 1, Len(results[p]) - 1)
    IN  /\ ~ (req[p].fail > 0 /\ Failures(before) >= req[p].fail)
        /\ \/ Len(results[p]) = Len(req[p].ops)
           \/ req[p].fail > 0 /\ Failures(results[p]) = req[p].fail
        /\ \A n \in performed[p] : n <= Len(results[p])

Target(op) == IF op.path = Nil THEN "nobody" ELSE Route(op.method, op.path).to

\* Status s of an operation for this handler leaves open whether it was performed:
\* an internal error, or the answer to the GET after a PATCH.
Unsure(to, s) == s = 500 \/ (ReadsBack(to) /\ s \in Relayed)

\* The answer tells what happened: an operation answered with success was
\* performed, one refused with a 4xx was not, one that is not mentioned was not.
\* After 500 the client cannot know, nor after an error of a PATCH through the
\* proxy; a panic takes the entries with it.
AnswerTells ==
  \A p \in Procs : pc[p] = "sent" /\ ~ panicked[p] =>
    \A n \in 0 .. Len(req[p].ops) :
      LET to == Target(IF n = 0 THEN req[p].op ELSE req[p].ops[n])
      IN  /\ Told(p, n) \in 200 .. 299 /\ to \in Mutations => n \in performed[p]
          /\ Told(p, n) \notin 200 .. 299 /\ ~ Unsure(to, Told(p, n)) => n \notin performed[p]

\* When the answer is written, the audit log has a record of each operation that
\* was performed, unless Log failed to write this very one; each record is true
\* to the client's answer, there is one an operation, in their order.  Excepted
\* is a panic.
AuditTells ==
  \A p \in Procs : pc[p] = "sent" /\ ~ panicked[p] =>
    /\ \A n \in performed[p] \ lost[p] : \E i \in DOMAIN trail[p] : trail[p][i][1] = n
    /\ \A i \in DOMAIN trail[p] : trail[p][i][2] = Told(p, trail[p][i][1])
    /\ \A i, j \in DOMAIN trail[p] : i < j => trail[p][i][1] < trail[p][j][1]

\* A signal cuts no request off: unless ShutdownTimeout has passed, the store is
\* closed when nobody uses it any more.
NoCutOff == life \in {"closing", "closed"} /\ ~ expired => \A p \in Procs : pc[p] = "idle"

\* A signal ends the process, whatever the requests do, unless Close waits for
\* ever for a call of the store that does not return.
ShutdownEnds ==
  life = "draining" ~>
    (life = "exited" \/ [](CloseWaits /\ life = "closing" /\ \E p \in Procs : pc[p] = "store"))

=============================================================================
