----------------------------- MODULE ScimClient -----------------------------
(***************************************************************************)
(* connector/scim/client.go: the store that forwards its six methods to    *)
(* another SCIM server over HTTP.  Goroutine p makes one request after the *)
(* other (do), again after a 429, at most MaxRetries times more.  The      *)
(* network loses requests and answers, the client stops waiting, and a     *)
(* request it no longer waits for may still reach the server.              *)
(*   idle   no call                ready     about to send an attempt      *)
(*   sent   HTTPClient.Do waits    answered  do has a response to look at  *)
(*   wait   between two attempts   done      the method returns            *)
(* The upstream server is external: any server that answers as RFC 7644    *)
(* says, may refuse, limit the rate, and fail after it has acted.          *)
(***************************************************************************)
EXTENDS Integers, Sequences, FiniteSets

CONSTANTS
  Procs,       \* goroutines that call the store
  Ids,         \* resources of the upstream server
  Values,      \* contents of a resource
  Requests,    \* the calls they make
  MaxRetries,
  MaxCalls,    \* bound on the number of calls
  Nil

Calls == 1 .. MaxCalls

\* List's filter and page do not influence what happens to the request.
RequestType ==
  [op : {"Create", "Get", "List", "Replace", "Patch", "Delete"}, id : Ids \cup {Nil},
   value : Values \cup {Nil}]

ASSUME RequestsAssumption ==
  /\ Requests \subseteq RequestType
  /\ \A r \in Requests : r.op \in {"Get", "Replace", "Patch", "Delete"} => r.id \in Ids
  /\ \A r \in Requests : r.op \in {"Create", "Replace", "Patch"} => r.value \in Values
ASSUME BoundsAssumption == MaxRetries \in Nat /\ MaxCalls \in Nat
ASSUME NilAssumption == Nil \notin Ids \cup Values \cup Requests

VARIABLES
  db,        \* the upstream server's resources
  net,       \* requests on their way
  phase,
  req,       \* arguments of the call
  call,      \* its number
  method,    \* of the HTTP request do is working on
  attempt,   \* of do's loop
  reply,     \* response received
  result,    \* outcome of the call
  last,      \* history: number of the last call
  asked,     \* history: call -> its arguments
  performed, \* history: call -> times the upstream server performed it
  followed,  \* history: calls whose PATCH was answered 204
  ended      \* history: call -> outcome

upstream == <<db, net, performed>>
loop     == <<method, attempt>>
history  == <<last, asked, followed, ended>>
vars == <<upstream, phase, req, call, loop, reply, result, history>>

Init ==
  /\ db = [i \in Ids |-> Nil]
  /\ net = {}
  /\ phase = [p \in Procs |-> "idle"]
  /\ req = [p \in Procs |-> Nil]
  /\ call = [p \in Procs |-> 0]
  /\ method = [p \in Procs |-> Nil]
  /\ attempt = [p \in Procs |-> 0]
  /\ reply = [p \in Procs |-> Nil]
  /\ result = [p \in Procs |-> "none"]
  /\ last = 0
  /\ asked = [c \in Calls |-> Nil]
  /\ performed = [c \in Calls |-> 0]
  /\ followed = {}
  /\ ended = [c \in Calls |-> "none"]

-----------------------------------------------------------------------------
(* The client.                                                              *)

MethodOf(op) ==
  CASE op = "Create" -> "POST" [] op = "Replace" -> "PUT" [] op = "Patch" -> "PATCH"
    [] op = "Delete" -> "DELETE" [] OTHER -> "GET"

\* do starts over with the request m.
Begin(p, m) ==
  /\ method' = [method EXCEPT ![p] = m]
  /\ attempt' = [attempt EXCEPT ![p] = 0]
  /\ phase' = [phase EXCEPT ![p] = "ready"]

Call(p) ==
  /\ phase[p] = "idle"
  /\ last < MaxCalls
  /\ last' = last + 1
  /\ call' = [call EXCEPT ![p] = last + 1]
  /\ \E r \in Requests :
       /\ req' = [req EXCEPT ![p] = r]
       /\ asked' = [asked EXCEPT ![last + 1] = r]
       /\ Begin(p, MethodOf(r.op))
  /\ UNCHANGED <<upstream, reply, result, followed, ended>>

\* Mutant: the body is not put back before an attempt; the first one used it up.
BodyOnce(p) == IF method[p] \in {"POST", "PUT", "PATCH"} /\ attempt[p] = 0 THEN req[p].value ELSE Nil

\* req.Body, put back from bodyBytes before each attempt.
Body(p) == IF method[p] \in {"POST", "PUT", "PATCH"} THEN req[p].value ELSE Nil

Message(p) ==
  [from |-> p, call |-> call[p], method |-> method[p], id |-> req[p].id, body |-> Body(p)]

\* HTTPClient.Do, whose request may get lost at once.
Send(p) ==
  /\ phase[p] = "ready"
  /\ phase' = [phase EXCEPT ![p] = "sent"]
  /\ net' \in {net, net \cup {Message(p)}}
  /\ UNCHANGED <<db, performed, req, call, loop, reply, result, history>>

\* The method returns s.
Finish(p, s) ==
  /\ phase' = [phase EXCEPT ![p] = "done"]
  /\ result' = [result EXCEPT ![p] = s]
  /\ ended' = [ended EXCEPT ![call[p]] = s]
  /\ reply' = [reply EXCEPT ![p] = Nil]
  /\ UNCHANGED <<upstream, req, call, last, asked>>

\* Mutant: a request whose answer did not come is sent again.
GiveUpAndRetry(p) ==
  /\ phase[p] = "sent"
  /\ IF attempt[p] = MaxRetries
     THEN Finish(p, "internal") /\ UNCHANGED <<loop, followed>>
     ELSE /\ phase' = [phase EXCEPT ![p] = "ready"]
          /\ attempt' = [attempt EXCEPT ![p] = @ + 1]
          /\ UNCHANGED <<upstream, req, call, method, reply, result, history>>

\* Mutant: the context's error is returned as it is.
GiveUpCancelled(p) ==
  /\ phase[p] = "sent"
  /\ Finish(p, "cancelled")
  /\ UNCHANGED <<loop, followed>>

\* Mutant: an http.Client without timeout notices only that the request is lost.
NoTimeout(p) ==
  /\ phase[p] = "sent"
  /\ \A m \in net : m.from # p
  /\ Finish(p, "internal")
  /\ UNCHANGED <<loop, followed>>

\* HTTPClient.Do fails: no connection, no answer within its timeout, or the
\* caller's context is over.  The request may be on its way all the same.
GiveUp(p) ==
  /\ phase[p] = "sent"
  /\ Finish(p, "internal")
  /\ UNCHANGED <<loop, followed>>

Limited(p) == phase[p] = "answered" /\ reply[p].status = 429

RetriesExhausted(p) ==
  /\ Limited(p)
  /\ attempt[p] = MaxRetries
  /\ Finish(p, "internal")
  /\ UNCHANGED <<loop, followed>>

\* Mutant: one attempt too many.
LastAttemptForgotten(p) == Limited(p)

MayRetry(p) == Limited(p) /\ attempt[p] < MaxRetries

\* The wait lasts as long as Retry-After says, or doubles from 0.5 s.
Wait(p) ==
  /\ MayRetry(p)
  /\ phase' = [phase EXCEPT ![p] = "wait"]
  /\ reply' = [reply EXCEPT ![p] = Nil]
  /\ UNCHANGED <<upstream, req, call, method, attempt, result, history>>

Retry(p) ==
  /\ phase[p] = "wait"
  /\ attempt' = [attempt EXCEPT ![p] = @ + 1]
  /\ phase' = [phase EXCEPT ![p] = "ready"]
  /\ UNCHANGED <<upstream, req, call, method, reply, result, history>>

\* The caller's context ends during the wait.
Cancelled(p) ==
  /\ phase[p] = "wait"
  /\ Finish(p, "cancelled")
  /\ UNCHANGED <<loop, followed>>

Named == {"invalidFilter", "invalidPath", "noTarget"}

\* The store error a status stands for.
MapHTTPError(r) ==
  CASE r.status = 404 -> "notFound"
    [] r.status = 409 -> "conflict"
    [] r.status = 400 /\ r.type \in Named -> r.type
    [] OTHER -> "internal"

Success(m) == IF m = "POST" THEN 201 ELSE IF m = "DELETE" THEN 204 ELSE 200

\* Mutant: a DELETE that finds nothing counts as done.
DecodedIdempotent(p) ==
  IF reply[p].status \notin {Success(method[p]), 404} THEN MapHTTPError(reply[p])
  ELSE IF method[p] # "DELETE" /\ reply[p].garbled THEN "internal" ELSE "ok"

\* A body that does not decode makes the call fail, performed or not.
Decoded(p) ==
  IF reply[p].status # Success(method[p]) THEN MapHTTPError(reply[p])
  ELSE IF method[p] # "DELETE" /\ reply[p].garbled THEN "internal" ELSE "ok"

\* A PATCH answered without a body: the resource is read in a second request.
NoContent(p) == method[p] = "PATCH" /\ reply[p].status = 204

ReadBack(p) ==
  /\ phase[p] = "answered" /\ NoContent(p)
  /\ Begin(p, "GET")
  /\ followed' = followed \cup {call[p]}
  /\ reply' = [reply EXCEPT ![p] = Nil]
  /\ UNCHANGED <<upstream, req, call, result, last, asked, ended>>

Answer(p) ==
  /\ phase[p] = "answered" /\ ~ Limited(p) /\ ~ NoContent(p)
  /\ Finish(p, Decoded(p))
  /\ UNCHANGED <<loop, followed>>

Return(p) ==
  /\ phase[p] = "done"
  /\ phase' = [phase EXCEPT ![p] = "idle"]
  /\ req' = [req EXCEPT ![p] = Nil]
  /\ call' = [call EXCEPT ![p] = 0]
  /\ method' = [method EXCEPT ![p] = Nil]
  /\ attempt' = [attempt EXCEPT ![p] = 0]
  /\ result' = [result EXCEPT ![p] = "none"]
  /\ UNCHANGED <<upstream, reply, history>>

-----------------------------------------------------------------------------
(* The upstream server and the network between.                             *)

Response(s, t, g) == [status |-> s, type |-> t, garbled |-> g]

Awaited(m) == phase[m.from] = "sent" /\ call[m.from] = m.call /\ method[m.from] = m.method

\* The server is done with m; its answer r arrives, or it does not.
Respond(m, r) ==
  /\ net' = net \ {m}
  /\ \/ UNCHANGED <<phase, reply>>
     \/ /\ Awaited(m)
        /\ phase' = [phase EXCEPT ![m.from] = "answered"]
        /\ reply' = [reply EXCEPT ![m.from] = r]
  /\ UNCHANGED <<req, call, loop, result, history>>

Refusals ==
  {Response(400, t, FALSE) : t \in Named \cup {"invalidSyntax"}}
  \cup {Response(s, Nil, FALSE) : s \in {403, 409, 429}}

\* Refused before anything was done.
Refuse(m) ==
  /\ \E r \in Refusals : Respond(m, r)
  /\ UNCHANGED <<db, performed>>

Answers(s) == {Response(s, Nil, g) : g \in BOOLEAN} \cup {Response(500, Nil, FALSE)}

Change(m, i, v, answers) ==
  /\ db' = [db EXCEPT ![i] = v]
  /\ performed' = [performed EXCEPT ![m.call] = @ + 1]
  /\ \E r \in answers : Respond(m, r)

\* Performed, and answered with success, with no content, or with an error that
\* came up afterwards.
Perform(m) ==
  \/ \E i \in Ids :
       m.method = "POST" /\ db[i] = Nil /\ Change(m, i, m.body, Answers(201))
  \/ /\ m.method = "PUT" /\ db[m.id] # Nil
     /\ Change(m, m.id, m.body, Answers(200))
  \/ /\ m.method = "PATCH" /\ db[m.id] # Nil
     /\ Change(m, m.id, m.body, Answers(200) \cup {Response(204, Nil, FALSE)})
  \/ /\ m.method = "DELETE" /\ db[m.id] # Nil
     /\ Change(m, m.id, Nil, Answers(204))
  \/ /\ m.method = "GET" /\ (m.id # Nil => db[m.id] # Nil)
     /\ \E r \in Answers(200) : Respond(m, r)
     /\ UNCHANGED <<db, performed>>
  \/ /\ m.id # Nil /\ db[m.id] = Nil
     /\ Respond(m, Response(404, Nil, FALSE))
     /\ UNCHANGED <<db, performed>>

\* What a goroutine does by itself.
Step(p) ==
  \/ Send(p) \/ GiveUp(p) \/ RetriesExhausted(p) \/ Wait(p) \/ Retry(p) \/ Cancelled(p)
  \/ ReadBack(p) \/ Answer(p) \/ Return(p)

Next == \/ \E p \in Procs : Call(p) \/ Step(p)
        \/ \E m \in net : Refuse(m) \/ Perform(m)

Spec == Init /\ [][Next]_vars

\* Goroutines run, timers fire, HTTPClient.Timeout (30 s unless configured)
\* ends a request nobody answers.  Nothing is assumed of the server.
FairSpec == Spec /\ \A p \in Procs : WF_vars(Step(p))

-----------------------------------------------------------------------------
(* Properties.                                                              *)

\* Type invariant; the number of attempts of do's loop stays within
\* MaxRetries + 1.
TypeOK ==
  /\ db \in [Ids -> Values \cup {Nil}]
  /\ \A m \in net : m.from \in Procs /\ m.call \in Calls /\ m.body \in Values \cup {Nil}
  /\ phase \in [Procs -> {"idle", "ready", "sent", "answered", "wait", "done"}]
  /\ req \in [Procs -> Requests \cup {Nil}]
  /\ call \in [Procs -> Calls \cup {0}]
  /\ attempt \in [Procs -> 0 .. MaxRetries]
  /\ result \in [Procs -> {"none", "ok", "internal", "cancelled", "notFound", "conflict"} \cup Named]
  /\ performed \in [Calls -> Nat]
  /\ followed \subseteq Calls
  /\ last \in 0 .. MaxCalls

\* However often a call is sent, limited, given up and answered late, the
\* upstream server performs it at most once: do repeats a request only when the
\* answer says that it was not performed.
AtMostOnce == \A c \in Calls : performed[c] <= 1

Mutations == {"Create", "Replace", "Patch", "Delete"}

\* Outcomes that tell the caller what happened.
Definite == {"notFound", "conflict", "cancelled"} \cup Named

\* A call that succeeded was performed, and one that failed with anything but
\* ErrInternal was not and never will be, not even by a request still on its
\* way.  Excepted is a PATCH that was answered 204: it was performed, and its
\* outcome is that of the GET which followed (Patch, case StatusNoContent).
OutcomeIsTrue ==
  \A c \in Calls :
    ended[c] # "none" /\ asked[c].op \in Mutations =>
      /\ ended[c] = "ok" => performed[c] = 1
      /\ ended[c] \in Definite => performed[c] = IF c \in followed THEN 1 ELSE 0

\* Each change upstream is the whole of what one call asked for: the body is
\* complete on every attempt (do's bodyBytes) and goes to the right resource.
Forwarded ==
  [][db' # db =>
       \E c \in Calls, i \in Ids :
         /\ performed'[c] = performed[c] + 1
         /\ asked[c].op # "Create" => i = asked[c].id
         /\ db' = [db EXCEPT ![i] = IF asked[c].op = "Delete" THEN Nil ELSE asked[c].value]]_vars

\* Every call comes back, whatever the server does (timeout and retry bound).
CallEnds == \A p \in Procs : phase[p] # "idle" ~> phase[p] = "idle"

=============================================================================
