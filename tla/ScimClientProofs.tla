-------------------------- MODULE ScimClientProofs --------------------------
(***************************************************************************)
(* Proofs about ScimClient for every set of goroutines, resources and      *)
(* requests, every number of calls and every bound on the retries.         *)
(***************************************************************************)
EXTENDS ScimClient, TLAPS

-----------------------------------------------------------------------------
(* The inductive invariant.                                                 *)

Methods == {"POST", "PUT", "PATCH", "DELETE", "GET"}
Outcomes == {"none", "ok", "internal", "cancelled", "notFound", "conflict"} \cup Named
Done == {200, 201, 204}              \* statuses of what was performed
Undone == {400, 403, 404, 409, 429}  \* and of what was not
IsResponse(r) ==
  /\ r.status \in Done \cup Undone \cup {500}
  /\ r.type \in Named \cup {"invalidSyntax", Nil}
Messages == [from : Procs, call : Calls, method : Methods, id : Ids \cup {Nil},
             body : Values \cup {Nil}]

\* What TypeOK leaves open.
Types ==
  /\ net \subseteq Messages
  /\ method \in [Procs -> Methods \cup {Nil}]
  /\ reply = [p \in Procs |-> reply[p]]
  /\ asked \in [Calls -> Requests \cup {Nil}]
  /\ ended \in [Calls -> Outcomes]
  /\ performed \in [Calls -> {0, 1}]

\* Nothing has happened, and nothing will, of the calls to come.
Later == \A c \in Calls : c > last => performed[c] = 0 /\ ended[c] = "none" /\ c \notin followed

\* No request is under way that might change something for call c.
Settled(c) == \A m \in net : m.call = c => m.method = "GET"

\* A message is what its call asked for.  One that is to change something has not
\* been performed, there is one of its call at most, and the client, if it has
\* given up, has said that it does not know.
Faithful(m) ==
  /\ m.call <= last /\ asked[m.call] \in Requests
  /\ m.id = asked[m.call].id
  /\ m.method # "GET" =>
       /\ m.method = MethodOf(asked[m.call].op)
       /\ m.body = IF m.method \in {"POST", "PUT", "PATCH"} THEN asked[m.call].value ELSE Nil
       /\ performed[m.call] = 0
       /\ ended[m.call] \in {"none", "internal"}
  /\ \A n \in net : n.call = m.call /\ n.method # "GET" /\ m.method # "GET" => n = m

\* Where p stands in its call.  Before an attempt that is to change something,
\* nothing is performed or under way; a status tells which of the two it was.
Local(p) ==
  phase[p] # "idle" =>
    /\ call[p] \in Calls /\ call[p] <= last
    /\ req[p] \in Requests /\ asked[call[p]] = req[p]
    /\ method[p] = IF call[p] \in followed THEN "GET" ELSE MethodOf(req[p].op)
    /\ phase[p] # "done" => ended[call[p]] = "none"
    /\ phase[p] = "wait" => attempt[p] < MaxRetries
    /\ phase[p] = "answered" => IsResponse(reply[p])
    /\ phase[p] \in {"ready", "wait", "answered"} /\ method[p] # "GET" => Settled(call[p])
    /\ phase[p] \in {"ready", "wait"} /\ method[p] # "GET" => performed[call[p]] = 0
    /\ phase[p] = "answered" /\ method[p] # "GET" =>
         /\ reply[p].status \in Done => performed[call[p]] = 1
         /\ reply[p].status \in Undone => performed[call[p]] = 0

\* A call is of one goroutine.
Owners == \A p, q \in Procs : phase[p] # "idle" /\ phase[q] # "idle" /\ call[p] = call[q] => p = q

\* A PATCH that is followed by a GET was performed.
FollowedDone == \A c \in followed : performed[c] = 1

IInv ==
  /\ TypeOK
  /\ Types
  /\ Later
  /\ \A m \in net : Faithful(m)
  /\ \A p \in Procs : Local(p)
  /\ Owners
  /\ FollowedDone
  /\ OutcomeIsTrue

-----------------------------------------------------------------------------
(* Steps of a goroutine.                                                    *)

LEMMA RequestTyped ==
  ASSUME NEW r \in Requests
  PROVE  /\ r # Nil /\ r.id \in Ids \cup {Nil} /\ r.value \in Values \cup {Nil}
         /\ r.op \in {"Create", "Get", "List", "Replace", "Patch", "Delete"}
         /\ MethodOf(r.op) \in Methods
         /\ MethodOf(r.op) = "GET" <=> r.op \notin Mutations
         /\ r.op \in {"Create", "Replace", "Patch"} => r.value \in Values
         /\ r.op \in {"Get", "Replace", "Patch", "Delete"} => r.id \in Ids
<1>1. r \in RequestType /\ r # Nil
  BY RequestsAssumption, NilAssumption
<1>2. r.op \in {"Create", "Get", "List", "Replace", "Patch", "Delete"}
  BY <1>1 DEF RequestType
<1> QED
  BY <1>1, <1>2, RequestsAssumption DEF RequestType, MethodOf, Methods, Mutations

LEMMA Starts == Init => IInv
BY BoundsAssumption
   DEF Init, IInv, TypeOK, Types, Later, Local, Owners, FollowedDone, OutcomeIsTrue, Calls, Outcomes

\* A goroutine whose call nothing touches stays where it is.
LEMMA LocalFrame ==
  ASSUME TypeOK, NEW q \in Procs, Local(q), last' \in Nat, last' >= last,
         phase'[q] = phase[q], call'[q] = call[q], req'[q] = req[q], method'[q] = method[q],
         attempt'[q] = attempt[q], reply'[q] = reply[q],
         phase[q] # "idle" =>
           /\ asked'[call[q]] = asked[call[q]] /\ ended'[call[q]] = ended[call[q]]
           /\ call[q] \in followed' <=> call[q] \in followed
           /\ performed'[call[q]] = performed[call[q]]
           /\ \A m \in net' : m.call = call[q] => m \in net
  PROVE  Local(q)'
<1>1. last \in Nat /\ (call[q] \in Calls => call[q] \in Nat)
  BY BoundsAssumption DEF TypeOK, Calls
<1> QED
  BY <1>1 DEF Local, Settled

\* A method returns: what it says must be true, and remain so.
LEMMA FinishStep ==
  ASSUME IInv, NEW p \in Procs, NEW s \in Outcomes \ {"none"},
         phase[p] \notin {"idle", "done"}, Finish(p, s), UNCHANGED <<loop, followed>>,
         s \notin {"internal", "none"} => Settled(call[p]),
         req[p].op \in Mutations =>
           /\ s = "ok" => performed[call[p]] = 1
           /\ s \in Definite => performed[call[p]] = IF call[p] \in followed THEN 1 ELSE 0
  PROVE  IInv'
<1> USE DEF Finish, loop, upstream
<1>1. call[p] \in Calls /\ call[p] <= last /\ asked[call[p]] = req[p]
  BY DEF IInv, Local
<1>2. TypeOK'
  BY DEF IInv, TypeOK, Outcomes
<1>3. Types'
  BY <1>1 DEF IInv, Types
<1>4. Later'
  BY <1>1 DEF IInv, Later, Types, TypeOK, Calls
<1>5. ASSUME NEW m \in net' PROVE Faithful(m)'
  BY <1>1 DEF IInv, Faithful, Settled, Types
<1>6. ASSUME NEW q \in Procs PROVE Local(q)'
  <2>1. CASE q = p
    BY <1>1, <2>1 DEF IInv, Local, TypeOK
  <2>2. CASE q # p
    <3>1. phase[q] # "idle" => call[q] # call[p]
      BY <2>2 DEF IInv, Owners
    <3>2. last \in Nat /\ last' = last
      BY DEF IInv, TypeOK
    <3> QED
      BY <2>2, <3>1, <3>2, LocalFrame DEF IInv, TypeOK, Types
  <2> QED
    BY <2>1, <2>2
<1>7. Owners'
  BY DEF IInv, Owners, TypeOK
<1>8. FollowedDone'
  BY DEF IInv, FollowedDone
<1>9. OutcomeIsTrue'
  BY <1>1 DEF IInv, OutcomeIsTrue, Types
<1> QED
  BY <1>2, <1>3, <1>4, <1>5, <1>6, <1>7, <1>8, <1>9 DEF IInv

\* do goes on: nothing leaves the goroutine.
LEMMA LoopStep ==
  ASSUME IInv, NEW p \in Procs, phase[p] \notin {"idle", "done"},
         UNCHANGED <<upstream, req, call, result, history>>,
         NEW f \in {"ready", "wait"}, NEW n \in 0 .. MaxRetries,
         phase' = [phase EXCEPT ![p] = f], attempt' = [attempt EXCEPT ![p] = n],
         method' = method, reply' \in {reply, [reply EXCEPT ![p] = Nil]},
         f = "wait" => n < MaxRetries,
         method[p] # "GET" => Settled(call[p]) /\ performed[call[p]] = 0
  PROVE  IInv'
<1> USE DEF upstream, history
<1>1. TypeOK'
  BY DEF IInv, TypeOK
<1>2. Types' /\ Later' /\ FollowedDone' /\ OutcomeIsTrue'
  BY DEF IInv, Types, Later, FollowedDone, OutcomeIsTrue
<1>3. ASSUME NEW m \in net' PROVE Faithful(m)'
  BY DEF IInv, Faithful
<1>4. ASSUME NEW q \in Procs PROVE Local(q)'
  <2>1. CASE q = p
    BY <2>1 DEF IInv, Local, TypeOK, Settled
  <2>2. CASE q # p
    <3>1. last \in Nat /\ last' = last
      BY DEF IInv, TypeOK
    <3> QED
      BY <2>2, <3>1, LocalFrame DEF IInv, TypeOK, Types
  <2> QED
    BY <2>1, <2>2
<1>5. Owners'
  BY DEF IInv, Owners, TypeOK
<1> QED
  BY <1>1, <1>2, <1>3, <1>4, <1>5 DEF IInv

LEMMA CallStep == ASSUME IInv, NEW p \in Procs, Call(p) PROVE IInv'
<1> USE DEF upstream, Begin
<1>1. PICK r \in Requests :
        /\ req' = [req EXCEPT ![p] = r]
        /\ asked' = [asked EXCEPT ![last + 1] = r]
        /\ Begin(p, MethodOf(r.op))
  BY DEF Call
<1>2. last + 1 \in Calls /\ last \in Nat /\ last' = last + 1 /\ MaxRetries \in Nat
  BY BoundsAssumption DEF Call, IInv, TypeOK, Calls
<1>3. MethodOf(r.op) \in Methods /\ r # Nil
  BY RequestTyped
<1>4. TypeOK' /\ Types'
  BY <1>1, <1>2, <1>3 DEF Call, IInv, TypeOK, Types, Calls
<1>5. Later'
  BY <1>2 DEF Call, IInv, Later, Calls
<1>6. ASSUME NEW m \in net' PROVE Faithful(m)'
  <2>1. m.call # last + 1 /\ m.call <= last' /\ asked'[m.call] = asked[m.call]
    BY <1>1, <1>2 DEF Call, IInv, Types, Messages, Faithful, Calls
  <2> QED
    BY <2>1 DEF Call, IInv, Faithful
<1>7. Settled(last + 1)
  BY <1>2 DEF IInv, Faithful, Settled
<1>8. ASSUME NEW q \in Procs PROVE Local(q)'
  <2>1. CASE q = p
    BY <1>1, <1>2, <1>7, <2>1 DEF Call, IInv, Local, TypeOK, Types, Settled, Later
  <2>2. CASE q # p
    <3>1. phase[q] # "idle" => call[q] # last + 1
      BY <1>2 DEF IInv, Local
    <3> QED
      BY <1>1, <1>2, <2>2, <3>1, LocalFrame DEF Call, IInv, TypeOK, Types
  <2> QED
    BY <2>1, <2>2
<1>9. Owners'
  BY <1>1, <1>2 DEF Call, IInv, Owners, Local, TypeOK
<1>10. FollowedDone' /\ OutcomeIsTrue'
  BY <1>1, <1>2 DEF Call, IInv, FollowedDone, OutcomeIsTrue, Later, Types
<1> QED
  BY <1>4, <1>5, <1>6, <1>8, <1>9, <1>10 DEF IInv

LEMMA SendStep == ASSUME IInv, NEW p \in Procs, Send(p) PROVE IInv'
<1> USE DEF Send, loop, history
<1>1. /\ call[p] \in Calls /\ call[p] <= last /\ asked[call[p]] = req[p] /\ req[p] \in Requests
      /\ method[p] # "GET" => method[p] = MethodOf(req[p].op) /\ Settled(call[p])
      /\ performed[call[p]] = 0 \/ method[p] = "GET"
      /\ ended[call[p]] = "none"
  BY DEF IInv, Local
<1>2. method[p] \in Methods
  BY <1>1, RequestTyped DEF IInv, Local, Methods
<1>3. Body(p) \in Values \cup {Nil}
  BY <1>1, RequestTyped DEF Body
<1>4. Message(p) \in Messages
  BY <1>1, <1>2, <1>3, RequestTyped DEF Message, Messages
<1>5. \A m \in net' : m \in net \/ m = Message(p)
  OBVIOUS
<1>6. TypeOK' /\ Types'
  BY <1>4, <1>5 DEF IInv, TypeOK, Types, Messages
<1>7. Later' /\ FollowedDone' /\ OutcomeIsTrue'
  BY DEF IInv, Later, FollowedDone, OutcomeIsTrue
<1>8. ASSUME NEW m \in net' PROVE Faithful(m)'
  <2>1. CASE m = Message(p)
    BY <1>1, <1>5, <2>1 DEF Message, Body, Faithful, Settled
  <2>2. CASE m \in net
    BY <1>1, <1>5, <2>2 DEF Message, Faithful, Settled, IInv
  <2> QED
    BY <1>5, <2>1, <2>2
<1>9. ASSUME NEW q \in Procs PROVE Local(q)'
  <2>1. CASE q = p
    BY <2>1 DEF IInv, Local, TypeOK
  <2>2. CASE q # p
    <3>1. phase[q] # "idle" => call[q] # Message(p).call
      BY <2>2 DEF IInv, Owners, Message
    <3>2. last' = last /\ last \in Nat
      BY DEF IInv, TypeOK
    <3> QED
      BY <1>5, <2>2, <3>1, <3>2, LocalFrame DEF IInv, TypeOK
  <2> QED
    BY <2>1, <2>2
<1>10. Owners'
  BY DEF IInv, Owners, TypeOK
<1> QED
  BY <1>6, <1>7, <1>8, <1>9, <1>10 DEF IInv

LEMMA ReadBackStep == ASSUME IInv, NEW p \in Procs, ReadBack(p) PROVE IInv'
<1> USE DEF ReadBack, Begin, NoContent, upstream
<1>1. /\ call[p] \in Calls /\ call[p] <= last /\ asked[call[p]] = req[p]
      /\ performed[call[p]] = 1 /\ ended[call[p]] = "none"
  BY DEF IInv, Local, Done
<1>2. TypeOK'
  BY <1>1, BoundsAssumption DEF IInv, TypeOK
<1>11. Types'
  BY <1>1 DEF IInv, Types, Methods
<1>3. Later' /\ FollowedDone' /\ OutcomeIsTrue'
  BY <1>1 DEF IInv, Later, FollowedDone, OutcomeIsTrue, TypeOK, Calls, Definite
<1>4. ASSUME NEW m \in net' PROVE Faithful(m)'
  BY DEF IInv, Faithful
<1>5. ASSUME NEW q \in Procs PROVE Local(q)'
  <2>1. CASE q = p
    BY <1>1, <2>1 DEF IInv, Local, TypeOK, Types
  <2>2. CASE q # p
    <3>1. phase[q] # "idle" => call[q] # call[p]
      BY <2>2 DEF IInv, Owners
    <3>2. last' = last /\ last \in Nat
      BY DEF IInv, TypeOK
    <3> QED
      BY <2>2, <3>1, <3>2, LocalFrame DEF IInv, TypeOK, Types
  <2> QED
    BY <2>1, <2>2
<1>6. Owners'
  BY DEF IInv, Owners, TypeOK
<1> QED
  BY <1>2, <1>3, <1>4, <1>5, <1>6, <1>11 DEF IInv

LEMMA ReturnStep == ASSUME IInv, NEW p \in Procs, Return(p) PROVE IInv'
<1> USE DEF Return, upstream, history
<1>1. TypeOK' /\ Types'
  BY BoundsAssumption DEF IInv, TypeOK, Types
<1>2. Later' /\ FollowedDone' /\ OutcomeIsTrue'
  BY DEF IInv, Later, FollowedDone, OutcomeIsTrue
<1>3. ASSUME NEW m \in net' PROVE Faithful(m)'
  BY DEF IInv, Faithful
<1>4. ASSUME NEW q \in Procs PROVE Local(q)'
  <2>1. CASE q = p
    BY <2>1 DEF IInv, Local, TypeOK
  <2>2. CASE q # p
    <3>1. last' = last /\ last \in Nat
      BY DEF IInv, TypeOK
    <3> QED
      BY <2>2, <3>1, LocalFrame DEF IInv, TypeOK, Types
  <2> QED
    BY <2>1, <2>2
<1>5. Owners'
  BY DEF IInv, Owners, TypeOK
<1> QED
  BY <1>1, <1>2, <1>3, <1>4, <1>5 DEF IInv

-----------------------------------------------------------------------------
(* Steps of the upstream server.                                            *)

\* The server takes m from the network.  If that changes something, m is a
\* request to do so and the answer says that it was done, or does not know.
LEMMA RespondStep ==
  ASSUME IInv, NEW m \in net, NEW r, IsResponse(r), Respond(m, r),
         db' \in [Ids -> Values \cup {Nil}],
         performed' \in [Calls -> {0, 1}],
         \A c \in Calls : c # m.call => performed'[c] = performed[c],
         m.method = "GET" => performed' = performed,
         m.method # "GET" => /\ r.status \in Done => performed'[m.call] = 1
                             /\ r.status \in Undone => performed'[m.call] = 0
  PROVE  IInv'
<1> USE DEF Respond, loop, history
<1>1. m \in Messages /\ m.from \in Procs /\ m.call \in Calls
  BY DEF IInv, Types, Messages
<1>2. Faithful(m)
  BY DEF IInv
<1>3. TypeOK'
  BY <1>1 DEF IInv, TypeOK, Types, Awaited
<1>4. Types'
  BY <1>1 DEF IInv, Types
<1>5. ASSUME NEW c \in Calls, performed'[c] # performed[c]
      PROVE  c = m.call /\ m.method # "GET" /\ performed[c] = 0
  BY <1>1, <1>2, <1>5 DEF IInv, Types, Faithful
<1>6. Later' /\ FollowedDone'
  BY <1>1, <1>2, <1>5, BoundsAssumption
     DEF IInv, Later, FollowedDone, Faithful, TypeOK, Calls
<1>7. OutcomeIsTrue'
  BY <1>2, <1>5 DEF IInv, OutcomeIsTrue, Faithful, Definite, Named
<1>8. ASSUME NEW x \in net' PROVE Faithful(x)'
  <2>1. x \in net /\ x # m /\ Faithful(x) /\ x.call \in Calls
    BY <1>8 DEF IInv, Types, Messages
  <2>2. x.method # "GET" => performed'[x.call] = performed[x.call]
    BY <1>2, <1>5, <2>1 DEF Faithful
  <2> QED
    BY <2>1, <2>2 DEF Faithful
<1>9. Settled(m.call)' \/ m.method = "GET"
  BY <1>2 DEF Settled, Faithful
<1>10. ASSUME NEW q \in Procs PROVE Local(q)'
  <2>1. CASE phase'[q] = phase[q] /\ reply'[q] = reply[q]
    <3>1. Local(q) /\ last' = last /\ last \in Nat
      BY DEF IInv, TypeOK
    <3>2. CASE phase[q] \notin {"ready", "wait", "answered"} \/ method[q] = "GET"
      BY <2>1, <3>1, <3>2 DEF Local
    <3>3. CASE phase[q] \in {"ready", "wait", "answered"} /\ method[q] # "GET"
      <4>1. Settled(call[q]) /\ call[q] \in Calls
        BY <3>1, <3>3 DEF Local
      <4>2. performed'[call[q]] = performed[call[q]]
        BY <1>5, <4>1 DEF Settled
      <4> QED
        BY <2>1, <3>1, <4>2, LocalFrame DEF IInv
    <3> QED
      BY <3>2, <3>3
  <2>2. CASE ~ (phase'[q] = phase[q] /\ reply'[q] = reply[q])
    <3>1. /\ q = m.from /\ Awaited(m)
          /\ phase' = [phase EXCEPT ![q] = "answered"] /\ reply' = [reply EXCEPT ![q] = r]
      BY <1>1, <2>2 DEF IInv, TypeOK, Types
    <3>2. phase'[q] = "answered" /\ reply'[q] = r
      BY <3>1 DEF IInv, TypeOK, Types
    <3>3. call[q] = m.call /\ method[q] = m.method
      BY <3>1 DEF Awaited
    <3> QED
      BY <1>9, <3>1, <3>2, <3>3 DEF IInv, Local, Awaited
  <2> QED
    BY <2>1, <2>2
<1>11. Owners'
  BY <1>1 DEF IInv, Owners, TypeOK, Awaited
<1> QED
  BY <1>3, <1>4, <1>6, <1>7, <1>8, <1>10, <1>11 DEF IInv

\* Every answer is a response the client knows.
LEMMA AnswersTyped ==
  /\ \A r \in Refusals : IsResponse(r) /\ r.status \in Undone
  /\ \A s \in Done : \A r \in Answers(s) : IsResponse(r) /\ r.status \in Done \cup {500}
<1>1. {400, 403, 404, 409, 429} \subseteq Undone
  BY DEF Undone
<1>2. \A r \in Refusals : r.status \in {400, 403, 409, 429} /\ r.type \in Named \cup {"invalidSyntax", Nil}
  BY DEF Refusals, Response
<1>3. \A s \in Done : \A r \in Answers(s) : r.status \in {s, 500} /\ r.type = Nil
  BY DEF Answers, Response
<1> QED
  BY <1>1, <1>2, <1>3 DEF IsResponse

\* No status says both.
LEMMA StatusesApart == \A s \in Undone : s \notin Done /\ s # 500
BY DEF Done, Undone

LEMMA ServerStep ==
  ASSUME IInv, NEW m \in net, Refuse(m) \/ Perform(m)
  PROVE  IInv'
<1>1. /\ m \in Messages /\ Faithful(m) /\ asked[m.call] \in Requests
      /\ performed \in [Calls -> {0, 1}] /\ m.call \in Calls
      /\ db \in [Ids -> Values \cup {Nil}]
      /\ m.method # "GET" => performed[m.call] = 0
  BY DEF IInv, Types, TypeOK, Faithful, Messages
<1>2. /\ m.method \in {"POST", "PUT", "PATCH"} => m.body \in Values
      /\ m.method \in {"PUT", "PATCH", "DELETE"} => m.id \in Ids
  BY <1>1, RequestTyped DEF Faithful, MethodOf
<1>3. ASSUME NEW r, IsResponse(r), r.status \in Undone, Respond(m, r), UNCHANGED <<db, performed>>
      PROVE  IInv'
  BY <1>1, <1>3, StatusesApart, RespondStep
<1>4. ASSUME NEW i \in Ids, NEW v \in Values \cup {Nil}, NEW answers, Change(m, i, v, answers),
             \A r \in answers : IsResponse(r) /\ r.status \in Done \cup {500},
             m.method # "GET"
      PROVE  IInv'
  <2>1. PICK r \in answers : Respond(m, r)
    BY <1>4 DEF Change
  <2>2. /\ db' = [db EXCEPT ![i] = v]
        /\ performed' = [performed EXCEPT ![m.call] = performed[m.call] + 1]
    BY <1>4 DEF Change
  <2>3. db' \in [Ids -> Values \cup {Nil}]
    BY <1>1, <1>4, <2>2
  <2>4. performed[m.call] + 1 = 1
    BY <1>1, <1>4
  <2>5. /\ performed' \in [Calls -> {0, 1}] /\ performed'[m.call] = 1
        /\ \A c \in Calls : c # m.call => performed'[c] = performed[c]
    BY <1>1, <2>2, <2>4
  <2>6. IsResponse(r) /\ r.status \notin Undone
    BY <1>4, StatusesApart
  <2> QED
    BY <1>4, <2>1, <2>3, <2>5, <2>6, RespondStep
<1>5. {200, 201, 204} \subseteq Done /\ 404 \in Undone
  BY DEF Done, Undone
<1> DEFINE empty == Response(204, Nil, FALSE)
           missing == Response(404, Nil, FALSE)
<1>13. IsResponse(empty) /\ empty.status \in Done /\ IsResponse(missing) /\ missing.status \in Undone
  BY DEF Response, IsResponse, Done, Undone
<1> HIDE DEF empty, missing
<1>6. CASE Refuse(m)
  BY <1>3, <1>6, AnswersTyped DEF Refuse
<1>7. CASE m.method = "POST" /\ \E i \in Ids : Change(m, i, m.body, Answers(201))
  BY <1>2, <1>4, <1>5, <1>7, AnswersTyped
<1>8. CASE m.method = "PUT" /\ Change(m, m.id, m.body, Answers(200))
  BY <1>2, <1>4, <1>5, <1>8, AnswersTyped
<1>9. CASE m.method = "PATCH" /\ Change(m, m.id, m.body, Answers(200) \cup {empty})
  <2> DEFINE answers == Answers(200) \cup {empty}
  <2>1. \A r \in answers : IsResponse(r) /\ r.status \in Done \cup {500}
    BY <1>5, <1>13, AnswersTyped
  <2> HIDE DEF answers
  <2>2. Change(m, m.id, m.body, answers)
    BY <1>9 DEF answers
  <2> QED
    BY <1>2, <1>4, <1>9, <2>1, <2>2
<1>10. CASE m.method = "DELETE" /\ Change(m, m.id, Nil, Answers(204))
  BY <1>2, <1>4, <1>5, <1>10, AnswersTyped
<1>11. CASE m.method = "GET" /\ (\E r \in Answers(200) : Respond(m, r)) /\ UNCHANGED <<db, performed>>
  BY <1>1, <1>5, <1>11, AnswersTyped, RespondStep
<1>12. CASE Respond(m, missing) /\ UNCHANGED <<db, performed>>
  BY <1>3, <1>12, <1>13
<1> QED
  BY <1>6, <1>7, <1>8, <1>9, <1>10, <1>11, <1>12 DEF Perform, empty, missing

-----------------------------------------------------------------------------
(* The theorems.                                                            *)

\* What is known of a call whose request is a GET: it is a Get or a List, or a
\* PATCH that was performed.
LEMMA Reading ==
  ASSUME IInv, NEW p \in Procs, phase[p] # "idle", method[p] = "GET"
  PROVE  /\ Settled(call[p])
         /\ req[p].op \in Mutations => call[p] \in followed /\ performed[call[p]] = 1
<1>1. /\ Local(p) /\ req[p] \in Requests /\ asked[call[p]] = req[p]
      /\ call[p] \in followed \/ MethodOf(req[p].op) = "GET"
      /\ call[p] \in followed => performed[call[p]] = 1
  BY DEF IInv, Local, FollowedDone
<1>2. req[p].op \in Mutations => call[p] \in followed
  BY <1>1, RequestTyped
<1>3. ASSUME NEW m \in net, m.call = call[p], m.method # "GET"
      PROVE  FALSE
  BY <1>1, <1>3 DEF IInv, Faithful
<1> QED
  BY <1>1, <1>2, <1>3 DEF Settled

LEMMA StepInductive == IInv /\ [Next]_vars => IInv'
<1> SUFFICES ASSUME IInv, [Next]_vars
             PROVE  IInv'
  OBVIOUS
<1>1. CASE UNCHANGED vars
  BY <1>1 DEF vars, upstream, loop, history, IInv, TypeOK, Types, Later, Faithful, Local, Settled,
              Owners, FollowedDone, OutcomeIsTrue
<1>2. ASSUME NEW m \in net, Refuse(m) \/ Perform(m)
      PROVE  IInv'
  BY <1>2, ServerStep
<1>3. ASSUME NEW p \in Procs, Step(p)
      PROVE  IInv'
  <2>1. /\ phase[p] # "idle" => /\ req[p] \in Requests /\ attempt[p] \in 0 .. MaxRetries
                                /\ MaxRetries \in Nat
        /\ Local(p)
    BY BoundsAssumption DEF IInv, Local, TypeOK
  <2>2. CASE Send(p) \/ ReadBack(p) \/ Return(p)
    BY <2>2, SendStep, ReadBackStep, ReturnStep
  <2>3. CASE GiveUp(p) \/ RetriesExhausted(p)
    BY <2>3, FinishStep DEF GiveUp, RetriesExhausted, Limited, Outcomes, Definite, Named
  <2>4. CASE Wait(p)
    <3>1. method[p] # "GET" => Settled(call[p]) /\ performed[call[p]] = 0
      BY <2>1, <2>4 DEF Wait, MayRetry, Limited, Local, Undone
    <3>2. attempt' = [attempt EXCEPT ![p] = attempt[p]]
      BY <2>4 DEF Wait, IInv, TypeOK
    <3>3. /\ phase[p] \notin {"idle", "done"} /\ attempt[p] < MaxRetries
          /\ UNCHANGED <<upstream, req, call, result, history>> /\ method' = method
          /\ phase' = [phase EXCEPT ![p] = "wait"] /\ reply' = [reply EXCEPT ![p] = Nil]
      BY <2>4 DEF Wait, MayRetry, Limited
    <3>4. attempt[p] \in 0 .. MaxRetries
      BY <2>1, <3>3
    <3> QED
      BY <3>1, <3>2, <3>3, <3>4, LoopStep
  <2>5. CASE Retry(p)
    <3>1. method[p] # "GET" => Settled(call[p]) /\ performed[call[p]] = 0
      BY <2>1, <2>5 DEF Retry, Local
    <3>2. attempt[p] + 1 \in 0 .. MaxRetries
      BY <2>1, <2>5 DEF Retry, Local
    <3> QED
      BY <2>1, <2>5, <3>1, <3>2, LoopStep DEF Retry
  <2>6. CASE Cancelled(p)
    <3>1. phase[p] = "wait"
      BY <2>6 DEF Cancelled
    <3>2. method[p] # "GET" => Settled(call[p]) /\ performed[call[p]] = 0 /\ call[p] \notin followed
      BY <2>1, <3>1 DEF Local
    <3> QED
      BY <2>6, <3>1, <3>2, Reading, FinishStep DEF Cancelled, Outcomes
  <2>7. CASE Answer(p)
    <3>1. phase[p] = "answered" /\ Finish(p, Decoded(p)) /\ UNCHANGED <<loop, followed>>
      BY <2>7 DEF Answer
    <3>2. /\ Decoded(p) \in Outcomes \ {"none"}
          /\ Decoded(p) = "ok" => reply[p].status \in Done
          /\ Decoded(p) \in Definite => reply[p].status \in Undone
      BY DEF Decoded, MapHTTPError, Success, Outcomes, Definite, Named, Done, Undone
    <3>3. method[p] # "GET" =>
            /\ Settled(call[p]) /\ call[p] \notin followed
            /\ reply[p].status \in Done => performed[call[p]] = 1
            /\ reply[p].status \in Undone => performed[call[p]] = 0
      BY <2>1, <3>1 DEF Local
    <3> HIDE DEF Decoded
    <3> QED
      BY <3>1, <3>2, <3>3, Reading, FinishStep
  <2> QED
    BY <1>3, <2>2, <2>3, <2>4, <2>5, <2>6, <2>7 DEF Step
<1>4. ASSUME NEW p \in Procs, Call(p)
      PROVE  IInv'
  BY <1>4, CallStep
<1> QED
  BY <1>1, <1>2, <1>3, <1>4 DEF Next

\* The invariant that carries the others.
THEOREM Inductive == Spec => []IInv
<1> QED
  BY Starts, StepInductive, PTL DEF Spec

\* The state has its types, and do's loop makes MaxRetries + 1 attempts at most.
THEOREM TypeCorrect == Spec => []TypeOK
<1>1. IInv => TypeOK
  BY DEF IInv
<1> QED
  BY Inductive, <1>1, PTL

\* The upstream server performs a call at most once, however often do sends it
\* again after a 429 and however late a request arrives that was given up.
THEOREM PerformedOnce == Spec => []AtMostOnce
<1>1. IInv => AtMostOnce
  BY DEF IInv, Types, AtMostOnce
<1> QED
  BY Inductive, <1>1, PTL

\* Success means performed; a definite error (mapHTTPError, a context that ends
\* during the wait) means neither performed nor still under way.
THEOREM TrueOutcome == Spec => []OutcomeIsTrue
<1>1. IInv => OutcomeIsTrue
  BY DEF IInv
<1> QED
  BY Inductive, <1>1, PTL

\* Each change upstream is the whole of one call, on the first attempt and on
\* every later one (do puts bodyBytes back).
THEOREM ForwardedWhole == Spec => Forwarded
<1> DEFINE Whole ==
      \E c \in Calls, i \in Ids :
        /\ performed'[c] = performed[c] + 1
        /\ asked[c].op # "Create" => i = asked[c].id
        /\ db' = [db EXCEPT ![i] = IF asked[c].op = "Delete" THEN Nil ELSE asked[c].value]
<1>1. ASSUME IInv, NEW m \in net, Perform(m), db' # db
      PROVE  Whole
  <2>1. /\ m.call \in Calls /\ performed \in [Calls -> {0, 1}] /\ Faithful(m)
        /\ asked[m.call] \in Requests
    BY <1>1 DEF IInv, Types, Messages, Faithful
  <2>2. PICK i \in Ids \cup {Nil}, v \in Values \cup {Nil} :
          /\ performed' = [performed EXCEPT ![m.call] = @ + 1] /\ db' = [db EXCEPT ![i] = v]
          /\ m.method \in {"POST", "PUT", "PATCH", "DELETE"}
          /\ v = IF m.method = "DELETE" THEN Nil ELSE m.body
          /\ IF m.method = "POST" THEN i \in Ids ELSE i = m.id
    <3>1. m.id \in Ids \cup {Nil} /\ m.body \in Values \cup {Nil}
      BY <1>1 DEF IInv, Types, Messages
    <3> QED
      BY <1>1, <3>1 DEF Perform, Change
  <2>3. /\ m.method = MethodOf(asked[m.call].op) /\ m.id = asked[m.call].id
        /\ m.body = IF m.method \in {"POST", "PUT", "PATCH"} THEN asked[m.call].value ELSE Nil
    BY <2>1, <2>2 DEF Faithful
  <2>4. /\ asked[m.call].op # "Create" => i = asked[m.call].id
        /\ i \in Ids
        /\ v = IF asked[m.call].op = "Delete" THEN Nil ELSE asked[m.call].value
    BY <2>1, <2>2, <2>3, RequestTyped DEF MethodOf
  <2>5. performed'[m.call] = performed[m.call] + 1
    BY <2>1, <2>2
  <2> QED
    BY <2>1, <2>2, <2>4, <2>5
<1>2. ASSUME IInv, [Next]_vars, db' # db
      PROVE  \E m \in net : Perform(m)
  BY <1>2 DEF Next, Call, Step, Send, GiveUp, RetriesExhausted, Wait, Retry, Cancelled, ReadBack,
              Answer, Return, Finish, Refuse, upstream, vars
<1>3. IInv /\ [Next]_vars => [db' # db => Whole]_vars
  BY <1>1, <1>2
<1> QED
  BY Inductive, <1>3, PTL DEF Spec, Forwarded

=============================================================================
