----------------------------- MODULE ServerProofs -----------------------------
(***************************************************************************)
(* Proofs about Server for every set of goroutines and requests, bulk      *)
(* requests of every length, every MaxBulkOps, and every set of endpoints. *)
(***************************************************************************)
EXTENDS Server, FiniteSetTheorems, TLAPS

-----------------------------------------------------------------------------
(* The inductive invariant.                                                 *)

Entry == Statuses \ {0}
Ends == {"nobody", "Discovery", "Bulk", "List", "Get"} \cup Mutations

\* What TypeOK leaves open.
Types ==
  /\ results \in [Procs -> Seq(Entry)]
  /\ performed \in [Procs -> SUBSET Nat]
  /\ panicked \in [Procs -> BOOLEAN]
  /\ trail \in [Procs -> Seq(Nat \X Entry)]
  /\ lost \in [Procs -> SUBSET Nat]

Nth(p, n) == IF n = 0 THEN req[p].op ELSE req[p].ops[n]

\* Status s of operation n tells whether it was performed, as far as a status can.
Tells(p, n, s) ==
  /\ s \in 200 .. 299 /\ Target(Nth(p, n)) \in Mutations => n \in performed[p]
  /\ s \notin 200 .. 299 /\ ~ Unsure(Target(Nth(p, n)), s) => n \notin performed[p]

\* The operations whose status is settled.
Over(p) ==
  IF k[p] = 0 THEN {n \in {0} : pc[p] = "sent"} ELSE DOMAIN results[p]

\* What client and auditor are told of these operations is true, and the same.
Books(p) ==
  /\ \A n \in Over(p) : Tells(p, n, Told(p, n))
  /\ \A n \in (Over(p) \cap performed[p]) \ lost[p] : \E i \in DOMAIN trail[p] : trail[p][i][1] = n
  /\ \A i \in DOMAIN trail[p] : /\ trail[p][i][1] \in Over(p)
                                /\ trail[p][i][2] = Told(p, trail[p][i][1])
  /\ \A i, j \in DOMAIN trail[p] : i < j => trail[p][i][1] < trail[p][j][1]

Unused(p) ==
  k[p] = 0 /\ results[p] = <<>> /\ performed[p] = {} /\ trail[p] = <<>> /\ lost[p] = {}

\* In the loop of handleBulk.
InLoop(p) ==
  /\ k[p] <= Len(req[p].ops)
  /\ MaxBulkOps > 0 => Len(req[p].ops) <= MaxBulkOps
  /\ Target(req[p].op) = "Bulk"

\* What the store's answer to the operation at hand says is true.
Returned(p) == Tells(p, k[p], status[p])

\* The loop has come to its end, and not gone past it.
Complete(p) ==
  /\ Len(results[p]) = k[p]
  /\ ~ Stops(p, SubSeq(results[p], 1, k[p] - 1))
  /\ k[p] = Len(req[p].ops) \/ Stops(p, results[p])

Underway == {"op", "store", "audit"}

Local(p) ==
  /\ pc[p] # "idle" => req[p] \in Requests
  /\ pc[p] # "sent" => ~ panicked[p] /\ answer[p] = 0
  /\ pc[p] \in {"idle", "screen"} => Unused(p)
  /\ k[p] # 0 => InLoop(p)
  /\ ~ panicked[p] => Books(p) /\ (k[p] = 0 => results[p] = <<>>)
  /\ pc[p] \in Underway /\ k[p] # 0 => Len(results[p]) = k[p] - 1 /\ ~ Stops(p, results[p])
  /\ pc[p] \in {"op", "store"} => performed[p] \subseteq Over(p)
  /\ pc[p] = "audit" =>
       /\ status[p] \in Entry
       /\ performed[p] \subseteq Over(p) \cup {k[p]}
       /\ Returned(p)
  /\ pc[p] = "sent" /\ ~ panicked[p] =>
       /\ performed[p] \subseteq Over(p)
       /\ k[p] # 0 => Complete(p)

IInv == TypeOK /\ Types /\ NoCutOff /\ \A p \in Procs : Local(p)

-----------------------------------------------------------------------------
(* Lemmas about the operators of the model.                                 *)

\* The router knows these handlers.
LEMMA Routes ==
  ASSUME NEW method, NEW path
  PROVE  /\ Route(method, path).to \in Ends
         /\ Route(method, path).status \in {0, 404, 405}
<1>1. CASE ~ Served(path) \/ method \notin DOMAIN Handlers(path)
  BY <1>1 DEF Route, Refused, Ends
<1>2. CASE Served(path) /\ method \in DOMAIN Handlers(path)
  <2>1. Handlers(path)[method] \in Ends
    <3>1. CASE path.word \in Discovery
      BY <1>2, <3>1 DEF Handlers, Described, Discovery, Ends
    <3>2. CASE path.word \notin Discovery /\ path.word = "bulk"
      BY <1>2, <3>2 DEF Handlers, Bulks, Ends
    <3>3. CASE path.word \notin Discovery /\ path.word # "bulk"
      <4>1. Handlers(path) \in {Collection, Search, Item}
        BY <3>3 DEF Handlers
      <4>2. /\ DOMAIN Collection = {"GET", "POST"} /\ DOMAIN Search = {"POST"}
            /\ DOMAIN Item = {"GET", "PUT", "PATCH", "DELETE"}
        BY DEF Collection, Search, Item
      <4> QED
        BY <1>2, <4>1, <4>2 DEF Collection, Search, Item, Ends, Mutations
    <3> QED
      BY <3>1, <3>2, <3>3
  <2> QED
    BY <1>2, <2>1 DEF Route, To
<1> QED
  BY <1>1, <1>2

\* A request is for what ServerAssumption says.
LEMMA RequestTyped ==
  ASSUME NEW r \in Requests
  PROVE  /\ r # Nil /\ r.op.path # Nil /\ r.fail \in Nat
         /\ r.ops \in Seq(Operation) /\ Len(r.ops) \in Nat /\ DOMAIN r.ops = 1 .. Len(r.ops)
         /\ \A n \in DOMAIN r.ops : Target(r.ops[n]) = "Bulk" => r.ops[n].body \in Bodies \ {"good"}
<1>1. r # Nil /\ r.op.path # Nil /\ r.fail \in Nat /\ r.ops \in Seq(Operation)
  BY ServerAssumption
<1>2. ASSUME NEW n \in DOMAIN r.ops, Target(r.ops[n]) = "Bulk"
      PROVE  r.ops[n].body \in Bodies \ {"good"}
  <2>1. r.ops[n] \in Operation
    BY <1>1
  <2>2. r.ops[n].body \in Bodies
    BY <2>1 DEF Operation
  <2>3. r.ops[n].path # Nil /\ Route(r.ops[n].method, r.ops[n].path).to = "Bulk"
    BY <1>2 DEF Target
  <2> QED
    BY <2>2, <2>3, ServerAssumption
<1> QED
  BY <1>1, <1>2

\* One more entry is one more failure, or none.
LEMMA FailuresAppend ==
  ASSUME NEW rs \in Seq(Entry), NEW s \in Entry
  PROVE  /\ Failures(rs) \in Nat
         /\ Failures(Append(rs, s)) = IF Failed(s) THEN Failures(rs) + 1 ELSE Failures(rs)
<1> DEFINE F == {n \in DOMAIN rs : Failed(rs[n])}
           G == {n \in DOMAIN Append(rs, s) : Failed(Append(rs, s)[n])}
           m == Len(rs) + 1
<1>1. /\ Len(rs) \in Nat /\ DOMAIN rs = 1 .. Len(rs) /\ DOMAIN Append(rs, s) = 1 .. m
      /\ Append(rs, s)[m] = s /\ \A n \in 1 .. Len(rs) : Append(rs, s)[n] = rs[n]
  OBVIOUS
<1>2. IsFiniteSet(1 .. Len(rs))
  BY <1>1, FS_Interval
<1>3. F \subseteq 1 .. Len(rs)
  BY <1>1
<1>4. IsFiniteSet(F) /\ Cardinality(F) \in Nat
  BY <1>2, <1>3, FS_Subset, FS_CardinalityType
<1>5. G = IF Failed(s) THEN F \cup {m} ELSE F
  BY <1>1
<1>6. m \notin F
  BY <1>1
<1>7. Cardinality(F \cup {m}) = Cardinality(F) + 1
  BY <1>4, <1>6, FS_AddElement
<1> QED
  BY <1>4, <1>5, <1>7 DEF Failures

\* The entries before the last one.
LEMMA FrontOfAppend ==
  ASSUME NEW rs \in Seq(Entry), NEW s \in Entry
  PROVE  SubSeq(Append(rs, s), 1, Len(rs)) = rs
OBVIOUS

\* A sequence is its last entry after the others.
LEMMA LastOf ==
  ASSUME NEW rs \in Seq(Entry), rs # <<>>
  PROVE  \E before \in Seq(Entry), s \in Entry :
           before = SubSeq(rs, 1, Len(rs) - 1) /\ rs = Append(before, s)
<1> DEFINE m == Len(rs)
           before == SubSeq(rs, 1, m - 1)
<1>1. m \in Nat /\ m # 0 /\ DOMAIN rs = 1 .. m /\ rs[m] \in Entry
  OBVIOUS
<1>2. /\ before \in Seq(Entry) /\ Len(before) = m - 1
      /\ \A n \in 1 .. m - 1 : before[n] = rs[n]
  BY <1>1
<1>3. rs = Append(before, rs[m])
  BY <1>1, <1>2
<1> QED
  BY <1>1, <1>2, <1>3

LEMMA NothingFailed == Failures(<<>>) = 0
<1>1. {n \in DOMAIN <<>> : Failed(<<>>[n])} = {}
  OBVIOUS
<1> QED
  BY <1>1, FS_EmptySet DEF Failures

-----------------------------------------------------------------------------
(* The steps several actions are made of.                                   *)

LEMMA Starts == Init => IInv
<1> SUFFICES ASSUME Init PROVE IInv
  OBVIOUS
<1>1. TypeOK
  <2>1. /\ life = "serving" /\ expired = FALSE /\ MaxBulkOps \in Nat
        /\ pc = [p \in Procs |-> "idle"] /\ req = [p \in Procs |-> Nil]
        /\ k = [p \in Procs |-> 0] /\ status = [p \in Procs |-> 0] /\ answer = [p \in Procs |-> 0]
        /\ \A p \in Procs : results[p] = <<>> /\ performed[p] = {}
    BY ServerAssumption DEF Init
  <2>2. Len(<<>>) = 0 /\ DOMAIN <<>> = {} /\ 0 \in Statuses
    BY DEF Statuses
  <2>3. \A p \in Procs :
          /\ \A n \in DOMAIN results[p] : results[p][n] \in Statuses \ {0}
          /\ MaxBulkOps > 0 => Len(results[p]) <= MaxBulkOps
          /\ performed[p] \subseteq Nat
    BY <2>1, <2>2
  <2> QED
    BY <2>1, <2>2, <2>3 DEF TypeOK
<1>2. Types
  BY DEF Init, Types
<1>3. NoCutOff
  BY DEF Init, NoCutOff
<1>4. ASSUME NEW p \in Procs PROVE Local(p)
  BY DEF Init, Local, Unused, Books, Over, Underway
<1> QED
  BY <1>1, <1>2, <1>3, <1>4 DEF IInv

\* A request nothing touches stays where it is.
LEMMA LocalFrame ==
  ASSUME NEW q \in Procs, Local(q),
         pc'[q] = pc[q], req'[q] = req[q], k'[q] = k[q], status'[q] = status[q],
         results'[q] = results[q], answer'[q] = answer[q], performed'[q] = performed[q],
         panicked'[q] = panicked[q], trail'[q] = trail[q], lost'[q] = lost[q]
  PROVE  Local(q)'
<1>1. Books(q)' <=> Books(q)
  BY DEF Books, Over, Told, Nth, Tells
<1>2. (InLoop(q)' <=> InLoop(q)) /\ (Unused(q)' <=> Unused(q)) /\ Over(q)' = Over(q) /\ Op(q)' = Op(q)
  BY DEF InLoop, Unused, Over, Op
<1>3. Stops(q, results[q])' <=> Stops(q, results[q])
  BY DEF Stops
<1>4. Complete(q)' <=> Complete(q)
  BY DEF Complete, Stops
<1>5. Returned(q)' <=> Returned(q)
  BY DEF Returned, Tells, Nth
<1> QED
  BY <1>1, <1>2, <1>3, <1>4, <1>5 DEF Local

\* A step of p leaves the requests of the others alone.
LEMMA OneRequest ==
  ASSUME IInv, NEW p \in Procs, pc[p] # "idle" \/ life = "serving",
         UNCHANGED <<life, expired>>, TypeOK', Types', Local(p)',
         \A q \in Procs \ {p} :
           /\ pc'[q] = pc[q] /\ req'[q] = req[q] /\ k'[q] = k[q] /\ status'[q] = status[q]
           /\ results'[q] = results[q] /\ answer'[q] = answer[q] /\ performed'[q] = performed[q]
           /\ panicked'[q] = panicked[q] /\ trail'[q] = trail[q] /\ lost'[q] = lost[q]
  PROVE  IInv'
<1>1. NoCutOff'
  BY DEF IInv, NoCutOff
<1>2. ASSUME NEW q \in Procs \ {p} PROVE Local(q)'
  BY LocalFrame DEF IInv
<1> QED
  BY <1>1, <1>2 DEF IInv

\* The books are kept when operation k[p] is settled with status s.
LEMMA BooksGrow ==
  ASSUME NEW p \in Procs, Books(p), NEW n \in Nat, NEW s \in Entry,
         trail[p] \in Seq(Nat \X Entry),
         req'[p] = req[p], performed'[p] = performed[p], lost[p] \subseteq lost'[p],
         Over(p)' = Over(p) \cup {n}, \A m \in Over(p) : m \in Nat /\ m < n,
         \A m \in Over(p) : Told(p, m)' = Told(p, m),
         Told(p, n)' = s,
         Tells(p, n, s),
         \/ trail'[p] = trail[p] /\ n \notin performed[p] \ lost'[p]
         \/ trail'[p] = Append(trail[p], <<n, s>>)
  PROVE  Books(p)'
<1> DEFINE T == trail[p]
           U == trail'[p]
<1>1. T \in Seq(Nat \X Entry) /\ Len(T) \in Nat /\ DOMAIN T = 1 .. Len(T)
  OBVIOUS
<1>2. ASSUME NEW m \in Over(p)' PROVE Tells(p, m, Told(p, m))'
  <2>1. ASSUME NEW t PROVE Tells(p, m, t)' <=> Tells(p, m, t)
    BY DEF Tells, Nth
  <2>2. CASE m = n
    BY <2>1, <2>2 DEF Told
  <2>3. CASE m \in Over(p)
    BY <2>1, <2>3 DEF Books, Told
  <2> QED
    BY <2>2, <2>3
<1>3. CASE U = T /\ n \notin performed[p] \ lost'[p]
  <2>1. \A m \in (Over(p)' \cap performed'[p]) \ lost'[p] : \E i \in DOMAIN U : U[i][1] = m
    BY <1>3 DEF Books
  <2>2. (\A i \in DOMAIN trail[p] : trail[p][i][1] \in Over(p) /\ trail[p][i][2] = Told(p, trail[p][i][1]))'
    BY <1>3 DEF Books, Told
  <2>3. \A i, j \in DOMAIN U : i < j => U[i][1] < U[j][1]
    BY <1>3 DEF Books
  <2> QED
    BY <1>2, <2>1, <2>2, <2>3 DEF Books
<1>4. CASE U = Append(T, <<n, s>>)
  <2>1. /\ DOMAIN U = 1 .. Len(T) + 1 /\ U[Len(T) + 1] = <<n, s>>
        /\ \A i \in DOMAIN T : i \in DOMAIN U /\ U[i] = T[i]
        /\ \A i \in DOMAIN U : i \in DOMAIN T \/ i = Len(T) + 1
    BY <1>1, <1>4
  <2>2. U[Len(T) + 1][1] = n /\ U[Len(T) + 1][2] = s /\ Len(T) + 1 \in DOMAIN U
    BY <1>1, <2>1
  <2>3. ASSUME NEW m \in (Over(p)' \cap performed'[p]) \ lost'[p] PROVE \E i \in DOMAIN U : U[i][1] = m
    <3>1. CASE m = n
      BY <2>2, <3>1
    <3>2. CASE m \in Over(p)
      <4>1. PICK i \in DOMAIN T : T[i][1] = m
        BY <3>2 DEF Books
      <4> QED
        BY <2>1, <4>1
    <3> QED
      BY <3>1, <3>2
  <2>4. ASSUME NEW i \in DOMAIN U PROVE (trail[p][i][1] \in Over(p) /\ trail[p][i][2] = Told(p, trail[p][i][1]))'
    <3>1. CASE i \in DOMAIN T
      <4>1. PICK m : m = T[i][1]
        OBVIOUS
      <4>2. m \in Over(p) /\ T[i][2] = Told(p, m)
        BY <3>1, <4>1 DEF Books
      <4>3. U[i][1] = m /\ U[i][2] = Told(p, m)'
        BY <2>1, <3>1, <4>1, <4>2
      <4> QED
        BY <4>2, <4>3 DEF Told
    <3>2. CASE i = Len(T) + 1
      BY <2>2, <3>2 DEF Told
    <3> QED
      BY <2>1, <3>1, <3>2
  <2>5. ASSUME NEW i \in DOMAIN U, NEW j \in DOMAIN U, i < j PROVE U[i][1] < U[j][1]
    <3>1. i \in DOMAIN T
      BY <1>1, <2>1, <2>5
    <3>2. CASE j \in DOMAIN T
      BY <2>1, <2>5, <3>1, <3>2 DEF Books
    <3>3. CASE j = Len(T) + 1
      <4>1. T[i][1] \in Over(p)
        BY <3>1 DEF Books
      <4> QED
        BY <2>1, <2>2, <3>1, <3>3, <4>1
    <3> QED
      BY <2>1, <3>2, <3>3
  <2> QED
    BY <1>2, <2>3, <2>4, <2>5 DEF Books
<1> QED
  BY <1>3, <1>4
\* An operation is over: its status is truthful, and is recorded if it was
\* performed.
LEMMA RespondStep ==
  ASSUME IInv, NEW p \in Procs, NEW s \in Entry, pc[p] \in {"op", "audit"},
         Respond(p, s), UNCHANGED <<life, expired, req, status, performed, panicked>>,
         performed[p] \subseteq Over(p) \cup {k[p]},
         Tells(p, k[p], s),
         \/ UNCHANGED <<trail, lost>> /\ k[p] \notin performed[p]
         \/ trail' = [trail EXCEPT ![p] = Append(@, <<k[p], s>>)] /\ UNCHANGED lost
         \/ lost' = [lost EXCEPT ![p] = @ \cup {k[p]}] /\ UNCHANGED trail
  PROVE  IInv'
<1>1. /\ results[p] \in Seq(Entry) /\ trail[p] \in Seq(Nat \X Entry) /\ k[p] \in Nat
      /\ performed[p] \subseteq Nat /\ Local(p)
      /\ results \in [Procs -> Seq(Entry)] /\ trail \in [Procs -> Seq(Nat \X Entry)]
      /\ lost \in [Procs -> SUBSET Nat]
      /\ k \in [Procs -> Nat] /\ answer \in [Procs -> Statuses] /\ DOMAIN pc = Procs
  BY DEF IInv, TypeOK, Types
<1>2. /\ req[p] \in Requests /\ ~ panicked[p] /\ answer[p] = 0 /\ pc[p] \in Underway /\ Books(p)
      /\ k[p] # 0 => InLoop(p)
      /\ pc[p] # "sent" /\ pc[p] # "idle"
  BY <1>1 DEF Local, Underway
<1>3. /\ trail'[p] \in Seq(Nat \X Entry) /\ trail' \in [Procs -> Seq(Nat \X Entry)]
      /\ lost' \in [Procs -> SUBSET Nat] /\ lost[p] \subseteq lost'[p]
      /\ \/ trail'[p] = trail[p] /\ k[p] \notin performed[p] \ lost'[p]
         \/ trail'[p] = Append(trail[p], <<k[p], s>>)
      /\ \A q \in Procs \ {p} : trail'[q] = trail[q] /\ lost'[q] = lost[q]
  <2>1. Append(trail[p], <<k[p], s>>) \in Seq(Nat \X Entry)
    BY <1>1
  <2>2. CASE UNCHANGED <<trail, lost>> /\ k[p] \notin performed[p]
    BY <1>1, <2>2
  <2>3. CASE trail' = [trail EXCEPT ![p] = Append(@, <<k[p], s>>)] /\ UNCHANGED lost
    BY <1>1, <2>1, <2>3
  <2>4. CASE lost' = [lost EXCEPT ![p] = @ \cup {k[p]}] /\ UNCHANGED trail
    BY <1>1, <2>4
  <2> QED
    BY <2>2, <2>3, <2>4
<1>4. s \in Statuses /\ s # 0 /\ 200 \in Statuses
  BY DEF Entry, Statuses
<1>5. CASE k[p] = 0
  <2>1. /\ pc' = [pc EXCEPT ![p] = "sent"] /\ answer' = [answer EXCEPT ![p] = s]
        /\ UNCHANGED <<results, k>>
    BY <1>5 DEF Respond, Sends, Go
  <2>2. results[p] = <<>> /\ Over(p) = {} /\ Over(p)' = {0} /\ pc'[p] = "sent"
    BY <1>1, <1>2, <1>5, <2>1 DEF Local, Over
  <2>3. Told(p, 0)' = s
    BY <1>1, <2>1 DEF Told
  <2>4. Books(p)'
    BY <1>1, <1>2, <1>3, <1>5, <2>2, <2>3, BooksGrow
  <2>5. Local(p)'
    BY <1>2, <1>5, <2>1, <2>2, <2>4 DEF Local, Underway
  <2>6. TypeOK' /\ Types'
    BY <1>1, <1>3, <1>4, <2>1 DEF IInv, TypeOK, Types
  <2> QED
    BY <1>1, <1>2, <1>3, <2>1, <2>5, <2>6, OneRequest
<1>6. CASE k[p] # 0
  <2>0. PICK rs, n : rs = Append(results[p], s) /\ n = k[p]
    OBVIOUS
  <2> DEFINE ends == Stops(p, rs) \/ k[p] = Len(req[p].ops)
  <2>1. /\ results' = [results EXCEPT ![p] = rs]
        /\ ends => /\ pc' = [pc EXCEPT ![p] = "sent"] /\ answer' = [answer EXCEPT ![p] = 200]
                   /\ k' = k
        /\ ~ ends => /\ pc' = [pc EXCEPT ![p] = "op"] /\ k' = [k EXCEPT ![p] = @ + 1]
                     /\ answer' = answer
    BY <1>6, <2>0 DEF Respond, Sends, Go, Enter
  <2>2. /\ Len(results[p]) = k[p] - 1 /\ ~ Stops(p, results[p])
        /\ k[p] <= Len(req[p].ops) /\ (MaxBulkOps > 0 => Len(req[p].ops) <= MaxBulkOps)
        /\ InLoop(p)
    BY <1>1, <1>2, <1>6 DEF Local, InLoop
  <2>3. Len(req[p].ops) \in Nat
    BY <1>2, RequestTyped
  <2>4. /\ rs \in Seq(Entry) /\ Len(rs) = k[p] /\ DOMAIN rs = 1 .. k[p] /\ rs[k[p]] = s
        /\ \A j \in 1 .. k[p] - 1 : rs[j] = results[p][j]
        /\ DOMAIN results[p] = 1 .. k[p] - 1
    BY <1>1, <1>6, <2>0, <2>2
  <2>5. /\ results'[p] = rs /\ k'[p] \in Nat \ {0} /\ k' \in [Procs -> Nat]
        /\ results' \in [Procs -> Seq(Entry)]
        /\ ends => k'[p] = k[p] /\ pc'[p] = "sent"
        /\ ~ ends => k'[p] = k[p] + 1 /\ pc'[p] = "op" /\ answer'[p] = 0
    BY <1>1, <1>2, <1>6, <2>1, <2>4
  <2>6. Over(p) = 1 .. n - 1 /\ Over(p)' = 1 .. n
    BY <2>0, <1>6, <2>4, <2>5 DEF Over
  <2>7. ASSUME NEW m \in Over(p) PROVE m \in Nat /\ m < n /\ Told(p, m)' = Told(p, m)
    <3>1. m \in 1 .. n - 1 /\ m \in DOMAIN rs /\ m \in DOMAIN results[p]
      BY <2>0, <1>1, <2>4, <2>6
    <3> QED
      BY <2>0, <1>1, <2>4, <2>5, <3>1 DEF Told
  <2>8. Told(p, n)' = s
    BY <2>0, <1>1, <1>6, <2>4, <2>5 DEF Told
  <2>9. Books(p)'
    <3>1. Over(p)' = Over(p) \cup {n}
      BY <2>0, <1>1, <1>6, <2>6
    <3> QED
      BY <2>0, <1>1, <1>2, <1>3, <2>7, <2>8, <3>1, BooksGrow
  <2>10. TypeOK' /\ Types'
    <3>1. ASSUME NEW q \in Procs
          PROVE  /\ \A m \in DOMAIN results'[q] : results'[q][m] \in Statuses \ {0}
                 /\ MaxBulkOps > 0 => Len(results'[q]) <= MaxBulkOps
      <4>1. \A m \in DOMAIN results'[q] : results'[q][m] \in Statuses \ {0}
        <5>1. results'[q] \in Seq(Entry)
          BY <2>5
        <5> QED
          BY <5>1 DEF Entry
      <4>2. CASE q = p
        BY <1>1, <2>2, <2>3, <2>4, <2>5, <4>1, <4>2, ServerAssumption
      <4>3. CASE q # p
        BY <1>1, <2>1, <4>1, <4>3 DEF IInv, TypeOK
      <4> QED
        BY <4>2, <4>3
    <3>2. /\ pc' \in [Procs -> {"idle", "screen", "op", "store", "audit", "sent"}]
          /\ answer' \in [Procs -> Statuses]
      BY <1>1, <1>4, <2>1 DEF IInv, TypeOK
    <3> QED
      BY <1>3, <2>5, <3>1, <3>2 DEF IInv, TypeOK, Types
  <2>11. InLoop(p)'
    BY <2>2, <2>3, <2>5, <1>1 DEF InLoop
  <2>12. performed'[p] \subseteq Over(p)'
    BY <1>1, <1>6, <2>0, <2>6
  <2>13. ASSUME ends PROVE Local(p)'
    <3>1. SubSeq(rs, 1, k[p] - 1) = results[p]
      BY <1>1, <2>0, <2>2, FrontOfAppend
    <3>2. Complete(p)'
      BY <2>2, <2>4, <2>5, <2>13, <3>1 DEF Complete, Stops
    <3> QED
      BY <1>2, <2>5, <2>9, <2>11, <2>12, <2>13, <3>2 DEF Local, Underway
  <2>14. ASSUME ~ ends PROVE Local(p)'
    <3>1. Len(results[p])' = k'[p] - 1 /\ ~ Stops(p, results[p])'
      BY <1>1, <2>4, <2>5, <2>14 DEF Stops
    <3> QED
      BY <1>2, <2>5, <2>9, <2>11, <2>12, <2>14, <3>1 DEF Local, Underway
  <2>15. Local(p)'
    BY <2>13, <2>14
  <2> QED
    BY <1>1, <1>2, <1>3, <2>1, <2>10, <2>15, OneRequest
<1> QED
  BY <1>5, <1>6
\* What an operation under way finds.
LEMMA AtHand ==
  ASSUME IInv, NEW p \in Procs, pc[p] \in Underway
  PROVE  /\ k[p] \in Nat /\ k[p] \notin Over(p) /\ Nth(p, k[p]) = Op(p)
         /\ Routed(p).to = Target(Op(p)) /\ Target(Op(p)) \in Ends
         /\ Routed(p).status \in {0, 400, 404, 405}
         /\ pc[p] \in {"op", "store"} => performed[p] \subseteq Over(p) /\ k[p] \notin performed[p]
         /\ req[p] \in Requests /\ ~ panicked[p] /\ answer[p] = 0 /\ Books(p)
<1>1. k[p] \in Nat /\ Local(p) /\ results[p] \in Seq(Entry) /\ pc[p] \in {"op", "store", "audit"}
  BY DEF IInv, TypeOK, Types, Underway
<1>2. k[p] \notin Over(p)
  <2>1. CASE k[p] = 0
    BY <1>1, <2>1 DEF Over
  <2>2. CASE k[p] # 0
    <3>1. Len(results[p]) = k[p] - 1
      BY <1>1, <2>2 DEF Local
    <3> QED
      BY <1>1, <2>2, <3>1 DEF Over
  <2> QED
    BY <2>1, <2>2
<1>3. Routed(p).to = Target(Op(p)) /\ Target(Op(p)) \in Ends /\ Routed(p).status \in {0, 400, 404, 405}
  <2>1. CASE Op(p).path = Nil
    BY <2>1 DEF Routed, Target, Refused, Ends
  <2>2. CASE Op(p).path # Nil
    BY <2>2, Routes DEF Routed, Target
  <2> QED
    BY <2>1, <2>2
<1>4. Nth(p, k[p]) = Op(p)
  BY DEF Nth, Op
<1> QED
  BY <1>1, <1>2, <1>3, <1>4 DEF Local

\* The statuses of the store's answers.
LEMMA StoreStatuses ==
  ASSUME NEW to
  PROVE  Success(to) \in {200, 201, 204} /\ Errors(to) \subseteq {400, 404, 409, 413}
<1>1. Success(to) \in {200, 201, 204}
  BY DEF Success
<1>2. Own(to) \subseteq Relayed
  <2>1. ASSUME to = "Create" PROVE Own(to) = {409}
    BY <2>1 DEF Own
  <2>2. ASSUME to = "Replace" PROVE Own(to) = {404, 409}
    BY <2>2 DEF Own
  <2>3. ASSUME to = "Patch" PROVE Own(to) = {400, 404, 409}
    BY <2>3 DEF Own
  <2>4. ASSUME to = "List" PROVE Own(to) = {}
    BY <2>4 DEF Own
  <2>5. ASSUME to # "Create", to # "Replace", to # "Patch", to # "List" PROVE Own(to) = {404}
    BY <2>5 DEF Own
  <2> QED
    BY <2>1, <2>2, <2>3, <2>4, <2>5 DEF Relayed
<1> QED
  BY <1>1, <1>2 DEF Errors, Relayed

\* A request goes on with the operation at hand; the store may have changed.
LEMMA GoesOn ==
  ASSUME IInv, NEW p \in Procs, pc[p] \in {"op", "store"},
         NEW where \in {"store", "audit"}, Go(p, where),
         UNCHANGED <<life, expired, req, k, results, answer, panicked, trail, lost>>,
         status' \in [Procs -> Statuses], \A q \in Procs \ {p} : status'[q] = status[q],
         performed' = performed \/ performed' = Changed(p),
         where = "store" => performed' = performed,
         where = "audit" => status'[p] \in Entry /\ Tells(p, k[p], status[p])'
  PROVE  IInv'
<1>1. pc[p] \in Underway /\ pc[p] # "idle"
  BY DEF Underway
<1>2. /\ k[p] \in Nat /\ performed[p] \subseteq Over(p) /\ k[p] \notin Over(p)
      /\ req[p] \in Requests /\ ~ panicked[p] /\ answer[p] = 0 /\ Books(p) /\ Local(p)
  BY <1>1, AtHand DEF IInv
<1>3. /\ pc' = [pc EXCEPT ![p] = where] /\ pc'[p] = where /\ where \in Underway
      /\ \A q \in Procs \ {p} : pc'[q] = pc[q]
  BY DEF Go, IInv, TypeOK, Underway
<1>4. /\ performed' \in [Procs -> SUBSET Nat] /\ performed'[p] \subseteq performed[p] \cup {k[p]}
      /\ performed[p] \subseteq performed'[p]
      /\ \A q \in Procs \ {p} : performed'[q] = performed[q]
  <2>1. performed \in [Procs -> SUBSET Nat]
    BY DEF IInv, Types
  <2> QED
    BY <1>2, <2>1 DEF Changed
<1>5. Over(p)' = Over(p)
  BY <1>1, <1>3 DEF Over, Underway
<1>6. Books(p)'
  <2>1. ASSUME NEW n \in Over(p) PROVE Tells(p, n, Told(p, n))'
    <3>1. n # k[p] /\ Told(p, n)' = Told(p, n)
      BY <1>2 DEF Told
    <3>2. \A s : Tells(p, n, s) => Tells(p, n, s)'
      BY <1>4, <3>1 DEF Tells, Nth
    <3> QED
      BY <1>2, <3>1, <3>2 DEF Books
  <2>2. Over(p) \cap performed'[p] \subseteq Over(p) \cap performed[p]
    BY <1>2, <1>4
  <2> QED
    BY <1>2, <1>5, <2>1, <2>2 DEF Books, Told
<1>7. (InLoop(p)' <=> InLoop(p)) /\ (Stops(p, results[p])' <=> Stops(p, results[p]))
  BY DEF InLoop, Stops
<1>8. Local(p)'
  <2>1. performed'[p] \subseteq Over(p)' \cup {k'[p]}
    BY <1>2, <1>4, <1>5
  <2>2. where = "store" => performed'[p] \subseteq Over(p)'
    BY <1>2, <1>5
  <2> QED
    BY <1>1, <1>2, <1>3, <1>6, <1>7, <2>1, <2>2 DEF Local, Underway, Returned
<1>9. TypeOK' /\ Types'
  BY <1>3, <1>4 DEF IInv, TypeOK, Types, Underway
<1> QED
  BY <1>1, <1>3, <1>4, <1>8, <1>9, OneRequest

\* recoveryMiddleware ends the request.
LEMMA PanicStep ==
  ASSUME IInv, NEW p \in Procs, pc[p] \in {"op", "store"}, Panic(p),
         performed' = performed \/ performed' = Changed(p)
  PROVE  IInv'
<1>1. pc[p] \in Underway /\ pc[p] # "idle"
  BY DEF Underway
<1>2. k[p] \in Nat /\ req[p] \in Requests /\ Local(p)
  BY <1>1, AtHand DEF IInv
<1>3. /\ performed' \in [Procs -> SUBSET Nat]
      /\ \A q \in Procs \ {p} : performed'[q] = performed[q]
  BY <1>2 DEF Changed, IInv, Types
<1>4. /\ pc' = [pc EXCEPT ![p] = "sent"] /\ answer' = [answer EXCEPT ![p] = 500]
      /\ results' = [results EXCEPT ![p] = <<>>] /\ panicked' = [panicked EXCEPT ![p] = TRUE]
      /\ UNCHANGED <<life, expired, req, k, status, trail, lost>>
  BY DEF Panic, Sends, Go
<1>5. pc'[p] = "sent" /\ panicked'[p] /\ results'[p] = <<>>
  BY <1>4 DEF IInv, TypeOK, Types
<1>6. Types' /\ TypeOK'
  <2>1. Types'
    BY <1>3, <1>4 DEF IInv, Types
  <2>2. Len(<<>>) = 0 /\ DOMAIN <<>> = {} /\ 500 \in Statuses /\ MaxBulkOps \in Nat
    BY ServerAssumption DEF Statuses
  <2>3. \A q \in Procs : results'[q] = results[q] \/ results'[q] = <<>>
    BY <1>4 DEF IInv, Types
  <2>4. ASSUME NEW q \in Procs
        PROVE  /\ \A n \in DOMAIN results'[q] : results'[q][n] \in Statuses \ {0}
               /\ MaxBulkOps > 0 => Len(results'[q]) <= MaxBulkOps
               /\ performed'[q] \subseteq Nat
    <3>1. CASE results'[q] = results[q]
      BY <1>3, <3>1 DEF IInv, TypeOK
    <3>2. CASE results'[q] = <<>>
      BY <1>3, <2>2, <3>2
    <3> QED
      BY <2>3, <3>1, <3>2
  <2>5. /\ pc' \in [Procs -> {"idle", "screen", "op", "store", "audit", "sent"}]
        /\ answer' \in [Procs -> Statuses]
    BY <1>4, <2>2 DEF IInv, TypeOK
  <2> QED
    BY <1>4, <2>1, <2>4, <2>5 DEF IInv, TypeOK
<1>7. InLoop(p)' <=> InLoop(p)
  BY <1>4 DEF InLoop
<1>8. Local(p)'
  BY <1>1, <1>2, <1>4, <1>5, <1>7 DEF Local, Underway
<1>9. \A q \in Procs \ {p} :
           /\ pc'[q] = pc[q] /\ results'[q] = results[q] /\ answer'[q] = answer[q]
           /\ panicked'[q] = panicked[q]
  BY <1>4 DEF IInv, TypeOK, Types
<1> QED
  BY <1>1, <1>3, <1>4, <1>6, <1>8, <1>9, OneRequest
-----------------------------------------------------------------------------
(* One step per action.                                                     *)

\* Before the first operation nothing has been written anywhere.
LEMMA Untouched ==
  ASSUME IInv, NEW p \in Procs, k[p] = 0, pc[p] \in {"screen", "op"}
  PROVE  /\ results[p] = <<>> /\ performed[p] = {} /\ trail[p] = <<>>
         /\ req[p] \in Requests /\ ~ panicked[p] /\ answer[p] = 0
<1>1. Local(p) /\ trail[p] \in Seq(Nat \X Entry) /\ pc[p] # "idle" /\ pc[p] # "sent"
  BY DEF IInv, Types
<1>2. CASE pc[p] = "screen"
  BY <1>1, <1>2 DEF Local, Unused
<1>3. CASE pc[p] = "op"
  <2>1. Over(p) = {} /\ performed[p] \subseteq Over(p) /\ Books(p) /\ results[p] = <<>>
    BY <1>1, <1>3 DEF Over, Local
  <2>2. DOMAIN trail[p] = {}
    BY <2>1 DEF Books
  <2>3. trail[p] = <<>>
    <3>1. DOMAIN trail[p] = 1 .. Len(trail[p]) /\ Len(trail[p]) \in Nat
      BY <1>1
    <3>2. Len(trail[p]) = 0
      <4>1. Len(trail[p]) > 0 => 1 \in DOMAIN trail[p]
        BY <3>1
      <4> QED
        BY <2>2, <3>1, <4>1
    <3> QED
      BY <1>1, <3>2
  <2> QED
    BY <1>1, <2>1, <2>3 DEF Local
<1> QED
  BY <1>2, <1>3

LEMMA ReceiveStep == ASSUME IInv, NEW p \in Procs, Receive(p) PROVE IInv'
<1>1. PICK r \in Requests : req' = [req EXCEPT ![p] = r]
  BY DEF Receive
<1>2. /\ life = "serving" /\ pc[p] = "idle" /\ pc' = [pc EXCEPT ![p] = "screen"]
      /\ UNCHANGED <<life, expired, k, status, results, answer, performed, panicked, trail, lost>>
  BY DEF Receive, Go
<1>3. /\ pc'[p] = "screen" /\ req'[p] = r /\ req' \in [Procs -> Requests \cup {Nil}]
      /\ pc' \in [Procs -> {"idle", "screen", "op", "store", "audit", "sent"}]
      /\ \A q \in Procs \ {p} : pc'[q] = pc[q] /\ req'[q] = req[q]
  BY <1>1, <1>2 DEF IInv, TypeOK
<1>4. /\ Unused(p) /\ Unused(p)' /\ ~ panicked'[p] /\ answer'[p] = 0
  BY <1>2 DEF IInv, Local, Unused
<1>5. Books(p)'
  BY <1>2, <1>3, <1>4 DEF Books, Over, Unused
<1>6. Local(p)'
  BY <1>1, <1>3, <1>4, <1>5 DEF Local, Unused, Underway
<1>7. TypeOK' /\ Types'
  BY <1>2, <1>3 DEF IInv, TypeOK, Types
<1> QED
  BY <1>2, <1>3, <1>6, <1>7, OneRequest

LEMMA ScreenStep == ASSUME IInv, NEW p \in Procs, Screen(p) PROVE IInv'
<1>1. /\ pc[p] = "screen" /\ k[p] = 0
      /\ UNCHANGED <<life, expired, req, k, status, results, performed, panicked, trail, lost>>
  BY DEF Screen, IInv, Local, Unused
<1>2. /\ results[p] = <<>> /\ performed[p] = {} /\ trail[p] = <<>>
      /\ req[p] \in Requests /\ ~ panicked[p] /\ answer[p] = 0
  BY <1>1, Untouched
<1>3. CASE Refusal(req[p]) # 0
  <2>1. PICK s : s = Refusal(req[p])
    OBVIOUS
  <2>2. s \in {406, 415, 500, 401} /\ s \in Statuses
    BY <1>3, <2>1 DEF Refusal, Statuses
  <2>3. pc' = [pc EXCEPT ![p] = "sent"] /\ answer' = [answer EXCEPT ![p] = s]
    BY <1>3, <2>1 DEF Screen, Sends, Go
  <2>4. /\ pc'[p] = "sent" /\ answer'[p] = s /\ answer' \in [Procs -> Statuses]
        /\ pc' \in [Procs -> {"idle", "screen", "op", "store", "audit", "sent"}]
        /\ \A q \in Procs \ {p} : pc'[q] = pc[q] /\ answer'[q] = answer[q]
    BY <2>2, <2>3 DEF IInv, TypeOK
  <2>5. Books(p)'
    <3>1. Over(p)' = {0} /\ Told(p, 0)' = s
      BY <1>1, <2>4 DEF Over, Told
    <3>2. Tells(p, 0, s)'
      <4>1. s \notin 200 .. 299
        BY <2>2
      <4>2. performed'[p] = {}
        BY <1>1, <1>2
      <4> QED
        BY <4>1, <4>2 DEF Tells
    <3>3. \A n \in Over(p)' : Told(p, n)' = s /\ n = 0
      BY <3>1
    <3> QED
      BY <1>1, <1>2, <3>1, <3>2, <3>3 DEF Books
  <2>6. Local(p)'
    BY <1>1, <1>2, <2>4, <2>5 DEF Local, Underway
  <2>7. TypeOK' /\ Types'
    BY <1>1, <2>4 DEF IInv, TypeOK, Types
  <2> QED
    BY <1>1, <2>4, <2>6, <2>7, OneRequest
<1>4. CASE Refusal(req[p]) = 0
  <2>1. pc' = [pc EXCEPT ![p] = "op"] /\ UNCHANGED answer
    BY <1>4 DEF Screen, Go
  <2>2. /\ pc'[p] = "op" /\ pc' \in [Procs -> {"idle", "screen", "op", "store", "audit", "sent"}]
        /\ \A q \in Procs \ {p} : pc'[q] = pc[q]
    BY <2>1 DEF IInv, TypeOK
  <2>3. Books(p)'
    BY <1>1, <1>2, <2>1, <2>2 DEF Books, Over
  <2>4. Local(p)'
    BY <1>1, <1>2, <2>1, <2>2, <2>3 DEF Local, Underway
  <2>5. TypeOK' /\ Types'
    BY <1>1, <2>1, <2>2 DEF IInv, TypeOK, Types
  <2> QED
    BY <1>1, <2>1, <2>2, <2>4, <2>5, OneRequest
<1> QED
  BY <1>3, <1>4

LEMMA DispatchStep == ASSUME IInv, NEW p \in Procs, Dispatch(p) PROVE IInv'
<1>1. /\ pc[p] = "op" /\ Routed(p).to # "Bulk"
      /\ UNCHANGED <<life, expired, req, performed, panicked, trail, lost>>
  BY DEF Dispatch
<1>2. pc[p] \in Underway
  BY <1>1 DEF Underway
<1>3. /\ k[p] \in Nat /\ k[p] \notin Over(p) /\ Nth(p, k[p]) = Op(p)
      /\ Routed(p).to = Target(Op(p)) /\ Routed(p).status \in {0, 400, 404, 405}
      /\ performed[p] \subseteq Over(p) /\ k[p] \notin performed[p]
  BY <1>1, <1>2, AtHand
<1>4. CASE Unrecorded(p) # 0 /\ Respond(p, Unrecorded(p)) /\ UNCHANGED status
  <2>1. PICK s : s = Unrecorded(p)
    OBVIOUS
  <2>2. /\ s \in {200, 400, 404, 405}
        /\ s = 200 => Routed(p).to = "Discovery"
    <3>1. CASE Routed(p).to = "nobody"
      BY <1>3, <1>4, <2>1, <3>1 DEF Unrecorded
    <3>2. CASE Routed(p).to = "Discovery"
      <4>1. \A path : DiscoveryStatus(path) \in {200, 404}
        BY DEF DiscoveryStatus
      <4> QED
        BY <1>4, <2>1, <3>2, <4>1 DEF Unrecorded
    <3>3. CASE Routed(p).to \notin {"nobody", "Discovery"}
      BY <1>4, <2>1, <3>3 DEF Unrecorded
    <3> QED
      BY <3>1, <3>2, <3>3
  <2>3. s \in Entry
    BY <2>2 DEF Entry, Statuses
  <2>4. Tells(p, k[p], s)
    BY <1>3, <2>2 DEF Tells, Mutations
  <2> QED
    BY <1>1, <1>3, <1>4, <2>1, <2>3, <2>4, RespondStep
<1>5. CASE Unrecorded(p) = 0 /\ Recorded(p) /\ status' = [status EXCEPT ![p] = 400] /\ Go(p, "audit")
           /\ UNCHANGED <<k, results, answer>>
  <2>1. /\ status' \in [Procs -> Statuses] /\ status'[p] = 400 /\ 400 \in Entry
        /\ \A q \in Procs \ {p} : status'[q] = status[q]
    BY <1>5 DEF IInv, TypeOK, Entry, Statuses
  <2>2. Tells(p, k[p], status[p])'
    BY <1>1, <1>3, <1>5, <2>1 DEF Tells
  <2> QED
    BY <1>1, <1>5, <2>1, <2>2, GoesOn
<1>6. CASE Go(p, "store") /\ UNCHANGED status /\ UNCHANGED <<k, results, answer>>
  BY <1>1, <1>6, GoesOn DEF IInv, TypeOK
<1> QED
  BY <1>4, <1>5, <1>6 DEF Dispatch

LEMMA BulkStep == ASSUME IInv, NEW p \in Procs, Bulk(p) PROVE IInv'
<1>1. /\ pc[p] = "op" /\ Routed(p).to = "Bulk" /\ pc[p] \in Underway /\ pc[p] # "idle"
      /\ UNCHANGED <<life, expired, req, status, performed, panicked, trail, lost>>
  BY DEF Bulk, Underway
<1>2. /\ k[p] \in Nat /\ Target(Op(p)) = "Bulk" /\ Nth(p, k[p]) = Op(p) /\ Local(p)
      /\ req[p] \in Requests
  BY <1>1, AtHand DEF IInv
<1>3. performed[p] \subseteq Over(p) /\ k[p] \notin performed[p]
  BY <1>1, AtHand
<1>4. ASSUME NEW s \in {200, 400, 413}, Respond(p, s) PROVE IInv'
  <2>1. s \in Entry
    BY DEF Entry, Statuses
  <2>2. Tells(p, k[p], s)
    BY <1>2, <1>3 DEF Tells, Mutations
  <2> QED
    BY <1>1, <1>3, <1>4, <2>1, <2>2, RespondStep
<1>5. Unrecorded(p) \in {0, 400}
  BY <1>1 DEF Unrecorded
<1>6. CASE Unrecorded(p) = 0 /\ k' = [k EXCEPT ![p] = 1] /\ UNCHANGED <<pc, results, answer>>
           /\ ~ TooMany(p) /\ req[p].ops # <<>>
  <2>1. k[p] = 0
    <3> SUFFICES ASSUME k[p] # 0 PROVE FALSE
      OBVIOUS
    <3>1. k[p] \in DOMAIN req[p].ops /\ Op(p) = req[p].ops[k[p]]
      BY <1>2, RequestTyped DEF Local, InLoop, Op
    <3>2. Op(p).body \in {"none", "broken", "wrong"}
      BY <1>2, <3>1, RequestTyped DEF Bodies
    <3> QED
      BY <1>1, <1>6, <3>2 DEF Unrecorded, Reads
  <2>2. /\ results[p] = <<>> /\ performed[p] = {} /\ trail[p] = <<>>
        /\ req[p] \in Requests /\ ~ panicked[p] /\ answer[p] = 0 /\ Target(req[p].op) = "Bulk"
    BY <1>1, <1>2, <2>1, Untouched DEF Op
  <2>3. /\ k'[p] = 1 /\ k' \in [Procs -> Nat] /\ \A q \in Procs \ {p} : k'[q] = k[q]
    BY <1>6 DEF IInv, TypeOK
  <2>4. Len(req[p].ops) \in Nat /\ Len(req[p].ops) # 0 /\ req[p].fail \in Nat
    BY <1>2, <1>6, RequestTyped
  <2>5. InLoop(p)'
    BY <1>1, <1>6, <2>3, <2>4, <2>2, ServerAssumption DEF InLoop, TooMany
  <2>6. Over(p)' = {}
    BY <1>1, <1>6, <2>2, <2>3 DEF Over
  <2>7. Books(p)'
    BY <1>1, <2>2, <2>6 DEF Books
  <2>8. Len(results[p])' = k'[p] - 1 /\ ~ Stops(p, results[p])'
    BY <1>1, <1>6, <2>2, <2>3, <2>4, NothingFailed DEF Stops
  <2>9. Local(p)'
    BY <1>1, <1>2, <2>2, <1>6, <2>3, <2>5, <2>6, <2>7, <2>8 DEF Local, Underway
  <2>10. TypeOK' /\ Types'
    BY <1>1, <1>6, <2>3 DEF IInv, TypeOK, Types
  <2> QED
    BY <1>1, <1>6, <2>3, <2>9, <2>10, OneRequest
<1> QED
  BY <1>4, <1>5, <1>6 DEF Bulk

LEMMA StoreReturnsStep == ASSUME IInv, NEW p \in Procs, StoreReturns(p) PROVE IInv'
<1>1. /\ pc[p] = "store" /\ Go(p, "audit") /\ pc[p] \in Underway
      /\ UNCHANGED <<life, expired, req, k, results, answer, panicked, trail, lost>>
  BY DEF StoreReturns, Underway
<1>2. /\ k[p] \in Nat /\ Nth(p, k[p]) = Op(p) /\ Routed(p).to = Target(Op(p))
      /\ performed[p] \subseteq Over(p) /\ k[p] \notin performed[p]
  BY <1>1, AtHand
<1>3. Nth(p, k[p])' = Op(p)
  BY <1>1, <1>2 DEF Nth
<1>4. ASSUME NEW s \in Entry, status' = [status EXCEPT ![p] = s],
             performed' = performed \/ performed' = Changed(p),
             s \in 200 .. 299 /\ Routed(p).to \in Mutations => k[p] \in performed'[p],
             s \notin 200 .. 299 /\ ~ Unsure(Routed(p).to, s) => k[p] \notin performed'[p]
      PROVE  IInv'
  <2>1. /\ status' \in [Procs -> Statuses] /\ status'[p] = s
        /\ \A q \in Procs \ {p} : status'[q] = status[q]
    BY <1>4 DEF IInv, TypeOK, Entry
  <2>2. Tells(p, k[p], status[p])'
    BY <1>1, <1>2, <1>3, <1>4, <2>1 DEF Tells
  <2> QED
    BY <1>1, <1>4, <2>1, <2>2, GoesOn
<1>5. ASSUME status' = [status EXCEPT ![p] = Success(Routed(p).to)], performed' = Changed(p)
      PROVE  IInv'
  <2>1. PICK s : s = Success(Routed(p).to)
    OBVIOUS
  <2>2. s \in {200, 201, 204} /\ s \in Entry
    BY <2>1, StoreStatuses DEF Entry, Statuses
  <2>3. Routed(p).to \in Mutations => k[p] \in performed'[p]
    BY <1>5 DEF Changed, IInv, Types
  <2>4. s \in 200 .. 299
    BY <2>2
  <2> QED
    BY <1>4, <1>5, <2>1, <2>2, <2>3, <2>4
<1>6. ASSUME NEW s \in Errors(Routed(p).to), status' = [status EXCEPT ![p] = s],
             \/ UNCHANGED performed
             \/ ReadsBack(Routed(p).to) /\ s \in Relayed /\ performed' = Changed(p)
      PROVE  IInv'
  <2>1. s \in {400, 404, 409, 413} /\ s \in Entry
    BY StoreStatuses DEF Entry, Statuses
  <2>2. s \notin 200 .. 299
    BY <2>1
  <2>3. ~ Unsure(Routed(p).to, s) => k[p] \notin performed'[p]
    BY <1>2, <1>6 DEF Unsure
  <2> QED
    BY <1>4, <1>6, <2>1, <2>2, <2>3
<1>7. ASSUME status' = [status EXCEPT ![p] = 500], performed' \in {performed, Changed(p)}
      PROVE  IInv'
  <2>1. 500 \in Entry
    BY DEF Entry, Statuses
  <2>2. 500 \notin 200 .. 299 /\ Unsure(Routed(p).to, 500)
    BY DEF Unsure
  <2> QED
    BY <1>4, <1>7, <2>1, <2>2
<1> QED
  BY <1>5, <1>6, <1>7 DEF StoreReturns

LEMMA AuditStep == ASSUME IInv, NEW p \in Procs, Audit(p) PROVE IInv'
<1>1. /\ pc[p] = "audit" /\ Respond(p, status[p])
      /\ UNCHANGED <<life, expired, req, status, performed, panicked>>
      /\ \/ trail' = [trail EXCEPT ![p] = Append(@, <<k[p], status[p]>>)] /\ UNCHANGED lost
         \/ lost' = [lost EXCEPT ![p] = @ \cup {k[p]}] /\ UNCHANGED trail
  BY DEF Audit, Record
<1>2. /\ status[p] \in Entry /\ performed[p] \subseteq Over(p) \cup {k[p]}
      /\ Tells(p, k[p], status[p])
  BY <1>1 DEF IInv, Local, Returned
<1> QED
  BY <1>1, <1>2, RespondStep

LEMMA DoneStep == ASSUME IInv, NEW p \in Procs, Done(p) PROVE IInv'
<1>1. /\ pc[p] = "sent" /\ pc' = [pc EXCEPT ![p] = "idle"]
      /\ req' = [req EXCEPT ![p] = Nil] /\ k' = [k EXCEPT ![p] = 0]
      /\ status' = [status EXCEPT ![p] = 0] /\ results' = [results EXCEPT ![p] = <<>>]
      /\ answer' = [answer EXCEPT ![p] = 0] /\ performed' = [performed EXCEPT ![p] = {}]
      /\ panicked' = [panicked EXCEPT ![p] = FALSE] /\ trail' = [trail EXCEPT ![p] = <<>>]
      /\ lost' = [lost EXCEPT ![p] = {}]
      /\ UNCHANGED <<life, expired>>
  BY DEF Done, Go
<1>2. /\ pc'[p] = "idle" /\ k'[p] = 0 /\ results'[p] = <<>> /\ answer'[p] = 0
      /\ performed'[p] = {} /\ panicked'[p] = FALSE /\ trail'[p] = <<>> /\ lost'[p] = {}
  BY <1>1 DEF IInv, TypeOK, Types
<1>3. \A q \in Procs \ {p} :
           /\ pc'[q] = pc[q] /\ req'[q] = req[q] /\ k'[q] = k[q] /\ status'[q] = status[q]
           /\ results'[q] = results[q] /\ answer'[q] = answer[q] /\ performed'[q] = performed[q]
           /\ panicked'[q] = panicked[q] /\ trail'[q] = trail[q] /\ lost'[q] = lost[q]
  BY <1>1 DEF IInv, TypeOK, Types
<1>4. Local(p)'
  <2>1. Books(p)'
    BY <1>2 DEF Books, Over
  <2> QED
    BY <1>2, <2>1 DEF Local, Unused, Underway
<1>5. Types'
  BY <1>1 DEF IInv, Types
<1>6. TypeOK'
  <2>1. Len(<<>>) = 0 /\ DOMAIN <<>> = {} /\ 0 \in Statuses /\ MaxBulkOps \in Nat
    BY ServerAssumption DEF Statuses
  <2>2. ASSUME NEW q \in Procs
        PROVE  /\ \A n \in DOMAIN results'[q] : results'[q][n] \in Statuses \ {0}
               /\ MaxBulkOps > 0 => Len(results'[q]) <= MaxBulkOps
               /\ performed'[q] \subseteq Nat
    <3>1. CASE q = p
      BY <1>2, <2>1, <3>1
    <3>2. CASE q # p
      BY <1>3, <3>2 DEF IInv, TypeOK
    <3> QED
      BY <3>1, <3>2
  <2>3. /\ pc' \in [Procs -> {"idle", "screen", "op", "store", "audit", "sent"}]
        /\ req' \in [Procs -> Requests \cup {Nil}] /\ k' \in [Procs -> Nat]
        /\ status' \in [Procs -> Statuses] /\ answer' \in [Procs -> Statuses]
    BY <1>1, <2>1 DEF IInv, TypeOK
  <2> QED
    BY <1>1, <2>2, <2>3 DEF IInv, TypeOK
<1> QED
  BY <1>1, <1>3, <1>4, <1>5, <1>6, OneRequest

\* The process changes its life only.
LEMMA ProcessStep == ASSUME IInv, Process PROVE IInv'
<1>1. UNCHANGED <<pc, req, k, status, results, answer, performed, panicked, trail, lost>>
  BY DEF Process, Signal, ListenFails, Expire, Shutdown, CloseStore, Exit, Becomes, request
<1>2. TypeOK' /\ Types'
  <2>1. life' \in {"serving", "draining", "closing", "closed", "exited"} /\ expired' \in BOOLEAN
    BY DEF Process, Signal, ListenFails, Expire, Shutdown, CloseStore, Exit, Becomes, IInv, TypeOK
  <2> QED
    BY <1>1, <2>1 DEF IInv, TypeOK, Types
<1>3. NoCutOff'
  BY <1>1 DEF Process, Signal, ListenFails, Expire, Shutdown, CloseStore, Exit, Becomes, Drained,
              IInv, NoCutOff
<1>4. ASSUME NEW q \in Procs PROVE Local(q)'
  BY <1>1, LocalFrame DEF IInv
<1> QED
  BY <1>2, <1>3, <1>4 DEF IInv

LEMMA StepInductive == IInv /\ [Next]_vars => IInv'
<1> SUFFICES ASSUME IInv, [Next]_vars PROVE IInv'
  OBVIOUS
<1>1. CASE Process
  BY <1>1, ProcessStep
<1>2. ASSUME NEW p \in Procs, Receive(p) \/ Handler(p) \/ StoreReturns(p) \/ StorePanics(p)
      PROVE  IInv'
  <2>1. CASE Receive(p)
    BY <2>1, ReceiveStep
  <2>2. CASE Screen(p)
    BY <2>2, ScreenStep
  <2>3. CASE Dispatch(p)
    BY <2>3, DispatchStep
  <2>4. CASE DispatchPanics(p)
    BY <2>4, PanicStep DEF DispatchPanics
  <2>5. CASE Bulk(p)
    BY <2>5, BulkStep
  <2>6. CASE Audit(p)
    BY <2>6, AuditStep
  <2>7. CASE Done(p)
    BY <2>7, DoneStep
  <2>8. CASE StoreReturns(p)
    BY <2>8, StoreReturnsStep
  <2>9. CASE StorePanics(p)
    BY <2>9, PanicStep DEF StorePanics
  <2> QED
    BY <1>2, <2>1, <2>2, <2>3, <2>4, <2>5, <2>6, <2>7, <2>8, <2>9 DEF Handler
<1>3. CASE UNCHANGED vars
  <2>1. /\ UNCHANGED <<life, expired>>
        /\ UNCHANGED <<pc, req, k, status, results, answer, performed, panicked, trail, lost>>
    BY <1>3 DEF vars, request
  <2>2. TypeOK' /\ Types' /\ NoCutOff'
    BY <2>1 DEF IInv, TypeOK, Types, NoCutOff
  <2>3. ASSUME NEW q \in Procs PROVE Local(q)'
    BY <2>1, LocalFrame DEF IInv
  <2> QED
    BY <2>2, <2>3 DEF IInv
<1> QED
  BY <1>1, <1>2, <1>3 DEF Next

-----------------------------------------------------------------------------
(* Theorems.                                                                *)

\* The strengthening every theorem below rests on.
THEOREM Inductive == Spec => []IInv
BY Starts, StepInductive, PTL DEF Spec

\* handleBulk counts no operation twice and leaves none out: the answer has an
\* entry for each operation up to the failOnErrors-th failure and none after it,
\* nothing after it was performed, and MaxBulkOps bounds the entries.
THEOREM BulkEnds == Spec => []BulkStops
<1>1. IInv => BulkStops
  <2> SUFFICES ASSUME IInv, NEW p \in Procs, pc[p] = "sent", k[p] > 0, ~ panicked[p]
               PROVE  LET before == SubSeq(results[p], 1, Len(results[p]) - 1)
                      IN  /\ ~ (req[p].fail > 0 /\ Failures(before) >= req[p].fail)
                          /\ \/ Len(results[p]) = Len(req[p].ops)
                             \/ req[p].fail > 0 /\ Failures(results[p]) = req[p].fail
                          /\ \A n \in performed[p] : n <= Len(results[p])
    BY DEF BulkStops
  <2>1. /\ Complete(p) /\ performed[p] \subseteq Over(p) /\ results[p] \in Seq(Entry)
        /\ k[p] \in Nat /\ k[p] # 0 /\ req[p] \in Requests
    BY DEF IInv, Local, TypeOK, Types
  <2>2. results[p] # <<>> /\ Len(results[p]) = k[p]
    BY <2>1 DEF Complete
  <2>3. PICK before \in Seq(Entry), s \in Entry :
          before = SubSeq(results[p], 1, Len(results[p]) - 1) /\ results[p] = Append(before, s)
    BY <2>1, <2>2, LastOf
  <2>4. Failures(before) \in Nat /\ Failures(results[p]) \in {Failures(before), Failures(before) + 1}
    BY <2>3, FailuresAppend
  <2>5. req[p].fail \in Nat
    BY <2>1, RequestTyped
  <2>6. ~ (req[p].fail > 0 /\ Failures(before) >= req[p].fail)
    BY <2>1, <2>2, <2>3 DEF Complete, Stops
  <2>7. \/ Len(results[p]) = Len(req[p].ops)
        \/ req[p].fail > 0 /\ Failures(results[p]) = req[p].fail
    BY <2>1, <2>4, <2>5, <2>6 DEF Complete, Stops
  <2>8. \A n \in performed[p] : n <= Len(results[p])
    BY <2>1 DEF Over
  <2> QED
    BY <2>3, <2>6, <2>7, <2>8
<1> QED
  BY <1>1, Inductive, PTL

\* Whatever the handlers, the store and its errors do, a request that ends
\* without a panic is answered truthfully, operation by operation; only 500, and
\* an error of a PATCH where the store is the proxy, leave it open.
THEOREM AnswerTrue == Spec => []AnswerTells
<1>1. IInv => AnswerTells
  <2> SUFFICES ASSUME IInv, NEW p \in Procs, pc[p] = "sent", ~ panicked[p],
                      NEW n \in 0 .. Len(req[p].ops)
               PROVE  LET to == Target(IF n = 0 THEN req[p].op ELSE req[p].ops[n])
                      IN  /\ Told(p, n) \in 200 .. 299 /\ to \in Mutations => n \in performed[p]
                          /\ Told(p, n) \notin 200 .. 299 /\ ~ Unsure(to, Told(p, n))
                               => n \notin performed[p]
    BY DEF AnswerTells
  <2>1. /\ Books(p) /\ performed[p] \subseteq Over(p) /\ results[p] \in Seq(Entry)
        /\ k[p] = 0 => results[p] = <<>>
        /\ k[p] # 0 => Target(req[p].op) = "Bulk"
    BY DEF IInv, Local, Types, InLoop
  <2>2. Tells(p, n, Told(p, n))
    <3>1. CASE n \in Over(p)
      BY <2>1, <3>1 DEF Books
    <3>2. CASE n \notin Over(p) /\ n # 0
      <4>1. n \notin DOMAIN results[p]
        BY <2>1, <3>2 DEF Over
      <4>2. Told(p, n) = 0 /\ n \notin performed[p]
        BY <2>1, <3>2, <4>1 DEF Told
      <4> QED
        BY <4>2 DEF Tells
    <3>3. CASE n \notin Over(p) /\ n = 0
      <4>1. Target(Nth(p, n)) \notin Mutations /\ n \notin performed[p]
        BY <2>1, <3>3 DEF Over, Nth, Mutations
      <4> QED
        BY <4>1 DEF Tells
    <3> QED
      BY <3>1, <3>2, <3>3
  <2> QED
    BY <2>2 DEF Tells, Nth
<1> QED
  BY <1>1, Inductive, PTL

\* logAudit, called by every handler that reached the store: the log and the
\* answer tell the same story, in the order of the operations, and a Log that
\* fails costs the record it could not write.
THEOREM AuditTrue == Spec => []AuditTells
<1>1. IInv => AuditTells
  <2> SUFFICES ASSUME IInv, NEW p \in Procs, pc[p] = "sent", ~ panicked[p]
               PROVE  /\ \A n \in performed[p] \ lost[p] : \E i \in DOMAIN trail[p] : trail[p][i][1] = n
                      /\ \A i \in DOMAIN trail[p] : trail[p][i][2] = Told(p, trail[p][i][1])
                      /\ \A i, j \in DOMAIN trail[p] : i < j => trail[p][i][1] < trail[p][j][1]
    BY DEF AuditTells
  <2>1. Books(p) /\ performed[p] \subseteq Over(p)
    BY DEF IInv, Local
  <2> QED
    BY <2>1 DEF Books
<1> QED
  BY <1>1, Inductive, PTL

\* Shutdown before Close: no request is under way when the store is closed,
\* unless ShutdownTimeout has passed.
THEOREM Drains == Spec => []NoCutOff
<1>1. IInv => NoCutOff
  BY DEF IInv
<1> QED
  BY <1>1, Inductive, PTL

\* No answer of handleBulk has more than MaxBulkOps entries, and every status is
\* one the handlers write.
THEOREM TypeCorrect == Spec => []TypeOK
<1>1. IInv => TypeOK
  BY DEF IInv
<1> QED
  BY <1>1, Inductive, PTL

=============================================================================
