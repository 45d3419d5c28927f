--------------------------- MODULE SqlStoreProofs ---------------------------
(***************************************************************************)
(* Proofs about SqlStore for every set of goroutines, identifiers,         *)
(* attributes and requests, and every database unless a theorem names it.  *)
(***************************************************************************)
EXTENDS SqlStore, FiniteSetTheorems, TLAPS

-----------------------------------------------------------------------------
(* Lemmas about the operators of the model.                                 *)

Contents == Values \cup {Nil}
Instants == Times \cup {Nil}
Outcomes == {"none", "ok", "internal", "notFound", "conflict", "badPatch"}

\* Formatting and parsing a time gives a time, and doing so again the same one.
LEMMA TruncateOnce ==
  ASSUME NEW t \in Instants
  PROVE  Truncate(t) \in Instants /\ Truncate(Truncate(t)) = Truncate(t)
<1>1. CASE t = Nil
  BY <1>1 DEF Truncate, Instants
<1>2. CASE t # Nil
  <2>1. t \in Nat /\ t <= MaxClock /\ PerSecond \in Nat /\ PerSecond > 0 /\ MaxClock \in Nat
    BY <1>2, SqlNumbersAssumption DEF Times, Instants
  <2> DEFINE q == t \div PerSecond
  <2>2. q \in Int /\ PerSecond * q <= t /\ t < PerSecond * (q + 1)
    BY <2>1
  <2>3. q >= 0
    BY <2>1, <2>2
  <2>4. PerSecond * q >= 0 /\ PerSecond * q \in Int
    BY <2>1, <2>2, <2>3
  <2>5. PerSecond * q \in Times
    BY <2>1, <2>2, <2>4 DEF Times
  <2>6. (PerSecond * q) \div PerSecond = q
    BY <2>1, <2>2
  <2>7. Truncate(t) = PerSecond * q
    BY <1>2 DEF Truncate
  <2>8. PerSecond * q # Nil
    BY <2>5, SqlNilAssumption
  <2> HIDE DEF q
  <2>9. Truncate(PerSecond * q) = PerSecond * ((PerSecond * q) \div PerSecond)
    BY <2>8 DEF Truncate
  <2> QED
    BY <2>5, <2>6, <2>7, <2>9 DEF Instants
<1> QED
  BY <1>1, <1>2

\* What the table keeps of a resource.
LEMMA StoredKeeps ==
  ASSUME NEW o \in Resources
  PROVE  /\ Stored(o) \in Resources
         /\ Stored(o).id = o.id /\ Stored(o).attrs = o.attrs
         /\ Truncate(Stored(o).created) = Truncate(o.created)
<1>1. o.created \in Instants /\ o.modified \in Instants
  BY DEF Resources, Instants
<1>2. /\ Truncate(o.created) \in Instants /\ Truncate(o.modified) \in Instants
      /\ Truncate(Truncate(o.created)) = Truncate(o.created)
  BY <1>1, TruncateOnce
<1> QED
  BY <1>1, <1>2 DEF Stored, Resources, Instants

\* What a SELECT brings back of it.
LEMMA ReadBackKeeps ==
  ASSUME NEW o \in Resources
  PROVE  /\ ReadBack(o) \in Resources
         /\ ReadBack(o).id = o.id /\ ReadBack(o).attrs = o.attrs
         /\ Dialect # "mongodb" => ReadBack(o) = o
BY DEF ReadBack, Resources

\* A request on one resource names it, and its attributes are attributes.
LEMMA RequestTyped ==
  ASSUME NEW r \in Requests
  PROVE  /\ r.op \in {"Create", "Get", "List", "Replace", "Patch", "Delete"}
         /\ r.op \in {"Get", "Replace", "Patch", "Delete"} => r.id \in Ids
         /\ \A x \in DOMAIN r.attrs : x \in Attrs /\ r.attrs[x] \in Contents
<1>1. r \in RequestType /\ (r.op \in {"Get", "Replace", "Patch", "Delete"} => r.id # Nil)
  BY SqlRequestsAssumption
<1>2. r.attrs \in UNION {[S -> Values \cup {Nil}] : S \in SUBSET Attrs}
  BY <1>1 DEF RequestType
<1>3. PICK S \in SUBSET Attrs : r.attrs \in [S -> Values \cup {Nil}]
  BY <1>2
<1>4. \A x \in DOMAIN r.attrs : x \in Attrs /\ r.attrs[x] \in Contents
  BY <1>3 DEF Contents
<1>5. r.op \in {"Create", "Get", "List", "Replace", "Patch", "Delete"} /\ r.id \in Ids \cup {Nil}
  BY <1>1 DEF RequestType
<1> QED
  BY <1>1, <1>4, <1>5

\* A patched or decoded resource has well-typed attributes.
LEMMA OverlayTyped ==
  ASSUME NEW attrs \in [Attrs -> Contents], NEW changes,
         \A x \in DOMAIN changes : changes[x] \in Contents
  PROVE  Overlay(attrs, changes) \in [Attrs -> Contents]
BY DEF Overlay

\* A table has finitely many rows.
LEMMA RowsFinite ==
  ASSUME NEW S \in SUBSET Rows
  PROVE  IsFiniteSet(S) /\ Cardinality(S) \in Nat
<1> DEFINE row == [i \in Ids |-> table[i]]
<1>1. IsFiniteSet({table[i] : i \in Ids})
  <2>1. row \in Surjection(Ids, {table[i] : i \in Ids})
    BY DEF Surjection
  <2> QED
    BY <2>1, SqlIdsAssumption, FS_Surjection
<1>2. S \subseteq {table[i] : i \in Ids}
  BY DEF Rows
<1> QED
  BY <1>1, <1>2, FS_Subset, FS_CardinalityType

-----------------------------------------------------------------------------
(* The inductive invariant.                                                 *)

\* Where p stands in its call decides what its locals hold.  A write of an
\* existing resource is one of the resource the request names.
Local(p) ==
  /\ pc[p] # "idle" => req[p] \in Requests
  /\ pc[p] \notin {"patched", "write"} => draft[p] = Nil
  /\ pc[p] = "patched" => req[p].op = "Patch" /\ draft[p] # Nil /\ draft[p].id = req[p].id
  /\ pc[p] = "write" =>
       /\ draft[p] # Nil
       /\ req[p].op = "Create" \/ draft[p].id = req[p].id
  /\ pc[p] = "counted" => req[p].op = "List"
  /\ pc[p] # "done" => out[p] = {}

\* Every resource that exists anywhere has an identifier that was issued.
KnownRows == \A i \in Ids : table[i] # Nil => table[i].id = i /\ i \in issued
KnownCopies ==
  \A p \in Procs : /\ draft[p] # Nil => draft[p].id \in issued
                   /\ \A o \in out[p] : o.id \in issued

IInv ==
  /\ TypeOK
  /\ \A p \in Procs : Local(p)
  /\ KnownRows
  /\ KnownCopies

\* The answer of a call keeps the invariant.
LEMMA FinishStep ==
  ASSUME IInv, NEW p \in Procs, NEW s \in Outcomes, NEW S \in SUBSET Resources, NEW n \in Nat,
         pc[p] # "idle", Finish(p, s, S, n), \A o \in S : o.id \in issued,
         table' \in [Ids -> Resources \cup {Nil}], KnownRows'
  PROVE  IInv'
<1>1. TypeOK'
  BY DEF IInv, TypeOK, Finish, Outcomes
<1>2. ASSUME NEW q \in Procs
      PROVE  Local(q)'
  BY <1>2 DEF IInv, TypeOK, Local, Finish
<1>3. KnownCopies'
  BY DEF IInv, TypeOK, KnownCopies, Finish
<1> QED
  BY <1>1, <1>2, <1>3 DEF IInv

\* A failed call keeps the invariant.
LEMMA FailStep ==
  ASSUME IInv, NEW p \in Procs, NEW s \in Outcomes, pc[p] # "idle", Fail(p, s)
  PROVE  IInv'
<1>1. /\ Finish(p, s, {}, 0) /\ table' = table /\ issued' = issued
  BY DEF Fail, Finish
<1>2. KnownRows' /\ table' \in [Ids -> Resources \cup {Nil}]
  BY <1>1 DEF IInv, TypeOK, KnownRows
<1> QED
  BY <1>1, <1>2, FinishStep

\* So does the step to the write of a well-formed resource.
LEMMA ProceedStep ==
  ASSUME IInv, NEW p \in Procs, NEW s \in {"patched", "write"}, NEW o \in Resources,
         pc[p] \notin {"idle", "done"}, Proceed(p, s, o), issued \subseteq issued', issued' \subseteq Ids,
         o.id \in issued',
         s = "patched" => req[p].op = "Patch" /\ o.id = req[p].id,
         s = "write" => req[p].op = "Create" \/ o.id = req[p].id
  PROVE  IInv'
<1>1. TypeOK'
  BY DEF IInv, TypeOK, Proceed
<1>2. o # Nil
  BY SqlNilAssumption
<1>3. ASSUME NEW q \in Procs
      PROVE  Local(q)'
  <2>1. CASE q = p
    <3>1. pc'[q] = s /\ draft'[q] = o /\ req' = req /\ out' = out
      BY <2>1 DEF IInv, TypeOK, Proceed
    <3> QED
      BY <1>2, <2>1, <3>1 DEF IInv, Local
  <2>2. CASE q # p
    <3>1. pc'[q] = pc[q] /\ draft'[q] = draft[q] /\ req' = req /\ out' = out
      BY <2>2 DEF IInv, TypeOK, Proceed
    <3> QED
      BY <3>1 DEF IInv, Local
  <2> QED
    BY <2>1, <2>2
<1>4. KnownRows'
  BY DEF IInv, KnownRows, Proceed
<1>5. KnownCopies'
  BY <1>2 DEF IInv, TypeOK, KnownCopies, Proceed
<1> QED
  BY <1>1, <1>3, <1>4, <1>5 DEF IInv

\* The row of a request on one resource is that resource's, if there is one.
LEMMA RowTyped ==
  ASSUME IInv, NEW p \in Procs, req[p] \in Requests, NEW i \in Ids, table[i] # Nil
  PROVE  /\ table[i] \in Resources /\ table[i].id = i /\ i \in issued
         /\ ReadBack(table[i]) \in Resources /\ ReadBack(table[i]).id = i
         /\ ReadBack(table[i]).created \in Instants
BY ReadBackKeeps DEF IInv, TypeOK, KnownRows, Resources, Instants

\* A decoded body is a well-typed resource.
LEMMA BodyTyped ==
  ASSUME NEW r \in Requests
  PROVE  /\ Body(r) \in [Attrs -> Contents]
         /\ \A attrs \in [Attrs -> Contents] : Overlay(attrs, r.attrs) \in [Attrs -> Contents]
<1>1. [a \in Attrs |-> Nil] \in [Attrs -> Contents]
  BY DEF Contents
<1> QED
  BY <1>1, RequestTyped, OverlayTyped DEF Body

\* The INSERT and the UPDATE keep the invariant, answered or not.
LEMMA WriteStep ==
  ASSUME IInv, NEW p \in Procs, pc[p] = "write", Write(p)
  PROVE  IInv'
<1>1. /\ draft[p] \in Resources /\ draft[p].id \in issued /\ draft[p].id \in Ids
  BY DEF IInv, TypeOK, Local, KnownCopies, Resources
<1>2. /\ Stored(draft[p]) \in Resources /\ Stored(draft[p]).id = draft[p].id
  BY <1>1, StoredKeeps
<1>3. table' = [table EXCEPT ![draft[p].id] = Stored(draft[p])] /\ Wrote(p, {draft[p]})
  BY DEF Write
<1>4. issued' = issued
  BY <1>3 DEF Wrote, Finish
<1>5. table' \in [Ids -> Resources \cup {Nil}]
  BY <1>1, <1>2, <1>3 DEF IInv, TypeOK
<1>6. KnownRows'
  BY <1>1, <1>2, <1>3, <1>4 DEF IInv, TypeOK, KnownRows
<1>7. CASE Finish(p, "ok", {draft[p]}, 0)
  BY <1>1, <1>5, <1>6, <1>7, FinishStep DEF Outcomes
<1>8. CASE Finish(p, "internal", {}, 0)
  BY <1>5, <1>6, <1>8, FinishStep DEF Outcomes
<1> QED
  BY <1>3, <1>7, <1>8 DEF Wrote

\* Each statement of a call keeps the invariant.
LEMMA StepInductive ==
  ASSUME IInv, NEW p \in Procs, Step(p)
  PROVE  IInv'
<1> USE DEF Outcomes
<1>1. pc[p] # "idle" => req[p] \in Requests
  BY DEF IInv, Local
<1>2. \A i \in Ids : table[i] \in Resources \cup {Nil}
  BY DEF IInv, TypeOK
<1>3. CASE StatementFails(p)
  BY <1>3, FailStep DEF StatementFails
<1>4. CASE Prepare(p)
  <2>1. PICK i \in Ids \ issued :
          /\ issued' = issued \cup {i}
          /\ Proceed(p, "write",
                     [id |-> i, attrs |-> Body(req[p]), created |-> clock, modified |-> clock])
    BY <1>4 DEF Prepare
  <2> DEFINE o == [id |-> i, attrs |-> Body(req[p]), created |-> clock, modified |-> clock]
  <2>2. pc[p] = "called" /\ req[p].op = "Create"
    BY <1>4 DEF Prepare
  <2>3. o \in Resources /\ o.id = i
    BY <1>1, <2>2, BodyTyped DEF Resources, Contents, IInv, TypeOK
  <2>4. issued' \subseteq Ids /\ issued \subseteq issued' /\ i \in issued'
    BY <2>1 DEF IInv, TypeOK
  <2> HIDE DEF o
  <2>5. Proceed(p, "write", o)
    BY <2>1 DEF o
  <2> QED
    BY <2>2, <2>3, <2>4, <2>5, ProceedStep
<1>5. CASE Insert(p)
  BY <1>5, FailStep, WriteStep DEF Insert
<1>6. CASE Get(p)
  <2>1. pc[p] = "called" /\ req[p].id \in Ids
    BY <1>1, <1>6, RequestTyped DEF Get
  <2>2. CASE Row(p) = Nil
    BY <1>6, <2>1, <2>2, FailStep DEF Get
  <2>3. CASE Row(p) # Nil
    <3>1. /\ ReadBack(Row(p)) \in Resources /\ ReadBack(Row(p)).id \in issued
      BY <1>1, <2>1, <2>3, RowTyped DEF Row
    <3>2. Finish(p, "ok", {ReadBack(Row(p))}, 0) /\ table' = table /\ issued' = issued
      BY <1>6, <2>3 DEF Get, Finish
    <3>3. table' \in [Ids -> Resources \cup {Nil}] /\ KnownRows'
      BY <3>2 DEF IInv, TypeOK, KnownRows
    <3> QED
      BY <2>1, <3>1, <3>2, <3>3, FinishStep
  <2> QED
    BY <2>2, <2>3
<1>7. CASE ReadForPatch(p)
  <2>1. pc[p] = "called" /\ req[p].op = "Patch" /\ req[p].id \in Ids
    BY <1>1, <1>7, RequestTyped DEF ReadForPatch
  <2>2. CASE Row(p) = Nil \/ req[p].bad
    BY <1>7, <2>1, <2>2, FailStep DEF ReadForPatch
  <2>3. CASE ~ (Row(p) = Nil \/ req[p].bad)
    <3> DEFINE o == [ReadBack(Row(p)) EXCEPT !.attrs = Overlay(@, req[p].attrs)]
    <3>1. Proceed(p, "patched", o) /\ issued' = issued
      BY <1>7, <2>3 DEF ReadForPatch
    <3>2. /\ ReadBack(Row(p)) \in Resources /\ ReadBack(Row(p)).id = req[p].id
          /\ req[p].id \in issued
      BY <1>1, <2>1, <2>3, RowTyped DEF Row
    <3>3. ReadBack(Row(p)).attrs \in [Attrs -> Contents]
      BY <3>2 DEF Resources, Contents
    <3>4. Overlay(ReadBack(Row(p)).attrs, req[p].attrs) \in [Attrs -> Contents]
      BY <1>1, <2>1, <3>3, BodyTyped
    <3>5. o \in Resources /\ o.id = req[p].id
      BY <3>2, <3>4 DEF Resources, Contents
    <3>6. issued' \subseteq Ids
      BY <3>1 DEF IInv, TypeOK
    <3> HIDE DEF o
    <3> QED
      BY <2>1, <3>1, <3>2, <3>5, <3>6, ProceedStep
  <2> QED
    BY <2>2, <2>3
<1>8. CASE ReadForReplace(p)
  <2>1. /\ pc[p] \in {"called", "patched"}
        /\ pc[p] = "called" => req[p].op = "Replace"
        /\ pc[p] = "patched" => req[p].op = "Patch" /\ draft[p] \in Resources
        /\ req[p] \in Requests /\ req[p].id \in Ids
    BY <1>1, <1>8, RequestTyped DEF ReadForReplace, IInv, TypeOK, Local
  <2>2. CASE Row(p) = Nil
    BY <1>8, <2>1, <2>2, FailStep DEF ReadForReplace
  <2>3. CASE Row(p) # Nil
    <3> DEFINE attrs == IF pc[p] = "patched" THEN draft[p].attrs ELSE Body(req[p])
               o == [id |-> req[p].id, attrs |-> attrs,
                     created |-> CreatedOf(p, ReadBack(Row(p))), modified |-> clock]
    <3>1. Proceed(p, "write", o) /\ issued' = issued
      BY <1>8, <2>3 DEF ReadForReplace
    <3>2. attrs \in [Attrs -> Contents]
      BY <2>1, BodyTyped DEF Resources, Contents
    <3>3. CreatedOf(p, ReadBack(Row(p))) \in Instants /\ req[p].id \in issued
      BY <2>1, <2>3, RowTyped DEF Row, CreatedOf
    <3> HIDE DEF attrs
    <3>4. o \in Resources /\ o.id = req[p].id
      BY <2>1, <3>2, <3>3 DEF Resources, Contents, Instants, IInv, TypeOK
    <3>5. issued' \subseteq Ids
      BY <3>1 DEF IInv, TypeOK
    <3> HIDE DEF o
    <3> QED
      BY <2>1, <3>1, <3>3, <3>4, <3>5, ProceedStep
  <2> QED
    BY <2>2, <2>3
<1>9. CASE Update(p)
  BY <1>9, FailStep, WriteStep DEF Update
<1>10. CASE Delete(p)
  <2>1. pc[p] = "called" /\ req[p].id \in Ids
    BY <1>1, <1>10, RequestTyped DEF Delete
  <2>2. CASE Row(p) = Nil
    BY <1>10, <2>1, <2>2, FailStep DEF Delete
  <2>3. CASE Row(p) # Nil
    <3>1. table' = [table EXCEPT ![req[p].id] = Nil] /\ Wrote(p, {})
      BY <1>10, <2>3 DEF Delete
    <3>2. issued' = issued
      BY <3>1 DEF Wrote, Finish
    <3>3. table' \in [Ids -> Resources \cup {Nil}] /\ KnownRows'
      BY <2>1, <3>1, <3>2 DEF IInv, TypeOK, KnownRows
    <3> QED
      BY <2>1, <3>1, <3>3, FinishStep DEF Wrote
  <2> QED
    BY <2>2, <2>3
<1>11. CASE Count(p)
  <2>1. Cardinality(Selected(req[p])) \in Nat
    BY RowsFinite DEF Selected
  <2>2. TypeOK'
    BY <1>11, <2>1 DEF Count, IInv, TypeOK
  <2>3. ASSUME NEW q \in Procs
        PROVE  Local(q)'
    BY <1>11, <2>3 DEF Count, IInv, TypeOK, Local
  <2>4. KnownRows' /\ KnownCopies'
    BY <1>11 DEF Count, IInv, KnownRows, KnownCopies
  <2> QED
    BY <2>2, <2>3, <2>4 DEF IInv
<1>12. CASE Select(p)
  <2> DEFINE S == Selected(req[p])
  <2>1. PICK page \in SUBSET S : Finish(p, "ok", {ReadBack(o) : o \in page}, total[p])
    BY <1>12 DEF Select, Page
  <2>2. \A o \in page : o \in Resources /\ o.id \in issued
    BY <1>2 DEF Selected, Rows, IInv, KnownRows
  <2>3. {ReadBack(o) : o \in page} \in SUBSET Resources
    BY <2>2, ReadBackKeeps
  <2>4. \A v \in {ReadBack(o) : o \in page} : v.id \in issued
    BY <2>2, ReadBackKeeps
  <2>5. table' \in [Ids -> Resources \cup {Nil}] /\ KnownRows'
    BY <1>12, <2>1 DEF Select, Finish, IInv, TypeOK, KnownRows
  <2>6. pc[p] # "idle" /\ total[p] \in Nat
    BY <1>12 DEF Select, IInv, TypeOK
  <2> QED
    BY <2>1, <2>3, <2>4, <2>5, <2>6, FinishStep
<1>13. CASE Fallback(p)
  <2>1. PICK read \in SUBSET Rows : \E page \in SUBSET ClientFilter(read, req[p]) :
          Finish(p, "ok", page, Cardinality(ClientFilter(read, req[p])))
    BY <1>13 DEF Fallback, Page
  <2>2. PICK page \in SUBSET ClientFilter(read, req[p]) :
          Finish(p, "ok", page, Cardinality(ClientFilter(read, req[p])))
    BY <2>1
  <2>3. page \in SUBSET Resources /\ \A o \in page : o.id \in issued
    BY <1>2 DEF ClientFilter, Rows, IInv, KnownRows
  <2>4. Cardinality(ClientFilter(read, req[p])) \in Nat
    BY RowsFinite DEF ClientFilter
  <2>5. table' \in [Ids -> Resources \cup {Nil}] /\ KnownRows'
    BY <1>13, <2>2 DEF Fallback, Finish, IInv, TypeOK, KnownRows
  <2>6. pc[p] # "idle"
    BY <1>13 DEF Fallback
  <2> QED
    BY <2>2, <2>3, <2>4, <2>5, <2>6, FinishStep
<1>14. CASE Return(p)
  <2>1. TypeOK'
    BY <1>14 DEF Return, IInv, TypeOK
  <2>2. ASSUME NEW q \in Procs
        PROVE  Local(q)'
    BY <1>14, <2>2 DEF Return, IInv, TypeOK, Local
  <2>3. KnownRows' /\ KnownCopies'
    BY <1>14 DEF Return, IInv, TypeOK, KnownRows, KnownCopies
  <2> QED
    BY <2>1, <2>2, <2>3 DEF IInv
<1> QED
  BY <1>3, <1>4, <1>5, <1>6, <1>7, <1>8, <1>9, <1>10, <1>11, <1>12, <1>13, <1>14 DEF Step

\* The invariant holds of an empty database and every step keeps it.
THEOREM Inductive == Spec => []IInv
<1>1. Init => IInv
  <2> SUFFICES ASSUME Init
               PROVE  IInv
    OBVIOUS
  <2>1. TypeOK
    BY SqlNumbersAssumption DEF Init, TypeOK, Times
  <2>2. \A p \in Procs : Local(p)
    BY DEF Init, Local
  <2>3. KnownRows /\ KnownCopies
    BY DEF Init, KnownRows, KnownCopies
  <2> QED
    BY <2>1, <2>2, <2>3 DEF IInv
<1>2. IInv /\ [Next]_vars => IInv'
  <2> SUFFICES ASSUME IInv, [Next]_vars
               PROVE  IInv'
    OBVIOUS
  <2>1. CASE Tick
    <3>1. TypeOK'
      BY <2>1, SqlNumbersAssumption DEF Tick, IInv, TypeOK, Times
    <3> QED
      BY <2>1, <3>1 DEF Tick, IInv, Local, KnownRows, KnownCopies
  <2>2. CASE \E p \in Procs : Call(p)
    <3>1. PICK p \in Procs, r \in Requests :
            /\ pc[p] = "idle"
            /\ req' = [req EXCEPT ![p] = r]
            /\ pc' = [pc EXCEPT ![p] = "called"]
            /\ UNCHANGED <<clock, table, issued, draft, total, out, status>>
      BY <2>2 DEF Call
    <3>2. TypeOK'
      BY <3>1 DEF IInv, TypeOK
    <3>3. ASSUME NEW q \in Procs
          PROVE  Local(q)'
      BY <3>1, <3>3 DEF IInv, TypeOK, Local
    <3> QED
      BY <3>1, <3>2, <3>3 DEF IInv, KnownRows, KnownCopies
  <2>3. CASE \E p \in Procs : Step(p)
    BY <2>3, StepInductive
  <2>4. CASE UNCHANGED vars
    BY <2>4 DEF vars, IInv, TypeOK, Local, KnownRows, KnownCopies
  <2> QED
    BY <2>1, <2>2, <2>3, <2>4 DEF Next
<1> QED
  BY <1>1, <1>2, PTL DEF Spec

\* The table and the locals of every method keep their types, and the table
\* holds nothing under an identifier that generateID has not returned.
THEOREM TypeCorrect == Spec => []TypeOK
<1>1. IInv => TypeOK
  BY DEF IInv
<1> QED
  BY <1>1, Inductive, PTL

-----------------------------------------------------------------------------
(* notFound and deletion.                                                   *)

\* In PostgreSQL and MongoDB ErrNotFound is never returned for a resource that
\* is in the table when the statement runs: Replace and Patch, which found one
\* in an earlier statement, return it only because it was deleted since.  (MySQL
\* counts changed rows, and a Replace that changes nothing returns it too.)
THEOREM TrueNotFound == ASSUME Dialect # "mysql" PROVE Spec => NotFoundIsTrue
<1> DEFINE A == \A p \in Procs : status[p] # "notFound" /\ status'[p] = "notFound" =>
                  table[req[p].id] = Nil
<1>1. IInv /\ [Next]_vars => A
  <2> SUFFICES ASSUME IInv, [Next]_vars, NEW p \in Procs,
                      status[p] # "notFound", status'[p] = "notFound"
               PROVE  Row(p) = Nil
    BY DEF Row
  <2>1. status \in [Procs -> Outcomes]
    BY DEF IInv, TypeOK, Outcomes
  <2>2. PICK q \in Procs : Step(q)
    BY DEF Next, Tick, Call, vars
  <2>3. ASSUME NEW s \in Outcomes, NEW S, NEW n, Finish(q, s, S, n)
        PROVE  p = q /\ s = "notFound"
    BY <2>1, <2>3 DEF Finish
  <2>4. ASSUME NEW S, Wrote(q, S)
        PROVE  FALSE
    BY <2>3, <2>4 DEF Wrote, Outcomes
  <2>5. ASSUME NEW s \in Outcomes, Fail(q, s)
        PROVE  p = q /\ s = "notFound"
    BY <2>3, <2>5 DEF Fail
  <2>6. ~ StatementFails(q) /\ ~ Insert(q) /\ ~ Prepare(q) /\ ~ Count(q)
    BY <2>4, <2>5 DEF StatementFails, Insert, Write, Prepare, Proceed, Count, Outcomes
  <2>7. ~ Select(q) /\ ~ Fallback(q) /\ ~ Return(q)
    BY <2>1, <2>3 DEF Select, Fallback, Return, Outcomes
  <2>8. CASE Get(q) \/ Delete(q)
    BY <2>3, <2>4, <2>5, <2>8 DEF Get, Delete, Outcomes
  <2>9. CASE ReadForPatch(q) \/ ReadForReplace(q)
    BY <2>5, <2>9 DEF ReadForPatch, ReadForReplace, Proceed, Outcomes
  <2>10. CASE Update(q)
    BY <2>4, <2>5, <2>10 DEF Update, NoneAffected, Write, Outcomes
  <2> QED
    BY <2>2, <2>6, <2>7, <2>8, <2>9, <2>10 DEF Step
<1> QED
  BY <1>1, Inductive, PTL DEF Spec, NotFoundIsTrue

\* A deleted resource stays deleted, whatever calls read it before.
THEOREM Deleted == Spec => GoneForGood
<1>1. IInv /\ [Next]_vars => \A i \in Ids : Gone(i) => Gone(i)'
  <2> SUFFICES ASSUME IInv, [Next]_vars, NEW i \in Ids, Gone(i)
               PROVE  Gone(i)'
    OBVIOUS
  <2>1. CASE Tick \/ UNCHANGED vars
    BY <2>1 DEF Tick, vars, Gone
  <2>2. CASE \E p \in Procs : Call(p)
    <3>1. PICK p \in Procs, r \in Requests :
            /\ pc[p] = "idle" /\ req' = [req EXCEPT ![p] = r]
            /\ UNCHANGED <<table, issued, draft>>
      BY <2>2 DEF Call
    <3>2. draft[p] = Nil
      BY <3>1 DEF IInv, Local
    <3> QED
      BY <3>1, <3>2 DEF Gone, IInv, TypeOK
  <2>3. ASSUME NEW p \in Procs, Step(p)
        PROVE  Gone(i)'
    <3>1. ASSUME NEW S, Wrote(p, S), table'[i] = Nil
          PROVE  Gone(i)'
      BY <3>1 DEF Wrote, Finish, Gone, IInv, TypeOK
    <3>2. ASSUME NEW s, Fail(p, s)
          PROVE  Gone(i)'
      BY <3>2 DEF Fail, Finish, Gone, IInv, TypeOK
    <3>3. CASE StatementFails(p)
      BY <3>2, <3>3 DEF StatementFails
    <3>4. CASE Prepare(p)
      BY <3>4 DEF Prepare, Proceed, Gone, IInv, TypeOK
    <3>5. ASSUME Write(p), pc[p] = "write", draft[p].id # i
          PROVE  Gone(i)'
      <4>1. table'[i] = table[i]
        BY <3>5 DEF Write, IInv, TypeOK
      <4> QED
        BY <3>1, <3>5, <4>1 DEF Write, Gone
    <3>6. CASE Insert(p)
      <4>1. draft[p].id # i
        BY <3>6 DEF Insert, Gone, IInv, Local
      <4> QED
        BY <3>2, <3>5, <3>6, <4>1 DEF Insert
    <3>7. CASE Update(p)
      <4>1. CASE Row(p) = Nil
        BY <3>2, <3>7, <4>1 DEF Update, NoneAffected
      <4>2. CASE Row(p) # Nil
        <5>1. draft[p].id # i
          BY <3>7, <4>2 DEF Update, Gone, IInv, Local, Row
        <5> QED
          BY <3>2, <3>5, <3>7, <5>1 DEF Update
      <4> QED
        BY <4>1, <4>2
    <3>8. CASE Delete(p)
      <4>1. CASE Row(p) = Nil
        BY <3>2, <3>8, <4>1 DEF Delete
      <4>2. CASE Row(p) # Nil
        <5>1. table'[i] = Nil
          BY <3>8, <4>2 DEF Delete, Gone, IInv, TypeOK
        <5> QED
          BY <3>1, <3>8, <4>2, <5>1 DEF Delete
      <4> QED
        BY <4>1, <4>2
    <3>9. CASE ReadForPatch(p)
      BY <3>2, <3>9 DEF ReadForPatch, Proceed, Gone, IInv, TypeOK
    <3>10. CASE ReadForReplace(p)
      <4>1. req[p].op # "Create"
        BY <3>10 DEF ReadForReplace, IInv, Local
      <4> QED
        BY <3>2, <3>10, <4>1 DEF ReadForReplace, Proceed, Gone, IInv, TypeOK
    <3>11. CASE Get(p) \/ Select(p) \/ Fallback(p)
      <4>1. \/ \E s : Fail(p, s)
            \/ \E s, S, n : Finish(p, s, S, n) /\ table' = table
        BY <3>11 DEF Get, Select, Fallback, Page
      <4> QED
        BY <3>2, <4>1 DEF Finish, Gone, IInv, TypeOK
    <3>12. CASE Count(p)
      BY <3>12 DEF Count, Gone
    <3>13. CASE Return(p)
      <4>1. draft[p] = Nil
        BY <3>13 DEF Return, IInv, Local
      <4> QED
        BY <3>13, <4>1 DEF Return, Gone, IInv, TypeOK
    <3> QED
      BY <2>3, <3>3, <3>4, <3>6, <3>7, <3>8, <3>9, <3>10, <3>11, <3>12, <3>13 DEF Step
  <2> QED
    BY <2>1, <2>2, <2>3 DEF Next
<1> QED
  BY <1>1, Inductive, PTL DEF Spec, GoneForGood

-----------------------------------------------------------------------------
(* Creation times.                                                          *)

\* A copy of v, seen in this state.
Kin(v) == \E w \in Views : w.id = v.id /\ Truncate(w.created) = Truncate(v.created)

\* A step after which everything is a copy of something seen before is safe.
LEMMA KinSafe ==
  ASSUME SameCreated, \A v \in Views' : Kin(v)
  PROVE  SameCreated'
BY DEF SameCreated, Kin

\* Copies are seen in the table, at the callers and in the drafts.
Places ==
  /\ \A i \in Ids : table[i] # Nil => table[i] \in Views
  /\ \A p \in Procs : draft[p] # Nil => draft[p] \in Views
  /\ \A p \in Procs : out[p] \subseteq Views
  /\ \A v \in Views : \/ \E i \in Ids : v = table[i] /\ v # Nil
                      \/ \E p \in Procs : v = draft[p] /\ v # Nil
                      \/ \E p \in Procs : v \in out[p]

\* And nowhere else, before a step and after it.
LEMMA ViewsAre == Places /\ Places'
BY DEF Places, Views, Rows

\* What a call answers comes from what was seen, and so does the table.
LEMMA FinishKin ==
  ASSUME IInv, SameCreated, NEW p \in Procs, NEW s, NEW S, NEW n, Finish(p, s, S, n),
         \A o \in S : Kin(o),
         \A i \in Ids : table'[i] # Nil => Kin(table'[i])
  PROVE  SameCreated'
<1> SUFFICES ASSUME NEW v \in Views'
             PROVE  Kin(v)
  BY KinSafe
<1>2. CASE \E i \in Ids : v = table'[i] /\ v # Nil
  BY <1>2
<1>3. CASE \E q \in Procs : v = draft'[q] /\ v # Nil
  BY <1>3, ViewsAre DEF Places, Kin, Finish, IInv, TypeOK
<1>4. CASE \E q \in Procs : v \in out'[q]
  <2>1. v \in S \/ \E q \in Procs : v \in out[q]
    BY <1>4 DEF Finish, IInv, TypeOK
  <2> QED
    BY <2>1, ViewsAre DEF Places, Kin
<1> QED
  BY <1>2, <1>3, <1>4, ViewsAre DEF Places

\* A failed call adds nothing.
LEMMA FailKin ==
  ASSUME IInv, SameCreated, NEW p \in Procs, NEW s, Fail(p, s)
  PROVE  SameCreated'
<1>1. Finish(p, s, {}, 0) /\ table' = table
  BY DEF Fail
<1>2. \A i \in Ids : table'[i] # Nil => Kin(table'[i])
  BY <1>1, ViewsAre DEF Places, Kin
<1> QED
  BY <1>1, <1>2, FinishKin

\* What is about to be written comes from what was seen.
LEMMA ProceedKin ==
  ASSUME IInv, SameCreated, NEW p \in Procs, NEW s, NEW o, Proceed(p, s, o), Kin(o)
  PROVE  SameCreated'
<1> SUFFICES ASSUME NEW v \in Views'
             PROVE  Kin(v)
  BY KinSafe
<1>1. CASE \E i \in Ids : v = table'[i] /\ v # Nil
  BY <1>1, ViewsAre DEF Places, Kin, Proceed
<1>2. CASE \E q \in Procs : v = draft'[q] /\ v # Nil
  BY <1>2, ViewsAre DEF Places, Kin, Proceed, IInv, TypeOK
<1>3. CASE \E q \in Procs : v \in out'[q]
  BY <1>3, ViewsAre DEF Places, Kin, Proceed
<1> QED
  BY <1>1, <1>2, <1>3, ViewsAre DEF Places

\* The INSERT and the UPDATE write what was prepared, to the second.
LEMMA WriteKin ==
  ASSUME IInv, SameCreated, NEW p \in Procs, pc[p] = "write", Write(p)
  PROVE  SameCreated'
<1>1. draft[p] \in Resources /\ draft[p] \in Views
  BY ViewsAre DEF Places, IInv, TypeOK, Local
<1>2. Kin(draft[p]) /\ Kin(Stored(draft[p]))
  BY <1>1, StoredKeeps DEF Kin
<1>3. \A i \in Ids : table'[i] # Nil => Kin(table'[i])
  BY <1>2, ViewsAre DEF Places, Write, Kin, IInv, TypeOK
<1> QED
  BY <1>2, <1>3, FinishKin DEF Write, Wrote

\* In PostgreSQL and MySQL a resource has one creation time, to the second, in
\* the table, in every answer and in whatever Replace and Patch are about to
\* write.  (A MongoDB Replace loses it.)
THEOREM OneCreation == ASSUME Dialect # "mongodb" PROVE Spec => []SameCreated
<1>1. Init => SameCreated
  BY DEF Init, SameCreated, Views, Rows
<1>2. IInv /\ SameCreated /\ [Next]_vars => SameCreated'
  <2> SUFFICES ASSUME IInv, SameCreated, [Next]_vars
               PROVE  SameCreated'
    OBVIOUS
  <2>1. CASE Tick \/ (\E p \in Procs : Call(p)) \/ UNCHANGED vars
    BY <2>1 DEF Tick, Call, vars, SameCreated, Views, Rows
  <2>2. ASSUME NEW p \in Procs, Step(p)
        PROVE  SameCreated'
    <3>1. \A i \in Ids : table[i] # Nil => Kin(table[i])
      BY ViewsAre DEF Places, Kin
    <3>2. \A i \in Ids : table[i] # Nil => ReadBack(table[i]) = table[i]
      BY ReadBackKeeps DEF IInv, TypeOK
    <3>3. pc[p] # "idle" => req[p] \in Requests
      BY DEF IInv, Local
    <3>4. CASE StatementFails(p)
      BY <3>4, FailKin DEF StatementFails
    <3>5. CASE Prepare(p)
      <4>1. PICK i \in Ids \ issued :
              Proceed(p, "write",
                      [id |-> i, attrs |-> Body(req[p]), created |-> clock, modified |-> clock])
        BY <3>5 DEF Prepare
      <4> DEFINE o == [id |-> i, attrs |-> Body(req[p]), created |-> clock, modified |-> clock]
      <4>2. o.id = i
        OBVIOUS
      <4> HIDE DEF o
      <4>3. \A v \in Views : v.id # i
        BY <4>1, ViewsAre DEF Places, IInv, KnownRows, KnownCopies
      <4>4. \A v \in Views' : v \in Views \/ v = o
        <5> SUFFICES ASSUME NEW v \in Views'
                     PROVE  v \in Views \/ v = o
          OBVIOUS
        <5>1. table' = table /\ out' = out /\ draft' = [draft EXCEPT ![p] = o]
          BY <4>1 DEF Proceed, o
        <5>2. CASE \E j \in Ids : v = table'[j] /\ v # Nil
          BY <5>1, <5>2, ViewsAre DEF Places
        <5>3. CASE \E q \in Procs : v = draft'[q] /\ v # Nil
          BY <5>1, <5>3, ViewsAre DEF Places, IInv, TypeOK
        <5>4. CASE \E q \in Procs : v \in out'[q]
          BY <5>1, <5>4, ViewsAre DEF Places
        <5> QED
          BY <5>2, <5>3, <5>4, ViewsAre DEF Places
      <4> QED
        BY <4>2, <4>3, <4>4 DEF SameCreated
    <3>6. CASE Insert(p)
      BY <3>6, FailKin, WriteKin DEF Insert
    <3>7. CASE Update(p)
      BY <3>7, FailKin, WriteKin DEF Update
    <3>8. CASE Get(p)
      <4>1. req[p].id \in Ids
        BY <3>3, <3>8, RequestTyped DEF Get
      <4> QED
        BY <3>1, <3>2, <3>8, <4>1, FailKin, FinishKin DEF Get, Row
    <3>9. CASE ReadForPatch(p)
      <4>1. req[p].id \in Ids
        BY <3>3, <3>9, RequestTyped DEF ReadForPatch
      <4>2. CASE Row(p) = Nil \/ req[p].bad
        BY <3>9, <4>2, FailKin DEF ReadForPatch
      <4>3. CASE ~ (Row(p) = Nil \/ req[p].bad)
        <5> DEFINE o == [Row(p) EXCEPT !.attrs = Overlay(@, req[p].attrs)]
        <5>1. Proceed(p, "patched", o)
          BY <3>2, <3>9, <4>1, <4>3 DEF ReadForPatch, Row
        <5>2. Row(p) \in Resources /\ Kin(Row(p))
          BY <3>1, <4>1, <4>3 DEF Row, IInv, TypeOK
        <5>3. Kin(o)
          BY <5>2 DEF Kin, Resources
        <5> QED
          BY <5>1, <5>3, ProceedKin
      <4> QED
        BY <4>2, <4>3
    <3>10. CASE ReadForReplace(p)
      <4>1. req[p].id \in Ids
        BY <3>3, <3>10, RequestTyped DEF ReadForReplace, IInv, Local
      <4>2. CASE Row(p) = Nil
        BY <3>10, <4>2, FailKin DEF ReadForReplace
      <4>3. CASE Row(p) # Nil
        <5> DEFINE o == [id |-> req[p].id,
                         attrs |-> IF pc[p] = "patched" THEN draft[p].attrs ELSE Body(req[p]),
                         created |-> Row(p).created, modified |-> clock]
        <5>1. Proceed(p, "write", o)
          BY <3>2, <3>10, <4>1, <4>3 DEF ReadForReplace, CreatedOf, Row
        <5>2. Row(p).id = req[p].id /\ Kin(Row(p))
          BY <3>1, <4>1, <4>3 DEF Row, IInv, KnownRows
        <5>3. Kin(o)
          BY <5>2 DEF Kin
        <5> QED
          BY <5>1, <5>3, ProceedKin
      <4> QED
        BY <4>2, <4>3
    <3>11. CASE Delete(p)
      <4>1. CASE Row(p) = Nil
        BY <3>11, <4>1, FailKin DEF Delete
      <4>2. CASE Row(p) # Nil
        <5>1. table' = [table EXCEPT ![req[p].id] = Nil] /\ Wrote(p, {})
          BY <3>11, <4>2 DEF Delete
        <5>2. \A i \in Ids : table'[i] # Nil => Kin(table'[i])
          BY <3>1, <5>1 DEF IInv, TypeOK
        <5> QED
          BY <5>1, <5>2, FinishKin DEF Wrote
      <4> QED
        BY <4>1, <4>2
    <3>12. CASE Select(p) \/ Fallback(p)
      <4>1. PICK S, n : S \subseteq Rows /\ Finish(p, "ok", S, n) /\ table' = table
        <5>1. CASE Select(p)
          <6>1. PICK page \in SUBSET Rows : Finish(p, "ok", {ReadBack(o) : o \in page}, total[p])
            BY <5>1 DEF Select, Page, Selected
          <6>2. {ReadBack(o) : o \in page} = page
            BY <3>2, <6>1 DEF Rows
          <6> QED
            BY <5>1, <6>1, <6>2 DEF Select
        <5>2. CASE Fallback(p)
          BY <5>2 DEF Fallback, Page, ClientFilter
        <5> QED
          BY <3>12, <5>1, <5>2
      <4>2. \A o \in S : Kin(o)
        BY <3>1, <4>1 DEF Rows
      <4> QED
        BY <3>1, <4>1, <4>2, FinishKin
    <3>13. CASE Count(p)
      BY <3>13 DEF Count, SameCreated, Views, Rows
    <3>14. CASE Return(p)
      <4> SUFFICES ASSUME NEW v \in Views'
                   PROVE  v \in Views
        BY DEF SameCreated
      <4>1. CASE \E i \in Ids : v = table'[i] /\ v # Nil
        BY <3>14, <4>1, ViewsAre DEF Places, Return
      <4>2. CASE \E q \in Procs : v = draft'[q] /\ v # Nil
        BY <3>14, <4>2, ViewsAre DEF Places, Return
      <4>3. CASE \E q \in Procs : v \in out'[q]
        BY <3>14, <4>3, ViewsAre DEF Places, Return, IInv, TypeOK
      <4> QED
        BY <4>1, <4>2, <4>3, ViewsAre DEF Places
    <3> QED
      BY <2>2, <3>4, <3>5, <3>6, <3>7, <3>8, <3>9, <3>10, <3>11, <3>12, <3>13, <3>14 DEF Step
  <2> QED
    BY <2>1, <2>2 DEF Next
<1> QED
  BY <1>1, <1>2, Inductive, PTL DEF Spec

-----------------------------------------------------------------------------
(* Lists.                                                                   *)

\* Rows are counted only for a filter that the database applies, and the rows
\* of an answer are filtered.
Filtered(p) ==
  /\ pc[p] = "counted" => Native(req[p])
  /\ pc[p] = "done" /\ req[p].op = "List" => \A o \in out[p] : Matches(o, req[p])

\* A filter looks at attributes, which a SELECT brings back unchanged.
LEMMA MatchesReadBack ==
  ASSUME NEW o \in Resources, NEW r, Matches(o, r)
  PROVE  Matches(ReadBack(o), r)
BY ReadBackKeeps DEF Matches

\* In PostgreSQL and MongoDB every resource of a list response satisfies the
\* filter of the request, which the database or the connector applies.  (MySQL
\* leaves one to the server, which does not apply it.)
THEOREM Lists == ASSUME Dialect \in {"postgres", "mongodb"} PROVE Spec => ListMatches
<1> DEFINE FInv == \A p \in Procs : Filtered(p)
<1>1. Init => FInv
  BY DEF Init, Filtered
<1>2. IInv /\ FInv /\ [Next]_vars => FInv'
  <2> SUFFICES ASSUME IInv, FInv, [Next]_vars, NEW q \in Procs
               PROVE  Filtered(q)'
    OBVIOUS
  <2>1. CASE Tick \/ UNCHANGED vars
    BY <2>1 DEF Tick, vars, Filtered
  <2>2. CASE \E p \in Procs : Call(p)
    BY <2>2 DEF Call, Filtered, IInv, TypeOK
  <2>3. ASSUME NEW p \in Procs, Step(p)
        PROVE  Filtered(q)'
    <3>1. ASSUME NEW s, NEW S, NEW n, Finish(p, s, S, n),
                 req[p].op = "List" => \A o \in S : Matches(o, req[p])
          PROVE  Filtered(q)'
      <4>1. CASE q = p
        BY <3>1, <4>1 DEF Finish, Filtered, IInv, TypeOK
      <4>2. CASE q # p
        BY <3>1, <4>2 DEF Finish, Filtered, IInv, TypeOK
      <4> QED
        BY <4>1, <4>2
    <3>2. ASSUME NEW s, Fail(p, s)
          PROVE  Filtered(q)'
      BY <3>1, <3>2 DEF Fail
    <3>3. ASSUME NEW s \in {"patched", "write"}, NEW o, Proceed(p, s, o)
          PROVE  Filtered(q)'
      <4>1. CASE q = p
        BY <3>3, <4>1 DEF Proceed, Filtered, IInv, TypeOK
      <4>2. CASE q # p
        BY <3>3, <4>2 DEF Proceed, Filtered, IInv, TypeOK
      <4> QED
        BY <4>1, <4>2
    <3>4. ASSUME NEW S, Wrote(p, S), req[p].op # "List"
          PROVE  Filtered(q)'
      BY <3>1, <3>4 DEF Wrote
    <3>5. CASE StatementFails(p) \/ Prepare(p) \/ ReadForPatch(p)
      BY <3>2, <3>3, <3>5 DEF StatementFails, Prepare, ReadForPatch
    <3>6. CASE ReadForReplace(p)
      BY <3>2, <3>3, <3>6 DEF ReadForReplace
    <3>7. CASE Insert(p) \/ Update(p)
      BY <3>2, <3>4, <3>7 DEF Insert, Update, Write
    <3>8. CASE Get(p)
      BY <3>1, <3>2, <3>8 DEF Get
    <3>9. CASE Delete(p)
      BY <3>2, <3>4, <3>9 DEF Delete
    <3>10. CASE Count(p)
      <4>1. Native(req[p])
        BY <3>10 DEF Count, Untranslated, Native
      <4> QED
        BY <3>10, <4>1 DEF Count, Filtered, IInv, TypeOK
    <3>11. CASE Select(p)
      <4>1. PICK page \in SUBSET Selected(req[p]) :
              Finish(p, "ok", {ReadBack(o) : o \in page}, total[p])
        BY <3>11 DEF Select, Page
      <4>2. \A o \in page : o \in Resources /\ Matches(o, req[p])
        BY <3>11 DEF Select, Selected, Rows, Filtered, IInv, TypeOK
      <4>3. \A o \in {ReadBack(x) : x \in page} : Matches(o, req[p])
        BY <4>2, MatchesReadBack
      <4> QED
        BY <3>1, <4>1, <4>3
    <3>12. CASE Fallback(p)
      <4>1. PICK read \in SUBSET Rows : \E page \in SUBSET ClientFilter(read, req[p]) :
              Finish(p, "ok", page, Cardinality(ClientFilter(read, req[p])))
        BY <3>12 DEF Fallback, Page
      <4> QED
        BY <3>1, <4>1 DEF ClientFilter
    <3>13. CASE Return(p)
      BY <3>13 DEF Return, Filtered, IInv, TypeOK
    <3> QED
      BY <2>3, <3>5, <3>6, <3>7, <3>8, <3>9, <3>10, <3>11, <3>12, <3>13 DEF Step
  <2> QED
    BY <2>1, <2>2, <2>3 DEF Next
<1> DEFINE A == \A p \in Procs : pc[p] = "done" /\ pc'[p] = "idle" /\ req[p].op = "List" =>
                  \A o \in out[p] : Matches(o, req[p])
<1>3. FInv => A
  BY DEF Filtered
<1> HIDE DEF FInv
<1> QED
  BY <1>1, <1>2, <1>3, Inductive, PTL DEF Spec, ListMatches

=============================================================================
