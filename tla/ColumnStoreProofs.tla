--------------------------- MODULE ColumnStoreProofs ---------------------------
(***************************************************************************)
(* Proofs about ColumnStore for every set of goroutines and calls, every   *)
(* mapping of attributes to tables, and both drivers.                      *)
(***************************************************************************)
EXTENDS ColumnStoreRefinement, WellFoundedInduction, TLAPS

-----------------------------------------------------------------------------
(* The inductive invariant.                                                 *)

\* What TypeOK leaves open.
Types ==
  /\ clock \in Json!Times
  /\ issued \subseteq Ids
  /\ req \in [Procs -> Requests \cup {Nil}]
  /\ draft \in [Procs -> Json!Resources \cup {Nil}]
  /\ tx = [p \in Procs |-> tx[p]]

Writes == {"Create", "Replace", "Patch"}

\* The locals at each statement of a call.
Locals(p) ==
  /\ pc[p] # "idle" => req[p] \in Requests
  /\ pc[p] = "idle" => req[p] = Nil
  /\ pc[p] \in {"idle", "called", "counted", "done"} => draft[p] = Nil
  /\ pc[p] = "patched" => req[p].op = "Patch" /\ draft[p] # Nil
  /\ pc[p] = "write" => req[p].op \in Writes /\ draft[p] # Nil
  /\ pc[p] = "tx" => \/ req[p].op = "Delete" /\ draft[p] = Nil
                     \/ req[p].op \in Writes /\ draft[p] # Nil
  /\ draft[p] # Nil /\ req[p].op # "Create" => draft[p].id = req[p].id

\* The tables p's transaction is through with.
Past(p) == {Plan(p)[m] : m \in 1 .. step[p] - 1}

\* Its UPDATE of the primary table has locked a row and not written it yet.
Locking(p) ==
  /\ step[p] = 1 /\ req[p].op \in {"Replace", "Patch"}
  /\ Locks(p, Primary, Target(p))

\* It has locks on the tables passed and on the row its UPDATE has found, and in
\* its own row only.
OwnRow(p) ==
  \A t \in Tables, i \in Ids : Locks(p, t, i) =>
    i = Target(p) /\ (t \in Past(p) \/ (t = Primary /\ Locking(p)))

Put(p, t) == Locks(p, t, Target(p)) /\ tx[p][<<t, Target(p)>>] = Part(draft[p], t)

\* A Create, Replace or Patch has put its resource there.
Putting(p) ==
  req[p].op \in Writes =>
    \A t \in Past(p) : Put(p, t) \/ (t = Primary /\ ~ PrimaryWritten /\ req[p].op # "Create")

\* An UPDATE has found a row that is there; it has no new version at first.
Updating(p) ==
  /\ req[p].op \in {"Replace", "Patch"} /\ Locks(p, Primary, Target(p)) => Stored(p, Primary) # Nil
  /\ Locking(p) => tx[p][<<Primary, Target(p)>>] = Nil

\* A Delete has removed rows, all those of a resource that is there.
Deleting(p) ==
  req[p].op = "Delete" =>
    /\ \A t \in Tables : Locks(p, t, Target(p)) =>
         tx[p][<<t, Target(p)>>] = Nil /\ t \in DeleteJoin \cup {Primary}
    /\ \A t \in Past(p) \cap DeleteJoin : Locks(p, t, Target(p)) \/ Stored(p, Primary) = Nil
    /\ Primary \in Past(p) => Locks(p, Primary, Target(p)) /\ Stored(p, Primary) # Nil

Progress(p) ==
  /\ tx[p] # Nil <=> pc[p] = "tx"
  /\ pc[p] = "tx" =>
       /\ step[p] \in 1 .. Len(Joins) + 2
       /\ OwnRow(p) /\ Putting(p) /\ Updating(p) /\ Deleting(p)

\* The identifier of a Create is nobody else's, and no row has it.
Creates(p) == draft[p] # Nil /\ req[p].op = "Create"

Fresh(p) ==
  Creates(p) =>
    /\ draft[p].id \in issued
    /\ \A t \in Tables : rows[t][draft[p].id] = Nil
    /\ \A q \in Procs \ {p} : /\ req[q] # Nil => req[q].id # draft[p].id
                              /\ Creates(q) => draft[q].id # draft[p].id

Known ==
  /\ \A t \in Tables, i \in Ids : rows[t][i] # Nil => i \in issued
  /\ \A p \in Procs : req[p] # Nil => req[p].id \in issued \cup {Nil}

\* Row locks exclude each other.
Exclusive ==
  \A p, q \in Procs, t \in Tables, i \in Ids : Locks(p, t, i) /\ Locks(q, t, i) => p = q

\* A resource has a row in every joined table.
Whole == \A t \in JoinTables, i \in Ids : rows[Primary][i] # Nil => rows[t][i] # Nil

IInv ==
  /\ TypeOK /\ Types /\ Known /\ Exclusive /\ Whole
  /\ \A p \in Procs : Locals(p) /\ Progress(p) /\ Fresh(p)

-----------------------------------------------------------------------------
(* Lemmas about the operators of the model.                                 *)

\* The kinds of value differ from Nil.
LEMMA Kinds ==
  /\ \A r \in Requests :
       /\ r # Nil /\ r.id \in Ids \cup {Nil}
       /\ r.op \in {"Create", "Get", "List", "Replace", "Patch", "Delete"}
       /\ r.op \in {"Get", "Replace", "Patch", "Delete"} => r.id \in Ids
  /\ \A o \in Json!Resources : o # Nil /\ o.id \in Ids
  /\ Nil \notin Ids /\ Nil \notin Attrs /\ Json!Times \subseteq Nat
<1>1. \A r \in Requests : r \in Json!RequestType /\ r # Nil
  BY CallsAssumption, NilAssumption
<1> QED
  BY <1>1, CallsAssumption, NilAssumption DEF Json!RequestType, Json!Resources, Json!Times

\* The joined tables, in order.
LEMMA JoinsAre ==
  /\ Len(Joins) \in Nat /\ DOMAIN Joins = 1 .. Len(Joins)
  /\ \A m \in 1 .. Len(Joins) : Joins[m] \in JoinTables
  /\ \A t \in JoinTables : \E m \in 1 .. Len(Joins) : Joins[m] = t
  /\ \A m, n \in 1 .. Len(Joins) : Joins[m] = Joins[n] => m = n
  /\ Primary \notin JoinTables /\ Primary \in Tables /\ JoinTables \subseteq Tables
<1>1. /\ Joins \in Seq(JoinTables) /\ Primary \notin JoinTables
      /\ \A m, n \in DOMAIN Joins : Joins[m] = Joins[n] => m = n
  BY JoinsAssumption DEF IsInjective
<1>2. Len(Joins) \in Nat /\ DOMAIN Joins = 1 .. Len(Joins)
  BY <1>1
<1> QED
  BY <1>1, <1>2 DEF JoinTables, Tables

\* Primary first, then the joins.
LEMMA Forwards ==
  LET F == <<Primary>> \o Joins
  IN  /\ Len(F) = Len(Joins) + 1 /\ F[1] = Primary
      /\ \A m \in 2 .. Len(Joins) + 1 : F[m] = Joins[m - 1]
BY JoinsAssumption, JoinsAre

\* The joins in reverse, then Primary.
LEMMA Backwards ==
  LET B == Append(Reverse(Joins), Primary)
  IN  /\ Len(B) = Len(Joins) + 1 /\ B[Len(Joins) + 1] = Primary
      /\ \A m \in 1 .. Len(Joins) : B[m] = Joins[Len(Joins) - m + 1]
<1> DEFINE R == Reverse(Joins)
<1>1. Len(Joins) \in Nat /\ R = [m \in 1 .. Len(Joins) |-> Joins[(Len(Joins) - m) + 1]]
  BY JoinsAre DEF Reverse
<1>2. \A m \in 1 .. Len(Joins) : (Len(Joins) - m) + 1 \in 1 .. Len(Joins)
  BY <1>1
<1>3. R \in Seq(JoinTables) /\ Len(R) = Len(Joins)
  BY <1>1, <1>2, JoinsAre
<1> QED
  BY <1>1, <1>3

\* A plan goes through every table once: Delete ends with the primary one, the
\* others begin with it.
LEMMA Plans ==
  ASSUME NEW p
  PROVE  /\ Len(Plan(p)) = Len(Joins) + 1
         /\ \A m \in 1 .. Len(Joins) + 1 : Plan(p)[m] \in Tables
         /\ \A t \in Tables : \E m \in 1 .. Len(Joins) + 1 : Plan(p)[m] = t
         /\ \A m, n \in 1 .. Len(Joins) + 1 : Plan(p)[m] = Plan(p)[n] => m = n
         /\ req[p].op = "Delete" => Plan(p)[Len(Joins) + 1] = Primary
         /\ req[p].op # "Delete" => Plan(p)[1] = Primary
<1> DEFINE n == Len(Joins)
<1>1. CASE req[p].op = "Delete"
  <2>1. Plan(p) = Append(Reverse(Joins), Primary)
    BY <1>1 DEF Plan
  <2>2. /\ Len(Plan(p)) = n + 1 /\ Plan(p)[n + 1] = Primary
        /\ \A m \in 1 .. n : Plan(p)[m] = Joins[n - m + 1]
    BY <2>1, Backwards
  <2>3. \A m \in 1 .. n : n - m + 1 \in 1 .. n /\ n - (n - m + 1) + 1 = m
    BY JoinsAre
  <2>4. \A m \in 1 .. n + 1 : m = n + 1 \/ (m \in 1 .. n /\ Plan(p)[m] \in JoinTables)
    BY <2>2, <2>3, JoinsAre
  <2>5. \A t \in JoinTables : \E m \in 1 .. n : Plan(p)[m] = t
    BY <2>2, <2>3, JoinsAre
  <2>6. ASSUME NEW m \in 1 .. n + 1, NEW o \in 1 .. n + 1, Plan(p)[m] = Plan(p)[o] PROVE m = o
    <3>1. CASE m = n + 1 \/ o = n + 1
      BY <2>2, <2>4, <2>6, <3>1, JoinsAre
    <3>2. CASE m \in 1 .. n /\ o \in 1 .. n
      <4>1. n - m + 1 = n - o + 1
        BY <2>2, <2>3, <2>6, <3>2, JoinsAre
      <4> QED
        BY <3>2, <4>1, JoinsAre
    <3> QED
      BY <3>1, <3>2, <2>4
  <2> QED
    BY <1>1, <2>2, <2>4, <2>5, <2>6, JoinsAre DEF Tables
<1>2. CASE req[p].op # "Delete"
  <2>1. Plan(p) = <<Primary>> \o Joins
    BY <1>2 DEF Plan
  <2>2. /\ Len(Plan(p)) = n + 1 /\ Plan(p)[1] = Primary
        /\ \A m \in 2 .. n + 1 : Plan(p)[m] = Joins[m - 1]
    BY <2>1, Forwards
  <2>3. \A m \in 1 .. n : m + 1 \in 2 .. n + 1 /\ (m + 1) - 1 = m
    BY JoinsAre
  <2>4. \A m \in 1 .. n + 1 :
          m = 1 \/ (m \in 2 .. n + 1 /\ m - 1 \in 1 .. n /\ Plan(p)[m] \in JoinTables)
    BY <2>2, JoinsAre
  <2>5. \A t \in JoinTables : \E m \in 2 .. n + 1 : Plan(p)[m] = t
    <3> SUFFICES ASSUME NEW t \in JoinTables PROVE \E m \in 2 .. n + 1 : Plan(p)[m] = t
      OBVIOUS
    <3>1. PICK m \in 1 .. n : Joins[m] = t
      BY JoinsAre
    <3>2. m + 1 \in 2 .. n + 1 /\ Plan(p)[m + 1] = t
      BY <3>1, <2>2, <2>3
    <3> QED
      BY <3>2
  <2>6. ASSUME NEW m \in 1 .. n + 1, NEW o \in 1 .. n + 1, Plan(p)[m] = Plan(p)[o] PROVE m = o
    <3>1. CASE m = 1 \/ o = 1
      BY <2>2, <2>4, <2>6, <3>1, JoinsAre
    <3>2. CASE m # 1 /\ o # 1
      <4>1. m - 1 = o - 1
        BY <2>2, <2>4, <2>6, <3>2, JoinsAre
      <4> QED
        BY <4>1, JoinsAre
    <3> QED
      BY <3>1, <3>2
  <2>7. 1 \in 1 .. n + 1 /\ \A m \in 2 .. n + 1 : m \in 1 .. n + 1
    BY JoinsAre
  <2>8. \A t \in Tables : \E m \in 1 .. n + 1 : Plan(p)[m] = t
    BY <2>2, <2>5, <2>7 DEF Tables
  <2>9. \A m \in 1 .. n + 1 : Plan(p)[m] \in Tables
    BY <2>2, <2>4, JoinsAre
  <2> QED
    BY <1>2, <2>2, <2>6, <2>8, <2>9
<1> QED
  BY <1>1, <1>2

\* What the tables passed are at the first statement, at the COMMIT and between.
LEMMA Passed ==
  ASSUME NEW p, step[p] \in 1 .. Len(Joins) + 2
  PROVE  /\ step[p] = 1 => Past(p) = {}
         /\ step[p] = Len(Joins) + 2 => Past(p) = Tables
         /\ step[p] <= Len(Joins) + 1 => NextTable(p) \in Tables \ Past(p)
         /\ Past(p) \subseteq Tables
<1> DEFINE n == Len(Joins)
<1>1. n \in Nat /\ \A m \in 1 .. step[p] - 1 : m \in 1 .. n + 1
  BY JoinsAre
<1>2. ASSUME step[p] = 1 PROVE Past(p) = {}
  <2>1. 1 .. step[p] - 1 = {}
    BY <1>2
  <2> QED
    BY <2>1 DEF Past
<1>3. Past(p) \subseteq Tables
  BY <1>1, Plans DEF Past
<1>4. ASSUME step[p] = n + 2 PROVE Past(p) = Tables
  <2>1. 1 .. step[p] - 1 = 1 .. n + 1
    BY <1>1, <1>4
  <2>2. Past(p) = {Plan(p)[m] : m \in 1 .. n + 1}
    BY <2>1 DEF Past
  <2>3. \A t \in Tables : \E m \in 1 .. n + 1 : Plan(p)[m] = t
    BY Plans
  <2>4. Tables \subseteq Past(p)
    BY <2>2, <2>3
  <2> QED
    BY <1>3, <2>4
<1>5. ASSUME step[p] <= n + 1 PROVE NextTable(p) \in Tables \ Past(p)
  <2>1. step[p] \in 1 .. n + 1 /\ step[p] \notin 1 .. step[p] - 1
    BY <1>1, <1>5
  <2>2. ASSUME NEW m \in 1 .. step[p] - 1, Plan(p)[m] = Plan(p)[step[p]] PROVE FALSE
    BY <1>1, <2>1, <2>2, Plans
  <2> QED
    BY <2>1, <2>2, Plans DEF Past, NextTable
<1> QED
  BY <1>2, <1>3, <1>4, <1>5

\* A statement takes the next table.
LEMMA Passes ==
  ASSUME NEW p, step[p] \in 1 .. Len(Joins) + 1, step'[p] = step[p] + 1, Plan(p)' = Plan(p)
  PROVE  Past(p)' = Past(p) \cup {NextTable(p)}
<1>1. 1 .. step'[p] - 1 = (1 .. step[p] - 1) \cup {step[p]}
  BY JoinsAre
<1>2. Past(p)' = {Plan(p)[m] : m \in 1 .. step'[p] - 1}
  BY DEF Past
<1> QED
  BY <1>1, <1>2 DEF Past, NextTable

\* Parts of resources are rows; so a part differs from Nil.
LEMMA Parts ==
  ASSUME NEW o \in Json!Resources, NEW t \in Tables
  PROVE  Part(o, t) \in RowsOf(t) /\ Part(o, t) # Nil
<1>1. /\ o.attrs \in [Attrs -> Values \cup {Nil}]
      /\ o.created \in Json!Times \cup {Nil} /\ o.modified \in Json!Times \cup {Nil}
  BY DEF Json!Resources
<1>2. [a \in {b \in Attrs : Home[b] = t} |-> o.attrs[a]]
        \in [{a \in Attrs : Home[a] = t} -> Values \cup {Nil}]
  BY <1>1
<1>3. Part(o, t) \in RowsOf(t)
  BY <1>1, <1>2 DEF Part, RowsOf
<1> QED
  BY <1>3, NilAssumption

\* A set of natural numbers has a least element.
LEMMA NatMin ==
  ASSUME NEW T \in SUBSET Nat, T # {}
  PROVE  \E x \in T : \A y \in T : x <= y
<1>1. PICK R : R = OpToRel(<, Nat)
  OBVIOUS
<1>2. R = {ss \in Nat \X Nat : ss[1] < ss[2]}
  BY <1>1 DEF OpToRel
<1>3. IsWellFoundedOn(R, Nat)
  BY <1>1, NatLessThanWellFounded
<1>4. \E x \in T : \A y \in T : ~ (<<y, x>> \in R)
  BY <1>3, WFMin
<1>5. ASSUME NEW x \in Nat, NEW y \in Nat, y < x PROVE <<y, x>> \in R
  BY <1>2, <1>5
<1>6. PICK x \in T : \A y \in T : ~ (<<y, x>> \in R)
  BY <1>4
<1>7. ASSUME NEW y \in T PROVE x <= y
  <2>1. x \in Nat /\ y \in Nat
    OBVIOUS
  <2>2. ~ (y < x)
    BY <1>5, <1>6, <2>1
  <2> QED
    BY <2>1, <2>2
<1> QED
  BY <1>7

-----------------------------------------------------------------------------
(* The steps several actions are made of.                                   *)

Still(q) == UNCHANGED <<tx[q], step[q], pc[q], req[q], draft[q]>>

\* The steps of another goroutine leave this be, if they respect the primary row
\* it has locked, and bring none back.
LEMMA OthersKeep ==
  ASSUME NEW q, Locals(q), Progress(q), Still(q),
         Locks(q, Primary, Target(q)) /\ rows[Primary][Target(q)] # Nil
           => rows'[Primary][Target(q)] # Nil,
         pc[q] = "tx" /\ req[q].op = "Delete" /\ rows[Primary][Target(q)] = Nil
           => rows'[Primary][Target(q)] = Nil
  PROVE  Locals(q)' /\ Progress(q)'
<1>1. Locals(q)'
  BY DEF Locals, Still
<1>2. /\ Plan(q)' = Plan(q) /\ Target(q)' = Target(q)
      /\ \A t, i : Locks(q, t, i)' <=> Locks(q, t, i)
  BY DEF Plan, Target, Locks, Still
<1>3. Past(q)' = Past(q)
  BY <1>2 DEF Past, Still
<1>4. \A t : Put(q, t) => Put(q, t)'
  BY <1>2 DEF Put, Still
<1>5. (tx[q] # Nil <=> pc[q] = "tx") => (tx[q] # Nil <=> pc[q] = "tx")'
  BY DEF Still
<1>6. (Locking(q)' <=> Locking(q)) /\ (OwnRow(q) => OwnRow(q)')
  <2>1. Locking(q)' <=> Locking(q)
    BY <1>2 DEF Locking, Still
  <2> QED
    BY <1>2, <1>3, <2>1 DEF OwnRow
<1>7. Putting(q) => Putting(q)'
  BY <1>3, <1>4 DEF Putting, Still
<1>8. Updating(q) => Updating(q)'
  BY <1>2, <1>6 DEF Updating, Stored, Still
<1>9. pc[q] = "tx" => (Deleting(q) => Deleting(q)')
  BY <1>2, <1>3 DEF Deleting, Stored, Still
<1> QED
  BY <1>1, <1>5, <1>6, <1>7, <1>8, <1>9 DEF Progress, Still

Stages == {"idle", "called", "patched", "write", "counted", "tx", "done"}
Outcomes == {"none", "ok", "internal", "notFound", "conflict", "badPatch"}

\* Of the goroutines' state only p's changes.
Own(p) ==
  /\ pc' = [pc EXCEPT ![p] = pc'[p]] /\ pc'[p] \in Stages
  /\ req' = [req EXCEPT ![p] = req'[p]] /\ req'[p] \in Requests \cup {Nil}
  /\ draft' = [draft EXCEPT ![p] = draft'[p]] /\ draft'[p] \in Json!Resources \cup {Nil}
  /\ status' = [status EXCEPT ![p] = status'[p]] /\ status'[p] \in Outcomes
  /\ tx' = [tx EXCEPT ![p] = tx'[p]]
  /\ tx'[p] # Nil =>
       /\ DOMAIN tx'[p] \subseteq Tables \X Ids
       /\ \A c \in DOMAIN tx'[p] : tx'[p][c] \in RowsOf(c[1]) \cup {Nil}
  /\ step' = [step EXCEPT ![p] = step'[p]] /\ step'[p] \in Nat \ {0}
  /\ clock' \in Json!Times /\ issued \subseteq issued' /\ issued' \subseteq Ids

\* The tables change in a way that p's transaction may change them.
Respects(p) ==
  /\ \A t \in Tables : rows'[t] \in [Ids -> RowsOf(t) \cup {Nil}]
  /\ Whole'
  /\ \A t \in Tables, i \in Ids : rows'[t][i] # Nil => i \in issued'
  /\ \A q \in Procs \ {p} :
       /\ Locks(q, Primary, Target(q)) /\ rows[Primary][Target(q)] # Nil
            => rows'[Primary][Target(q)] # Nil
       /\ pc[q] = "tx" /\ req[q].op = "Delete" /\ rows[Primary][Target(q)] = Nil
            => rows'[Primary][Target(q)] = Nil
       /\ Creates(q) => \A t \in Tables : rows'[t][draft[q].id] = Nil

\* p names no identifier that a Create has drawn, and locks no row that is locked.
Apart(p) ==
  /\ req'[p] # Nil => req'[p].id \in issued' \cup {Nil}
  /\ \A q \in Procs \ {p} :
       /\ Creates(q) => /\ req'[p] # Nil => req'[p].id # draft[q].id
                        /\ draft'[p] # Nil => draft'[p].id # draft[q].id
       /\ \A t \in Tables, i \in Ids : Locks(q, t, i) => ~ Locks(p, t, i)'

LEMMA OwnKeepsTypes ==
  ASSUME IInv, NEW p \in Procs, Own(p),
         \A t \in Tables : rows'[t] \in [Ids -> RowsOf(t) \cup {Nil}]
  PROVE  TypeOK' /\ Types' /\ \A q \in Procs \ {p} : Still(q)
<1>1. TypeOK /\ Types
  BY DEF IInv
<1>2. /\ DOMAIN pc = Procs /\ DOMAIN req = Procs /\ DOMAIN draft = Procs
      /\ DOMAIN status = Procs /\ DOMAIN tx = Procs /\ DOMAIN step = Procs
  BY <1>1 DEF TypeOK, Types
<1>3. \A q \in Procs \ {p} : Still(q) /\ status'[q] = status[q]
  BY <1>2 DEF Own, Still
<1>4. pc' \in [Procs -> Stages] /\ status' \in [Procs -> Outcomes] /\ step' \in [Procs -> Nat \ {0}]
  BY <1>1 DEF Own, TypeOK, Stages, Outcomes
<1>5. /\ req' \in [Procs -> Requests \cup {Nil}] /\ draft' \in [Procs -> Json!Resources \cup {Nil}]
      /\ clock' \in Json!Times /\ issued' \subseteq Ids
  BY <1>1 DEF Own, Types
<1>6. tx' = [q \in Procs |-> tx'[q]]
  BY <1>1 DEF Own, Types
<1>7. ASSUME NEW q \in Procs, tx'[q] # Nil
      PROVE  /\ DOMAIN tx'[q] \subseteq Tables \X Ids
             /\ \A c \in DOMAIN tx'[q] : tx'[q][c] \in RowsOf(c[1]) \cup {Nil}
  <2>1. CASE q = p
    BY <1>7, <2>1 DEF Own
  <2>2. CASE q # p
    <3>1. tx'[q] = tx[q]
      BY <1>3, <2>2 DEF Still
    <3> QED
      BY <1>1, <1>7, <3>1 DEF TypeOK
  <2> QED
    BY <2>1, <2>2
<1>8. TypeOK'
  BY <1>4, <1>7 DEF TypeOK, Stages, Outcomes, RowsOf, Json!Times
<1>9. Types'
  BY <1>5, <1>6 DEF Types, Json!Times, Json!Resources
<1> QED
  BY <1>3, <1>8, <1>9

\* A step of p is as good as what it does to p.
LEMMA OwnStep ==
  ASSUME IInv, NEW p \in Procs, Own(p), Respects(p), Apart(p),
         Locals(p)', Progress(p)', Fresh(p)'
  PROVE  IInv'
<1>1. TypeOK' /\ Types' /\ \A q \in Procs \ {p} : Still(q)
  BY OwnKeepsTypes DEF Respects
<1>2. \A q \in Procs \ {p} : \A t, i : Locks(q, t, i)' <=> Locks(q, t, i)
  BY <1>1 DEF Locks, Still
<1>3. Exclusive'
  <2>1. \A q, r \in Procs, t \in Tables, i \in Ids :
          Locks(q, t, i)' /\ Locks(r, t, i)' /\ q # p /\ r # p => q = r
    BY <1>2 DEF IInv, Exclusive
  <2>2. \A q \in Procs \ {p}, t \in Tables, i \in Ids : ~ (Locks(q, t, i)' /\ Locks(p, t, i)')
    BY <1>2 DEF Apart
  <2> QED
    BY <2>1, <2>2 DEF Exclusive
<1>4. Known'
  <2>1. ASSUME NEW q \in Procs, req'[q] # Nil PROVE req'[q].id \in issued' \cup {Nil}
    <3>1. CASE q = p
      BY <2>1, <3>1 DEF Apart
    <3>2. CASE q # p
      BY <1>1, <2>1, <3>2 DEF IInv, Known, Still, Own
    <3> QED
      BY <3>1, <3>2
  <2> QED
    BY <2>1 DEF Known, Respects
<1>5. ASSUME NEW q \in Procs PROVE Locals(q)' /\ Progress(q)'
  <2>1. CASE q # p
    <3>1. Locals(q) /\ Progress(q) /\ Still(q)
      BY <1>1, <2>1 DEF IInv
    <3> QED
      BY <2>1, <3>1, OthersKeep DEF Respects
  <2> QED
    BY <2>1
<1>6. ASSUME NEW q \in Procs \ {p} PROVE Fresh(q)'
  <2>1. Still(q) /\ Fresh(q) /\ (Creates(q)' <=> Creates(q)) /\ draft'[q] = draft[q]
    BY <1>1 DEF IInv, Still, Creates
  <2> SUFFICES ASSUME Creates(q) PROVE Fresh(q)'
    BY <2>1 DEF Fresh
  <2>2. draft'[q].id \in issued' /\ \A t \in Tables : rows'[t][draft'[q].id] = Nil
    BY <2>1 DEF Fresh, Respects, Own
  <2>3. ASSUME NEW r \in Procs \ {q}
        PROVE  /\ req'[r] # Nil => req'[r].id # draft'[q].id
               /\ Creates(r)' => draft'[r].id # draft'[q].id
    <3>1. CASE r = p
      BY <2>1, <3>1 DEF Apart, Creates
    <3>2. CASE r # p
      <4>1. Still(r) /\ (Creates(r)' <=> Creates(r))
        BY <1>1, <3>2 DEF Still, Creates
      <4> QED
        BY <2>1, <4>1 DEF Fresh, Still
    <3> QED
      BY <3>1, <3>2
  <2> QED
    BY <2>2, <2>3 DEF Fresh
<1> QED
  BY <1>1, <1>3, <1>4, <1>5, <1>6 DEF IInv, Respects

\* Most steps leave the tables alone.
LEMMA RowsKept ==
  ASSUME IInv, NEW p \in Procs, UNCHANGED rows, issued \subseteq issued'
  PROVE  Respects(p)
<1>1. \A q \in Procs : Fresh(q)
  BY DEF IInv
<1>2. Whole'
  BY DEF IInv, Whole
<1> QED
  BY <1>1, <1>2 DEF IInv, Respects, TypeOK, Known, Fresh

-----------------------------------------------------------------------------
(* The statements outside transactions.                                     *)

\* What the joined SELECT returns is a resource.
LEMMA Rebuilt ==
  ASSUME TypeOK, NEW i \in Ids, Table[i] # Nil \/ rows[Primary][i] # Nil
  PROVE  /\ Table[i] \in Json!Resources /\ Table[i].id = i /\ Table[i] # Nil
         /\ Table[i] = Reconstruct(i) /\ rows[Primary][i] # Nil
<1>1. rows[Primary][i] # Nil /\ Table[i] = Reconstruct(i)
  BY DEF Table
<1>2. \A t \in Tables : rows[t][i] \in RowsOf(t) \cup {Nil}
  BY DEF TypeOK
<1>3. rows[Primary][i] \in RowsOf(Primary)
  BY <1>1, <1>2, JoinsAre
<1>4. /\ rows[Primary][i].attrs \in [{a \in Attrs : Home[a] = Primary} -> Values \cup {Nil}]
      /\ rows[Primary][i].created \in Json!Times \cup {Nil}
      /\ rows[Primary][i].modified \in Json!Times \cup {Nil}
  BY <1>3 DEF RowsOf
<1>5. ASSUME NEW a \in Attrs
      PROVE  (IF Home[a] = Primary THEN rows[Primary][i].attrs[a]
              ELSE IF rows[Home[a]][i] = Nil THEN Nil ELSE rows[Home[a]][i][a]) \in Values \cup {Nil}
  <2>1. CASE Home[a] = Primary
    BY <1>4, <2>1
  <2>2. CASE Home[a] # Primary /\ rows[Home[a]][i] # Nil
    <3>1. Home[a] \in Tables
      BY HomeAssumption
    <3>2. rows[Home[a]][i] \in RowsOf(Home[a])
      BY <1>2, <2>2, <3>1
    <3>3. rows[Home[a]][i] \in [{b \in Attrs : Home[b] = Home[a]} -> Values \cup {Nil}]
      BY <2>2, <3>2 DEF RowsOf
    <3> QED
      BY <2>2, <3>3
  <2> QED
    BY <2>1, <2>2
<1>6. Reconstruct(i) \in Json!Resources /\ Reconstruct(i).id = i
  BY <1>4, <1>5 DEF Reconstruct, Json!Resources
<1> QED
  BY <1>1, <1>6, Kinds

\* The attributes of a body laid over those of a resource.
LEMMA Overlays ==
  ASSUME NEW f \in [Attrs -> Values \cup {Nil}], NEW r \in Requests
  PROVE  Json!Overlay(f, r.attrs) \in [Attrs -> Values \cup {Nil}]
<1>1. r \in Json!RequestType
  BY CallsAssumption
<1>2. PICK S \in SUBSET Attrs : r.attrs \in [S -> Values \cup {Nil}]
  BY <1>1 DEF Json!RequestType
<1> QED
  BY <1>2 DEF Json!Overlay

LEMMA Bodies ==
  ASSUME NEW r \in Requests
  PROVE  Json!Body(r) \in [Attrs -> Values \cup {Nil}]
BY Overlays DEF Json!Body

\* Outside a transaction nothing is locked.
LEMMA Outside ==
  ASSUME IInv, NEW p \in Procs, pc[p] # "tx"
  PROVE  /\ tx[p] = Nil /\ tx = [tx EXCEPT ![p] = Nil]
         /\ step = [step EXCEPT ![p] = step[p]] /\ step[p] \in Nat \ {0}
BY DEF IInv, Progress, TypeOK, Types

\* A call is over: its answer is on its way, its locks and its draft are given up.
LEMMA Finishes ==
  ASSUME IInv, NEW p \in Procs, pc[p] # "idle", Respects(p), NEW s \in Outcomes,
         pc' = [pc EXCEPT ![p] = "done"], status' = [status EXCEPT ![p] = s],
         draft' = [draft EXCEPT ![p] = Nil], UNCHANGED <<clock, issued, req>>,
         tx' = [tx EXCEPT ![p] = Nil],
         step' = [step EXCEPT ![p] = step'[p]], step'[p] \in Nat \ {0}
  PROVE  IInv'
<1>1. /\ DOMAIN pc = Procs /\ DOMAIN req = Procs /\ DOMAIN draft = Procs
      /\ DOMAIN status = Procs /\ DOMAIN tx = Procs
      /\ req \in [Procs -> Requests \cup {Nil}] /\ clock \in Json!Times /\ issued \subseteq Ids
  BY DEF IInv, TypeOK, Types
<1>2. /\ pc'[p] = "done" /\ status'[p] = s /\ draft'[p] = Nil /\ tx'[p] = Nil
      /\ req'[p] = req[p] /\ req[p] \in Requests
  BY <1>1 DEF IInv, Locals
<1>3. Own(p)
  BY <1>1, <1>2 DEF Own, Stages
<1>4. Apart(p)
  <2>1. req'[p] # Nil => req'[p].id \in issued' \cup {Nil}
    BY <1>2 DEF IInv, Known
  <2>2. ASSUME NEW q \in Procs \ {p}, Creates(q), req'[p] # Nil PROVE req'[p].id # draft[q].id
    BY <1>2, <2>2 DEF IInv, Fresh
  <2> QED
    BY <1>2, <2>1, <2>2 DEF Apart, Locks
<1>5. Locals(p)'
  BY <1>2 DEF Locals
<1>6. Progress(p)'
  BY <1>2 DEF Progress
<1>7. Fresh(p)'
  BY <1>2 DEF Fresh, Creates
<1> QED
  BY <1>3, <1>4, <1>5, <1>6, <1>7, OwnStep

LEMMA FinishesOutside ==
  ASSUME IInv, NEW p \in Procs, pc[p] \notin {"idle", "tx"}, UNCHANGED <<rows, tx, step>>,
         NEW s \in Outcomes, NEW S, NEW n, Json!Finish(p, s, S, n)
  PROVE  IInv'
<1>1. /\ pc' = [pc EXCEPT ![p] = "done"] /\ status' = [status EXCEPT ![p] = s]
      /\ draft' = [draft EXCEPT ![p] = Nil] /\ UNCHANGED <<clock, issued, req>>
  BY DEF Json!Finish
<1>2. Respects(p)
  BY <1>1, RowsKept
<1>3. tx' = [tx EXCEPT ![p] = Nil] /\ step' = [step EXCEPT ![p] = step'[p]] /\ step'[p] \in Nat \ {0}
  BY Outside
<1> QED
  BY <1>1, <1>2, <1>3, Finishes

\* p's locals change outside a transaction.
LEMMA LocalStep ==
  ASSUME IInv, NEW p \in Procs, pc[p] # "tx", UNCHANGED <<rows, tx, step, clock>>,
         issued \subseteq issued', issued' \subseteq Ids,
         NEW s \in Stages \ {"tx"}, pc' = [pc EXCEPT ![p] = s],
         NEW z \in Outcomes, status' = [status EXCEPT ![p] = z],
         NEW r \in Requests \cup {Nil}, req' = [req EXCEPT ![p] = r],
         NEW o \in Json!Resources \cup {Nil}, draft' = [draft EXCEPT ![p] = o],
         r # Nil => r.id \in issued' \cup {Nil},
         \A q \in Procs \ {p} : Creates(q) => /\ r # Nil => r.id # draft[q].id
                                              /\ o # Nil => o.id # draft[q].id,
         Locals(p)', Fresh(p)'
  PROVE  IInv'
<1>1. /\ DOMAIN pc = Procs /\ DOMAIN req = Procs /\ DOMAIN draft = Procs
      /\ DOMAIN status = Procs /\ status \in [Procs -> Outcomes] /\ clock \in Json!Times
  BY DEF IInv, TypeOK, Types, Outcomes
<1>2. pc'[p] = s /\ req'[p] = r /\ draft'[p] = o /\ status'[p] = z /\ tx'[p] = Nil
  BY <1>1, Outside
<1>3. \A t, i : ~ Locks(p, t, i)'
  BY <1>2 DEF Locks
<1>4. Own(p)
  BY <1>1, <1>2, Outside DEF Own
<1>5. Apart(p)
  BY <1>2, <1>3 DEF Apart
<1>6. Progress(p)'
  BY <1>2 DEF Progress
<1>7. Respects(p)
  BY RowsKept
<1> QED
  BY <1>4, <1>5, <1>6, <1>7, OwnStep

LEMMA CallStep ==
  ASSUME IInv, NEW p \in Procs, Call(p)
  PROVE  IInv'
<1>1. PICK r \in Requests : Json!Callable(r) /\ req' = [req EXCEPT ![p] = r]
  BY DEF Call, Json!Call
<1>2. /\ pc[p] = "idle" /\ pc' = [pc EXCEPT ![p] = "called"]
      /\ UNCHANGED <<rows, tx, step, clock, issued, draft, status>>
  BY DEF Call, Json!Call
<1>3. /\ DOMAIN pc = Procs /\ DOMAIN req = Procs /\ DOMAIN draft = Procs /\ DOMAIN status = Procs
      /\ status \in [Procs -> Outcomes] /\ issued \subseteq Ids /\ r # Nil
      /\ draft \in [Procs -> Json!Resources \cup {Nil}]
  BY Kinds DEF IInv, TypeOK, Types, Outcomes
<1>4. draft[p] = Nil /\ pc'[p] = "called" /\ req'[p] = r /\ draft'[p] = Nil
  BY <1>2, <1>3, <1>1 DEF IInv, Locals
<1>5. r.id = Nil \/ r.id \in issued \ Json!Drawn
  BY <1>1 DEF Json!Callable
<1>6. ASSUME NEW q \in Procs \ {p}, Creates(q) PROVE r.id # draft[q].id
  <2>1. draft[q].id \in Json!Drawn
    BY <1>6 DEF Creates, Json!Drawn
  <2>2. draft[q].id # Nil
    BY <1>3, <1>6, Kinds DEF Creates
  <2> QED
    BY <1>5, <2>1, <2>2
<1>7. Locals(p)' /\ Fresh(p)'
  BY <1>4 DEF Locals, Fresh, Creates
<1>8. /\ status' = [status EXCEPT ![p] = status[p]] /\ draft' = [draft EXCEPT ![p] = Nil]
      /\ "called" \in Stages \ {"tx"} /\ issued \subseteq issued' /\ issued' \subseteq Ids
      /\ pc[p] # "tx"
  BY <1>2, <1>3, <1>4 DEF Stages
<1> QED
  BY <1>1, <1>2, <1>3, <1>5, <1>6, <1>7, <1>8, LocalStep

LEMMA PrepareStep ==
  ASSUME IInv, NEW p \in Procs, Prepare(p)
  PROVE  IInv'
<1>1. PICK i \in Ids \ issued :
         /\ issued' = issued \cup {i}
         /\ pc' = [pc EXCEPT ![p] = "write"]
         /\ draft' = [draft EXCEPT ![p] =
               [id |-> i, attrs |-> Json!Body(req[p]), created |-> clock, modified |-> clock]]
         /\ UNCHANGED <<clock, req, status>>
  BY DEF Prepare, Json!Prepare, Json!Proceed
<1>2. pc[p] = "called" /\ req[p].op = "Create" /\ UNCHANGED <<rows, tx, step>>
  BY DEF Prepare, Json!Prepare
<1> DEFINE o == [id |-> i, attrs |-> Json!Body(req[p]), created |-> clock, modified |-> clock]
<1>3. /\ DOMAIN pc = Procs /\ DOMAIN req = Procs /\ DOMAIN draft = Procs /\ DOMAIN status = Procs
      /\ status \in [Procs -> Outcomes] /\ issued \subseteq Ids /\ clock \in Json!Times
      /\ req \in [Procs -> Requests \cup {Nil}] /\ req[p] \in Requests
  BY <1>2 DEF IInv, TypeOK, Types, Outcomes, Locals
<1>4. o \in Json!Resources /\ o # Nil /\ o.id = i
  <2>1. Json!Body(req[p]) \in [Attrs -> Values \cup {Nil}]
    BY <1>3, Bodies
  <2>2. o \in Json!Resources
    BY <1>3, <2>1 DEF Json!Resources
  <2> QED
    BY <2>2, Kinds
<1>5. pc'[p] = "write" /\ req'[p] = req[p] /\ draft'[p] = o
  BY <1>1, <1>3
<1>6. ASSUME NEW q \in Procs \ {p}
      PROVE  /\ Creates(q) => req[p].id # draft[q].id /\ o.id # draft[q].id
             /\ req[q] # Nil => req[q].id # o.id
  <2>1. Fresh(q) /\ req[p] # Nil
    BY <1>3, Kinds DEF IInv
  <2>2. req[q] # Nil => req[q].id \in issued \cup {Nil}
    BY DEF IInv, Known
  <2>3. o.id # Nil /\ o.id \notin issued
    BY <1>4, Kinds
  <2> HIDE DEF o
  <2> QED
    BY <2>1, <2>2, <2>3 DEF Fresh
<1>7. Locals(p)'
  BY <1>2, <1>3, <1>4, <1>5 DEF Locals, Writes
<1>8. Fresh(p)'
  <2>1. \A t \in Tables : rows'[t][i] = Nil
    BY <1>2 DEF IInv, Known
  <2>2. \A q \in Procs \ {p} : req'[q] = req[q] /\ draft'[q] = draft[q]
    BY <1>1, <1>3
  <2>3. \A q \in Procs \ {p} : Creates(q)' => Creates(q)
    BY <2>2 DEF Creates
  <2> HIDE DEF o
  <2> QED
    BY <1>1, <1>4, <1>5, <1>6, <2>1, <2>2, <2>3 DEF Fresh
<1>9. /\ status' = [status EXCEPT ![p] = status[p]] /\ req' = [req EXCEPT ![p] = req[p]]
      /\ "write" \in Stages \ {"tx"} /\ issued \subseteq issued' /\ issued' \subseteq Ids
      /\ req[p].id \in issued' \cup {Nil} /\ pc[p] # "tx"
  <2>1. req[p].id \in issued \cup {Nil}
    BY <1>3, Kinds DEF IInv, Known
  <2> QED
    BY <1>1, <1>2, <1>3, <2>1 DEF Stages
<1> HIDE DEF o
<1>10. draft' = [draft EXCEPT ![p] = o] /\ pc' = [pc EXCEPT ![p] = "write"] /\ UNCHANGED clock
  BY <1>1 DEF o
<1>11. /\ req[p] \in Requests \cup {Nil} /\ o \in Json!Resources \cup {Nil}
       /\ status[p] \in Outcomes /\ UNCHANGED <<rows, tx, step>>
       /\ \A q \in Procs \ {p} : Creates(q) => /\ req[p] # Nil => req[p].id # draft[q].id
                                               /\ o # Nil => o.id # draft[q].id
  BY <1>2, <1>3, <1>4, <1>6
<1> QED
  BY <1>7, <1>8, <1>9, <1>10, <1>11, LocalStep

LEMMA ReturnStep ==
  ASSUME IInv, NEW p \in Procs, Return(p)
  PROVE  IInv'
<1>1. /\ pc[p] = "done" /\ pc' = [pc EXCEPT ![p] = "idle"] /\ req' = [req EXCEPT ![p] = Nil]
      /\ status' = [status EXCEPT ![p] = "none"]
      /\ UNCHANGED <<rows, tx, step, clock, issued, draft>>
  BY DEF Return, Json!Return
<1>2. /\ DOMAIN pc = Procs /\ DOMAIN req = Procs /\ draft \in [Procs -> Json!Resources \cup {Nil}]
      /\ issued \subseteq Ids
  BY DEF IInv, TypeOK, Types
<1>3. draft[p] = Nil /\ pc'[p] = "idle" /\ req'[p] = Nil /\ draft'[p] = Nil
  BY <1>1, <1>2 DEF IInv, Locals
<1>4. Locals(p)' /\ Fresh(p)'
  BY <1>3 DEF Locals, Fresh, Creates
<1>5. /\ draft' = [draft EXCEPT ![p] = Nil] /\ "none" \in Outcomes /\ pc[p] # "tx"
      /\ "idle" \in Stages \ {"tx"} /\ issued \subseteq issued' /\ issued' \subseteq Ids
  BY <1>1, <1>2, <1>3 DEF Stages, Outcomes
<1> QED
  BY <1>1, <1>4, <1>5, LocalStep

\* Replace and Patch go on with a resource under the identifier of the request.
LEMMA Proceeds ==
  ASSUME IInv, NEW p \in Procs, pc[p] \in {"called", "patched"},
         req[p].op \in {"Replace", "Patch"}, UNCHANGED <<rows, tx, step, clock, issued, req, status>>,
         NEW s \in {"patched", "write"}, s = "patched" => req[p].op = "Patch",
         NEW o \in Json!Resources, o.id = req[p].id,
         pc' = [pc EXCEPT ![p] = s], draft' = [draft EXCEPT ![p] = o]
  PROVE  IInv'
<1>1. /\ DOMAIN pc = Procs /\ DOMAIN draft = Procs /\ status \in [Procs -> Outcomes]
      /\ issued \subseteq Ids /\ req \in [Procs -> Requests \cup {Nil}]
      /\ req[p] \in Requests /\ req[p] # Nil /\ o # Nil
  BY Kinds DEF IInv, TypeOK, Types, Outcomes, Locals
<1>2. pc'[p] = s /\ req'[p] = req[p] /\ draft'[p] = o
  BY <1>1
<1>3. Locals(p)' /\ Fresh(p)'
  BY <1>1, <1>2 DEF Locals, Fresh, Creates, Writes
<1>4. \A q \in Procs \ {p} : Creates(q) => req[p].id # draft[q].id
  BY <1>1 DEF IInv, Fresh
<1>5. /\ status' = [status EXCEPT ![p] = status[p]] /\ req' = [req EXCEPT ![p] = req[p]]
      /\ s \in Stages \ {"tx"} /\ issued \subseteq issued' /\ issued' \subseteq Ids
      /\ req[p].id \in issued' \cup {Nil} /\ pc[p] # "tx" /\ status[p] \in Outcomes
      /\ req[p] \in Requests \cup {Nil} /\ o \in Json!Resources \cup {Nil}
  BY <1>1 DEF Stages, IInv, Known
<1>6. \A q \in Procs \ {p} : Creates(q) => (req[p] # Nil => req[p].id # draft[q].id)
                                         /\ (o # Nil => o.id # draft[q].id)
  BY <1>4
<1> QED
  BY <1>3, <1>5, <1>6, LocalStep

LEMMA ReadStep ==
  ASSUME IInv, NEW p \in Procs, Read(p)
  PROVE  IInv'
<1>1. UNCHANGED <<rows, tx, step>>
  BY DEF Read
<1>2. ASSUME pc[p] \in {"called", "patched"}
      PROVE  /\ pc[p] \notin {"idle", "tx"} /\ req[p] \in Requests
             /\ Json!Row(p) = Table[req[p].id] /\ TypeOK
  BY <1>2 DEF IInv, Locals, Json!Row
<1>3. CASE Json!Get(p)
  <2>1. \E s \in Outcomes : \E S, n : Json!Finish(p, s, S, n)
    BY <1>3 DEF Json!Get, Json!Fail, Outcomes
  <2>2. pc[p] = "called"
    BY <1>3 DEF Json!Get
  <2> QED
    BY <1>1, <1>2, <2>1, <2>2, FinishesOutside
<1>4. CASE Json!Select(p)
  <2>1. \E s \in Outcomes : \E S, n : Json!Finish(p, s, S, n)
    BY <1>4 DEF Json!Select, Outcomes
  <2>2. pc[p] = "counted"
    BY <1>4 DEF Json!Select
  <2> QED
    BY <1>1, <2>1, <2>2, FinishesOutside
<1>5. CASE Json!Count(p)
  <2>1. /\ pc[p] = "called" /\ pc' = [pc EXCEPT ![p] = "counted"]
        /\ UNCHANGED <<clock, issued, req, draft, status>>
    BY <1>5 DEF Json!Count
  <2>2. /\ DOMAIN pc = Procs /\ draft \in [Procs -> Json!Resources \cup {Nil}]
        /\ status \in [Procs -> Outcomes] /\ req \in [Procs -> Requests \cup {Nil}]
        /\ issued \subseteq Ids /\ req[p] # Nil
    BY <1>2, <2>1, Kinds DEF IInv, TypeOK, Types, Outcomes
  <2>3. draft[p] = Nil /\ pc'[p] = "counted" /\ req'[p] = req[p] /\ draft'[p] = Nil
    BY <2>1, <2>2 DEF IInv, Locals
  <2>4. Locals(p)' /\ Fresh(p)'
    BY <1>2, <2>1, <2>3 DEF Locals, Fresh, Creates
  <2>5. /\ draft' = [draft EXCEPT ![p] = Nil] /\ req' = [req EXCEPT ![p] = req[p]]
        /\ status' = [status EXCEPT ![p] = status[p]] /\ status[p] \in Outcomes
        /\ "counted" \in Stages \ {"tx"} /\ issued \subseteq issued' /\ issued' \subseteq Ids
        /\ req[p] \in Requests \cup {Nil} /\ req[p].id \in issued' \cup {Nil} /\ pc[p] # "tx"
    BY <2>1, <2>2, <2>3 DEF Stages, IInv, Known
  <2>6. \A q \in Procs \ {p} : Creates(q) => req[p].id # draft[q].id
    BY <2>2 DEF IInv, Fresh
  <2> QED
    BY <1>1, <2>1, <2>4, <2>5, <2>6, LocalStep
<1>6. CASE Json!ReadForPatch(p)
  <2>1. pc[p] = "called" /\ req[p].op = "Patch"
    BY <1>6 DEF Json!ReadForPatch
  <2>2. CASE Json!Row(p) = Nil \/ req[p].bad
    <3>1. \E s \in Outcomes : \E S, n : Json!Finish(p, s, S, n)
      BY <1>6, <2>2 DEF Json!ReadForPatch, Json!Fail, Outcomes
    <3> QED
      BY <1>1, <1>2, <2>1, <3>1, FinishesOutside
  <2>3. CASE ~ (Json!Row(p) = Nil \/ req[p].bad)
    <3> DEFINE row == Table[req[p].id]
               o == [row EXCEPT !.attrs = Json!Overlay(@, req[p].attrs)]
    <3>1. Json!ReadBack(Json!Row(p)) = row /\ row # Nil
      BY <1>2, <2>1, <2>3 DEF Json!ReadBack
    <3>2. /\ pc' = [pc EXCEPT ![p] = "patched"] /\ draft' = [draft EXCEPT ![p] = o]
          /\ UNCHANGED <<clock, issued, req, status>>
      BY <1>6, <2>3, <3>1 DEF Json!ReadForPatch, Json!Proceed
    <3>3. req[p].id \in Ids
      BY <1>2, <2>1, Kinds
    <3>4. row \in Json!Resources /\ row.id = req[p].id
      BY <1>2, <2>1, <3>1, <3>3, Rebuilt
    <3>5. row.attrs \in [Attrs -> Values \cup {Nil}]
      BY <3>4 DEF Json!Resources
    <3>6. Json!Overlay(row.attrs, req[p].attrs) \in [Attrs -> Values \cup {Nil}]
      BY <1>2, <2>1, <3>5, Overlays
    <3>7. o \in Json!Resources /\ o.id = req[p].id
      BY <3>4, <3>6 DEF Json!Resources
    <3> HIDE DEF o
    <3> QED
      BY <1>1, <2>1, <3>2, <3>7, Proceeds
  <2> QED
    BY <2>2, <2>3
<1>7. CASE Json!ReadForReplace(p)
  <2>1. pc[p] \in {"called", "patched"}
    BY <1>7 DEF Json!ReadForReplace
  <2>2. req[p].op \in {"Replace", "Patch"}
    BY <1>7 DEF Json!ReadForReplace, IInv, Locals
  <2>3. CASE Json!Row(p) = Nil
    <3>1. \E s \in Outcomes : \E S, n : Json!Finish(p, s, S, n)
      BY <1>7, <2>3 DEF Json!ReadForReplace, Json!Fail, Outcomes
    <3> QED
      BY <1>1, <1>2, <2>1, <3>1, FinishesOutside
  <2>4. CASE Json!Row(p) # Nil
    <3> DEFINE row == Table[req[p].id]
               f == IF pc[p] = "patched" THEN draft[p].attrs ELSE Json!Body(req[p])
               o == [id |-> req[p].id, attrs |-> f, created |-> row.created, modified |-> clock]
    <3>1. Json!ReadBack(Json!Row(p)) = row /\ row # Nil
      BY <1>2, <2>1, <2>4 DEF Json!ReadBack
    <3>2. /\ pc' = [pc EXCEPT ![p] = "write"] /\ draft' = [draft EXCEPT ![p] = o]
          /\ UNCHANGED <<clock, issued, req, status>>
      BY <1>7, <2>4, <3>1 DEF Json!ReadForReplace, Json!Proceed, Json!CreatedOf
    <3>3. req[p].id \in Ids
      BY <1>2, <2>1, <2>2, Kinds
    <3>4. row \in Json!Resources
      BY <1>2, <2>1, <3>1, <3>3, Rebuilt
    <3>5. row.created \in Json!Times \cup {Nil} /\ clock \in Json!Times
      BY <3>4 DEF Json!Resources, IInv, Types
    <3>6. f \in [Attrs -> Values \cup {Nil}]
      <4>1. CASE pc[p] = "patched"
        <5>1. draft[p] \in Json!Resources
          BY <4>1 DEF IInv, Types, Locals
        <5>2. draft[p].attrs \in [Attrs -> Values \cup {Nil}]
          BY <5>1 DEF Json!Resources
        <5> QED
          BY <4>1, <5>2
      <4>2. CASE pc[p] # "patched"
        BY <1>2, <2>1, <4>2, Bodies
      <4> QED
        BY <4>1, <4>2
    <3> HIDE DEF f
    <3>7. o \in Json!Resources /\ o.id = req[p].id
      BY <3>3, <3>5, <3>6 DEF Json!Resources
    <3> HIDE DEF o
    <3> QED
      BY <1>1, <2>1, <2>2, <3>2, <3>7, Proceeds
  <2> QED
    BY <2>3, <2>4
<1> QED
  BY <1>3, <1>4, <1>5, <1>6, <1>7 DEF Read

LEMMA StatementFailsStep ==
  ASSUME IInv, NEW p \in Procs, StatementFails(p)
  PROVE  IInv'
<1>1. \E s \in Outcomes : \E S, n : Json!Finish(p, s, S, n)
  BY DEF StatementFails, Json!StatementFails, Json!Fail, Outcomes
<1>2. pc[p] \notin {"idle", "tx"} /\ UNCHANGED <<rows, tx, step>>
  BY DEF StatementFails, Json!StatementFails
<1> QED
  BY <1>1, <1>2, FinishesOutside

LEMMA TickStep ==
  ASSUME IInv, Tick
  PROVE  IInv'
<1>1. UNCHANGED <<rows, tx, step, issued, pc, req, draft, status>> /\ clock' \in Json!Times
  BY CallsAssumption DEF Tick, Json!Tick, IInv, Types, Json!Times
<1>2. /\ TypeOK' /\ Types'
  BY <1>1 DEF IInv, TypeOK, Types, RowsOf, Json!Times, Json!Resources
<1>3. Known' /\ Exclusive' /\ Whole'
  BY <1>1 DEF IInv, Known, Exclusive, Whole, Locks
<1>4. ASSUME NEW q \in Procs PROVE Locals(q)' /\ Progress(q)'
  BY <1>1, OthersKeep DEF IInv, Still
<1>5. ASSUME NEW q \in Procs PROVE Fresh(q)'
  BY <1>1 DEF IInv, Fresh, Creates
<1> QED
  BY <1>2, <1>3, <1>4, <1>5 DEF IInv

-----------------------------------------------------------------------------
(* Transactions.                                                            *)

\* What holds inside one.
LEMMA Inside ==
  ASSUME IInv, NEW p \in Procs, pc[p] = "tx"
  PROVE  /\ req[p] \in Requests /\ tx[p] # Nil /\ step[p] \in 1 .. Len(Joins) + 2
         /\ OwnRow(p) /\ Putting(p) /\ Updating(p) /\ Deleting(p)
         /\ Len(Plan(p)) = Len(Joins) + 1
         /\ \/ req[p].op = "Delete" /\ draft[p] = Nil
            \/ req[p].op \in Writes /\ draft[p] \in Json!Resources
         /\ Target(p) \in Ids /\ Target(p) \in issued
         /\ req[p].op # "Create" => Target(p) = req[p].id
         /\ req[p].op = "Create" => Target(p) = draft[p].id
         /\ req[p].op \in Writes => draft[p].id = Target(p)
<1>1. /\ Locals(p) /\ Progress(p) /\ Fresh(p) /\ Known /\ Types
  BY DEF IInv
<1>2. /\ req[p] \in Requests /\ tx[p] # Nil /\ step[p] \in 1 .. Len(Joins) + 2
      /\ OwnRow(p) /\ Putting(p) /\ Updating(p) /\ Deleting(p)
      /\ \/ req[p].op = "Delete" /\ draft[p] = Nil
         \/ req[p].op \in Writes /\ draft[p] # Nil
  BY <1>1 DEF Locals, Progress
<1>3. draft[p] # Nil => draft[p] \in Json!Resources
  BY <1>1 DEF Types
<1>4. /\ req[p].op # "Create" => Target(p) = req[p].id
      /\ req[p].op = "Create" => Target(p) = draft[p].id
  BY DEF Target
<1>5. CASE req[p].op = "Create"
  <2>1. draft[p] # Nil
    BY <1>2, <1>5
  <2>2. draft[p].id \in issued
    BY <1>1, <1>5, <2>1 DEF Fresh, Creates
  <2> QED
    BY <1>2, <1>3, <1>4, <1>5, <2>1, <2>2, Plans, Kinds
<1>6. CASE req[p].op # "Create"
  <2>1. req[p].op \in {"Replace", "Patch", "Delete"}
    BY <1>2, <1>6 DEF Writes
  <2>2. req[p].id \in Ids /\ req[p] # Nil
    BY <1>2, <2>1, Kinds
  <2>3. req[p].id \in issued
    BY <1>1, <2>2, Kinds DEF Known
  <2>4. req[p].op \in Writes => draft[p].id = req[p].id
    BY <1>1, <1>2, <1>6 DEF Locals, Writes
  <2> QED
    BY <1>2, <1>3, <1>4, <1>6, <2>2, <2>3, <2>4, Plans
<1> QED
  BY <1>5, <1>6

LEMMA BeginStep ==
  ASSUME IInv, NEW p \in Procs, Begin(p)
  PROVE  IInv'
<1> DEFINE empty == [c \in {} |-> Nil]
<1>1. /\ pc[p] = "write" \/ (pc[p] = "called" /\ req[p].op = "Delete")
      /\ tx' = [tx EXCEPT ![p] = empty] /\ step' = [step EXCEPT ![p] = 1]
      /\ pc' = [pc EXCEPT ![p] = "tx"] /\ UNCHANGED <<rows, clock, issued, req, draft, status>>
  BY DEF Begin
<1>2. empty # Nil /\ DOMAIN empty = {}
  <2>1. empty \in [{} -> Cells] /\ {} \in SUBSET (Tables \X Ids)
    OBVIOUS
  <2> QED
    BY <2>1, NilAssumption
<1> HIDE DEF empty
<1>3. /\ DOMAIN pc = Procs /\ DOMAIN tx = Procs /\ DOMAIN step = Procs
      /\ status \in [Procs -> Outcomes] /\ req \in [Procs -> Requests \cup {Nil}]
      /\ draft \in [Procs -> Json!Resources \cup {Nil}]
      /\ issued \subseteq Ids /\ clock \in Json!Times
  BY DEF IInv, TypeOK, Types, Outcomes
<1>4. /\ pc'[p] = "tx" /\ tx'[p] = empty /\ step'[p] = 1 /\ req'[p] = req[p] /\ draft'[p] = draft[p]
  BY <1>1, <1>3
<1>5. \A t, i : ~ Locks(p, t, i)'
  BY <1>2, <1>4 DEF Locks
<1>6. Own(p)
  BY <1>1, <1>2, <1>3, <1>4 DEF Own, Stages
<1>7. Respects(p)
  BY <1>1, RowsKept
<1>8. /\ Locals(p) /\ Fresh(p) /\ req[p] \in Requests /\ req[p] # Nil
      /\ req[p].id \in issued \cup {Nil}
      /\ \A q \in Procs \ {p} : Fresh(q)
  BY <1>1, Kinds DEF IInv, Locals, Known
<1>9. Apart(p)
  <2>1. ASSUME NEW q \in Procs \ {p}, Creates(q), draft'[p] # Nil PROVE draft'[p].id # draft[q].id
    <3>1. CASE Creates(p)
      BY <1>4, <1>8, <2>1, <3>1 DEF Fresh
    <3>2. CASE ~ Creates(p)
      <4>1. draft[p].id = req[p].id
        BY <1>1, <1>4, <1>8, <2>1, <3>2 DEF Locals, Creates
      <4> QED
        BY <1>4, <1>8, <2>1, <4>1 DEF Fresh
    <3> QED
      BY <3>1, <3>2
  <2>2. \A q \in Procs \ {p} : Creates(q) => req'[p].id # draft[q].id
    BY <1>4, <1>8 DEF Fresh
  <2>3. req'[p].id \in issued' \cup {Nil}
    BY <1>1, <1>4, <1>8
  <2> QED
    BY <1>5, <2>1, <2>2, <2>3 DEF Apart
<1>10. Locals(p)'
  BY <1>1, <1>4, <1>8 DEF Locals, Writes
<1>11. Progress(p)'
  <2>1. Past(p)' = {}
    <3>1. 1 .. step'[p] - 1 = {}
      BY <1>4
    <3> QED
      BY <3>1 DEF Past
  <2>2. 1 \in 1 .. Len(Joins) + 2
    BY JoinsAre
  <2>3. OwnRow(p)' /\ Updating(p)'
    BY <1>5 DEF OwnRow, Updating, Locking
  <2>4. Putting(p)'
    BY <2>1 DEF Putting
  <2>5. Deleting(p)'
    BY <1>5, <2>1 DEF Deleting
  <2> QED
    BY <1>2, <1>4, <2>2, <2>3, <2>4, <2>5 DEF Progress
<1>12. Fresh(p)'
  <2>1. \A q \in Procs : Creates(q)' <=> Creates(q)
    BY <1>1 DEF Creates
  <2> QED
    BY <1>1, <1>8, <2>1 DEF Fresh
<1> QED
  BY <1>6, <1>7, <1>9, <1>10, <1>11, <1>12, OwnStep

LEMMA RollbackStep ==
  ASSUME IInv, NEW p \in Procs, pc[p] = "tx", NEW s \in Outcomes, Rollback(p, s)
  PROVE  IInv'
<1>1. /\ UNCHANGED rows /\ tx' = [tx EXCEPT ![p] = Nil] /\ step' = [step EXCEPT ![p] = 1]
      /\ pc' = [pc EXCEPT ![p] = "done"] /\ status' = [status EXCEPT ![p] = s]
      /\ draft' = [draft EXCEPT ![p] = Nil] /\ UNCHANGED <<clock, issued, req>>
  BY DEF Rollback, End, Json!Finish
<1>2. /\ step' = [step EXCEPT ![p] = step'[p]] /\ step'[p] \in Nat \ {0}
      /\ pc[p] # "idle"
  BY <1>1 DEF IInv, TypeOK
<1>3. Respects(p)
  BY <1>1, RowsKept
<1> QED
  BY <1>1, <1>2, <1>3, Finishes

\* The part of a statement's step that is the same whatever it did.
LEMMA Statement ==
  ASSUME IInv, NEW p \in Procs, pc[p] = "tx",
         NEW w, tx' = [tx EXCEPT ![p] = w], w # Nil,
         DOMAIN w \subseteq Tables \X Ids,
         \A c \in DOMAIN w : w[c] \in RowsOf(c[1]) \cup {Nil},
         NEW n \in 1 .. Len(Joins) + 2, step' = [step EXCEPT ![p] = n], UNCHANGED <<rows, callVars>>,
         \A q \in Procs \ {p}, t \in Tables, i \in Ids : Locks(q, t, i) => <<t, i>> \notin DOMAIN w,
         OwnRow(p)', Putting(p)', Updating(p)', Deleting(p)'
  PROVE  IInv'
<1>1. /\ DOMAIN tx = Procs /\ step \in [Procs -> Nat \ {0}] /\ pc \in [Procs -> Stages]
      /\ status \in [Procs -> Outcomes] /\ req \in [Procs -> Requests \cup {Nil}]
      /\ draft \in [Procs -> Json!Resources \cup {Nil}]
      /\ issued \subseteq Ids /\ clock \in Json!Times
      /\ Locals(p) /\ Fresh(p)
  BY DEF IInv, TypeOK, Types, Outcomes, Stages
<1>2. /\ UNCHANGED <<pc, req, draft, status, issued, clock, rows>>
      /\ tx'[p] = w /\ step'[p] = n
  BY <1>1 DEF callVars
<1>3. Own(p)
  <2>1. n \in Nat \ {0}
    BY JoinsAre
  <2> QED
    BY <1>1, <1>2, <2>1 DEF Own
<1>4. Respects(p)
  BY <1>2, RowsKept
<1>5. req[p] \in Requests /\ req[p] # Nil /\ req[p].id \in issued \cup {Nil}
  BY Inside, Kinds DEF IInv, Known
<1>6. Apart(p)
  <2>1. ASSUME NEW q \in Procs \ {p}, Creates(q)
        PROVE  req[p].id # draft[q].id /\ (draft[p] # Nil => draft[p].id # draft[q].id)
    <3>1. Fresh(q) /\ req[p].id # draft[q].id
      BY <1>5, <2>1 DEF IInv, Fresh
    <3>2. CASE Creates(p)
      BY <3>1, <2>1, <3>2 DEF Fresh
    <3>3. CASE ~ Creates(p)
      BY <1>1, <3>1, <3>3 DEF Locals, Creates
    <3> QED
      BY <3>1, <3>2, <3>3
  <2>2. ASSUME NEW q \in Procs \ {p}, NEW t \in Tables, NEW i \in Ids, Locks(q, t, i)
        PROVE  ~ Locks(p, t, i)'
    BY <1>2, <2>2 DEF Locks
  <2> QED
    BY <1>2, <1>5, <2>1, <2>2 DEF Apart
<1>7. Locals(p)' /\ Fresh(p)'
  <2>1. \A q \in Procs : Creates(q)' <=> Creates(q)
    BY <1>2 DEF Creates
  <2> QED
    BY <1>1, <1>2, <2>1 DEF Locals, Fresh
<1>8. Progress(p)'
  BY <1>2 DEF Progress
<1> QED
  BY <1>3, <1>4, <1>6, <1>7, <1>8, OwnStep

\* Where a plan that begins with the primary table has come to it.
LEMMA First ==
  ASSUME IInv, NEW p \in Procs, pc[p] = "tx", step[p] <= Len(Joins) + 1, req[p].op # "Delete"
  PROVE  NextTable(p) = Primary <=> step[p] = 1
<1>1. step[p] \in 1 .. Len(Joins) + 1 /\ 1 \in 1 .. Len(Joins) + 1
  BY Inside, JoinsAre
<1>2. /\ Plan(p)[1] = Primary
      /\ \A m, o \in 1 .. Len(Joins) + 1 : Plan(p)[m] = Plan(p)[o] => m = o
  BY Plans
<1> QED
  BY <1>1, <1>2 DEF NextTable

\* A statement has locked a row, and row is its new version.
LEMMA Marked ==
  ASSUME IInv, NEW p \in Procs, pc[p] = "tx", step[p] <= Len(Joins) + 1,
         NEW T, T = NextTable(p), NEW I, I = Target(p), NEW row \in RowsOf(T) \cup {Nil},
         Marks(p, row), \A q \in Procs \ {p} : ~ Locks(q, T, I)
  PROVE  /\ T \in Tables /\ I \in Ids
         /\ tx' = [tx EXCEPT ![p] = tx'[p]] /\ tx'[p] # Nil
         /\ DOMAIN tx'[p] \subseteq Tables \X Ids
         /\ \A c \in DOMAIN tx'[p] : tx'[p][c] \in RowsOf(c[1]) \cup {Nil}
         /\ \A q \in Procs \ {p}, t \in Tables, i \in Ids : Locks(q, t, i) => <<t, i>> \notin DOMAIN tx'[p]
         /\ \A t, i : Locks(p, t, i)' <=> Locks(p, t, i) \/ (t = T /\ i = I)
         /\ tx'[p][<<T, I>>] = row
         /\ \A t \in Tables \ {T} : Locks(p, t, I) => tx'[p][<<t, I>>] = tx[p][<<t, I>>]
<1> DEFINE cell == <<T, I>>
           w == [c \in DOMAIN tx[p] \cup {cell} |-> IF c = cell THEN row ELSE tx[p][c]]
<1>1. tx' = [tx EXCEPT ![p] = w]
  BY DEF Marks, IInv, Types
<1>2. tx[p] # Nil /\ I \in Ids /\ step[p] \in 1 .. Len(Joins) + 1 /\ step[p] \in 1 .. Len(Joins) + 2
  BY Inside, JoinsAre
<1>3. T \in Tables
  BY <1>2, Passed
<1>4. /\ DOMAIN w = DOMAIN tx[p] \cup {cell} /\ w[cell] = row
      /\ \A c \in DOMAIN tx[p] \ {cell} : w[c] = tx[p][c]
  OBVIOUS
<1>5. DOMAIN w \subseteq Tables \X Ids /\ \A c \in DOMAIN w : w[c] \in RowsOf(c[1]) \cup {Nil}
  BY <1>2, <1>3, <1>4 DEF IInv, TypeOK
<1>6. w # Nil
  <2>1. \A c \in DOMAIN w : c[1] \in Tables
    BY <1>5
  <2>2. \A c \in DOMAIN w : w[c] \in Cells
    <3>1. ASSUME NEW t \in Tables PROVE RowsOf(t) \cup {Nil} \subseteq Cells
      BY DEF Cells
    <3> QED
      BY <1>5, <2>1, <3>1
  <2>3. w \in [DOMAIN w -> Cells]
    BY <2>2
  <2> QED
    BY <1>5, <2>3, NilAssumption
<1> HIDE DEF w
<1>7. tx'[p] = w
  BY <1>1 DEF IInv, Types
<1>8. \A t, i : Locks(p, t, i)' <=> Locks(p, t, i) \/ (t = T /\ i = I)
  BY <1>2, <1>4, <1>6, <1>7 DEF Locks
<1>9. \A t \in Tables \ {T} : Locks(p, t, I) => w[<<t, I>>] = tx[p][<<t, I>>]
  BY <1>4 DEF Locks
<1>10. \A q \in Procs \ {p}, t \in Tables, i \in Ids : Locks(q, t, i) => <<t, i>> \notin DOMAIN w
  <2> SUFFICES ASSUME NEW q \in Procs \ {p}, NEW t \in Tables, NEW i \in Ids, Locks(q, t, i),
                      <<t, i>> \in DOMAIN w
               PROVE  FALSE
    OBVIOUS
  <2>1. CASE <<t, i>> = cell
    <3>1. t = T /\ i = I
      BY <2>1
    <3> QED
      BY <3>1
  <2>2. CASE <<t, i>> # cell
    <3>1. Locks(p, t, i)
      BY <1>2, <1>4, <2>2 DEF Locks
    <3> QED
      BY <3>1 DEF IInv, Exclusive
  <2> QED
    BY <2>1, <2>2
<1> QED
  BY <1>1, <1>2, <1>3, <1>4, <1>5, <1>6, <1>7, <1>8, <1>9, <1>10

\* A statement has written a row.
LEMMA WritesRow ==
  ASSUME IInv, NEW p \in Procs, pc[p] = "tx", step[p] <= Len(Joins) + 1,
         NEW T, T = NextTable(p), NEW I, I = Target(p), NEW row \in RowsOf(T) \cup {Nil},
         Wrote(p, TRUE, row),
         \A q \in Procs \ {p} : ~ Locks(q, T, I),
         req[p].op \in Writes => row = Part(draft[p], T),
         req[p].op \in {"Replace", "Patch"} /\ T = Primary => rows[Primary][I] # Nil,
         req[p].op = "Delete" =>
           row = Nil /\ T \in DeleteJoin \cup {Primary} /\ rows[T][I] # Nil
  PROVE  IInv'
<1>1. /\ Marks(p, row) /\ step' = [step EXCEPT ![p] = step[p] + 1]
      /\ UNCHANGED <<rows, callVars>>
  BY DEF Wrote
<1>2. /\ OwnRow(p) /\ Putting(p) /\ Updating(p) /\ Deleting(p) /\ tx[p] # Nil
      /\ step[p] \in 1 .. Len(Joins) + 1 /\ step[p] \in 1 .. Len(Joins) + 2
      /\ step[p] + 1 \in 1 .. Len(Joins) + 2 /\ I \in Ids /\ I = Target(p)
  BY Inside, JoinsAre
<1>3. T \in Tables \ Past(p) /\ Past(p) \subseteq Tables
  BY <1>2, Passed
<1>4. /\ tx' = [tx EXCEPT ![p] = tx'[p]] /\ tx'[p] # Nil
      /\ DOMAIN tx'[p] \subseteq Tables \X Ids
      /\ \A c \in DOMAIN tx'[p] : tx'[p][c] \in RowsOf(c[1]) \cup {Nil}
      /\ \A q \in Procs \ {p}, t \in Tables, i \in Ids : Locks(q, t, i) => <<t, i>> \notin DOMAIN tx'[p]
  BY <1>1, Marked
<1>5. UNCHANGED <<req, draft, rows>> /\ step'[p] = step[p] + 1
  BY <1>1 DEF callVars, IInv, TypeOK, Types
<1>6. /\ Plan(p)' = Plan(p) /\ Target(p)' = I
      /\ Past(p)' = Past(p) \cup {T}
  <2>1. Plan(p)' = Plan(p) /\ Target(p)' = Target(p)
    BY <1>5 DEF Plan, Target
  <2> QED
    BY <1>2, <1>5, <2>1, Passes
<1>7. /\ \A t, i : Locks(p, t, i)' <=> Locks(p, t, i) \/ (t = T /\ i = I)
      /\ tx'[p][<<T, I>>] = row
      /\ \A t \in Tables \ {T} : Locks(p, t, I) => tx'[p][<<t, I>>] = tx[p][<<t, I>>]
  BY <1>1, Marked
<1>8. ~ Locking(p)' /\ (Locking(p) => T = Primary)
  <2>1. ~ Locking(p)'
    BY <1>2, <1>5 DEF Locking
  <2> QED
    BY <2>1, First DEF Locking
<1>9. OwnRow(p)'
  BY <1>2, <1>6, <1>7, <1>8 DEF OwnRow
<1>10. Putting(p)'
  <2> SUFFICES ASSUME req[p].op \in Writes, NEW t \in Past(p) \cup {T},
                      ~ (t = Primary /\ ~ PrimaryWritten /\ req[p].op # "Create")
               PROVE  Put(p, t)'
    BY <1>5, <1>6 DEF Putting
  <2>1. CASE t = T
    <3>1. Locks(p, t, I)' /\ tx'[p][<<t, I>>] = Part(draft'[p], t)
      BY <1>5, <1>7, <2>1
    <3> QED
      BY <1>6, <3>1 DEF Put
  <2>2. CASE t # T
    <3>1. t \in Past(p) /\ t \in Tables \ {T}
      BY <1>3, <2>2
    <3>2. Locks(p, t, I) /\ tx[p][<<t, I>>] = Part(draft[p], t)
      BY <1>2, <3>1 DEF Putting, Put
    <3>3. Locks(p, t, I)' /\ tx'[p][<<t, I>>] = Part(draft'[p], t)
      BY <1>5, <1>7, <3>1, <3>2
    <3> QED
      BY <1>6, <3>3 DEF Put
  <2> QED
    BY <2>1, <2>2
<1>11. Updating(p)'
  BY <1>2, <1>5, <1>6, <1>7, <1>8 DEF Updating, Stored
<1>12. Deleting(p)'
  <2> SUFFICES ASSUME req[p].op = "Delete" PROVE Deleting(p)'
    BY <1>5 DEF Deleting
  <2>1. ASSUME NEW t \in Tables, Locks(p, t, I)'
        PROVE  tx'[p][<<t, I>>] = Nil /\ t \in DeleteJoin \cup {Primary}
    <3>1. CASE t = T
      BY <1>7, <3>1
    <3>2. CASE t # T
      BY <1>2, <1>7, <2>1, <3>2 DEF Deleting
    <3> QED
      BY <3>1, <3>2
  <2>2. \A t \in (Past(p) \cup {T}) \cap DeleteJoin : Locks(p, t, I)' \/ rows'[Primary][I] = Nil
    BY <1>2, <1>5, <1>7 DEF Deleting, Stored
  <2>3. Primary \in Past(p) \cup {T} => Locks(p, Primary, I)' /\ rows'[Primary][I] # Nil
    BY <1>2, <1>5, <1>7 DEF Deleting, Stored
  <2> QED
    BY <1>6, <2>1, <2>2, <2>3 DEF Deleting, Stored
<1> QED
  BY <1>1, <1>2, <1>4, <1>9, <1>10, <1>11, <1>12, Statement

\* A statement has found nothing to write, or there was none.
LEMMA PassesBy ==
  ASSUME IInv, NEW p \in Procs, pc[p] = "tx", step[p] <= Len(Joins) + 1,
         NEW T, T = NextTable(p), NEW I, I = Target(p),
         tx' = tx, step' = [step EXCEPT ![p] = step[p] + 1], UNCHANGED <<rows, callVars>>,
         req[p].op \in Writes => T = Primary /\ ~ PrimaryWritten /\ req[p].op # "Create",
         req[p].op = "Delete" => T # Primary /\ (T \in DeleteJoin => rows[T][I] = Nil)
  PROVE  IInv'
<1>1. /\ OwnRow(p) /\ Putting(p) /\ Updating(p) /\ Deleting(p) /\ tx[p] # Nil
      /\ step[p] \in 1 .. Len(Joins) + 1 /\ step[p] \in 1 .. Len(Joins) + 2
      /\ I \in Ids /\ step[p] + 1 \in 1 .. Len(Joins) + 2
  BY Inside, JoinsAre
<1>2. /\ UNCHANGED <<req, draft, rows>> /\ tx'[p] = tx[p] /\ step'[p] = step[p] + 1
  BY DEF callVars, IInv, TypeOK
<1>3. /\ Plan(p)' = Plan(p) /\ Target(p)' = I /\ Past(p)' = Past(p) \cup {T}
      /\ \A t, i : Locks(p, t, i)' <=> Locks(p, t, i)
  <2>1. Plan(p)' = Plan(p) /\ Target(p)' = Target(p) /\ \A t, i : Locks(p, t, i)' <=> Locks(p, t, i)
    BY <1>2 DEF Plan, Target, Locks
  <2> QED
    BY <1>1, <1>2, <2>1, Passes
<1>4. OwnRow(p)' /\ ~ Locking(p)'
  <2>1. ~ Locking(p)'
    BY <1>1, <1>2 DEF Locking
  <2>2. Locking(p) => T = Primary
    BY DEF Locking, Writes
  <2> QED
    BY <1>1, <1>3, <2>1, <2>2 DEF OwnRow
<1>5. Putting(p)'
  <2> SUFFICES ASSUME req[p].op \in Writes, NEW t \in Past(p),
                      ~ (t = Primary /\ ~ PrimaryWritten /\ req[p].op # "Create")
               PROVE  Put(p, t)'
    BY <1>2, <1>3 DEF Putting
  <2>1. Locks(p, t, I) /\ tx[p][<<t, I>>] = Part(draft[p], t)
    BY <1>1 DEF Putting, Put
  <2> QED
    BY <1>2, <1>3, <2>1 DEF Put
<1>6. Updating(p)'
  BY <1>1, <1>2, <1>3, <1>4 DEF Updating, Stored
<1>7. Deleting(p)'
  <2>1. req[p].op = "Delete" /\ T \in DeleteJoin => rows[Primary][I] = Nil
    BY <1>1, HomeAssumption DEF IInv, Whole
  <2> QED
    BY <1>1, <1>2, <1>3, <2>1 DEF Deleting, Stored
<1>8. /\ tx' = [tx EXCEPT ![p] = tx[p]] /\ DOMAIN tx[p] \subseteq Tables \X Ids
      /\ \A c \in DOMAIN tx[p] : tx[p][c] \in RowsOf(c[1]) \cup {Nil}
  BY <1>1 DEF IInv, TypeOK, Types
<1>9. \A q \in Procs \ {p}, t \in Tables, i \in Ids : Locks(q, t, i) => <<t, i>> \notin DOMAIN tx[p]
  BY <1>1 DEF IInv, Exclusive, Locks
<1> QED
  BY <1>1, <1>4, <1>5, <1>6, <1>7, <1>8, <1>9, Statement

\* A statement that runs waits for nobody.
LEMMA Unlocked ==
  ASSUME IInv, NEW p \in Procs, NEW ops, NEW t, Runs(p, ops, t)
  PROVE  /\ pc[p] = "tx" /\ step[p] <= Len(Joins) + 1 /\ NextTable(p) = t /\ req[p].op \in ops
         /\ ~ NoStatement(p) => \A q \in Procs \ {p} :
              /\ ~ Locks(q, t, Target(p))
              /\ Checks(p) => ~ HoldsName(q, p)
<1>1. pc[p] = "tx" /\ NextTable(p) = t /\ req[p].op \in ops /\ More(p) /\ Blockers(p) = {}
  BY DEF Runs, More, InTx
<1>2. step[p] <= Len(Joins) + 1
  BY <1>1, Inside DEF More
<1>3. ~ NoStatement(p) => \A q \in Procs \ {p} : ~ (\/ Locks(q, NextTable(p), Target(p))
                                                    \/ Checks(p) /\ HoldsName(q, p))
  BY <1>1 DEF Blockers
<1> QED
  BY <1>1, <1>2, <1>3

LEMMA InsertPrimaryStep ==
  ASSUME IInv, NEW p \in Procs, InsertPrimary(p)
  PROVE  IInv'
<1>1. Runs(p, {"Create"}, Primary)
  BY DEF InsertPrimary
<1>2. /\ pc[p] = "tx" /\ step[p] <= Len(Joins) + 1 /\ NextTable(p) = Primary /\ req[p].op = "Create"
      /\ \A q \in Procs \ {p} : ~ Locks(q, Primary, Target(p))
  <2>1. req[p].op = "Create" => ~ NoStatement(p)
    BY DEF NoStatement, Skips
  <2> QED
    BY <1>1, <2>1, Unlocked
<1>3. CASE Json!NameTaken(draft[p])
  <2>1. Rollback(p, "conflict") /\ "conflict" \in Outcomes
    BY <1>3 DEF InsertPrimary, Outcomes
  <2> QED
    BY <1>2, <2>1, RollbackStep
<1>4. CASE ~ Json!NameTaken(draft[p])
  <2>1. PICK row : row = Part(draft[p], Primary)
    OBVIOUS
  <2>2. Wrote(p, TRUE, row)
    BY <1>4, <2>1 DEF InsertPrimary
  <2>3. draft[p] \in Json!Resources
    BY <1>2, Inside DEF Writes
  <2>4. row \in RowsOf(Primary) \cup {Nil}
    BY <2>1, <2>3, Parts, JoinsAre
  <2> QED
    BY <1>2, <2>1, <2>2, <2>4, WritesRow DEF Writes
<1> QED
  BY <1>3, <1>4

\* The UPDATE finds its row and locks it.
LEMMA LockRowStep ==
  ASSUME IInv, NEW p \in Procs, LockRow(p)
  PROVE  IInv'
<1>1. Runs(p, {"Replace", "Patch"}, Primary) /\ PrimaryWritten /\ ~ Locks(p, Primary, Target(p))
  BY DEF LockRow
<1>2. /\ pc[p] = "tx" /\ step[p] <= Len(Joins) + 1 /\ NextTable(p) = Primary
      /\ req[p].op \in {"Replace", "Patch"}
      /\ \A q \in Procs \ {p} : ~ Locks(q, Primary, Target(p))
  <2>1. req[p].op \in {"Replace", "Patch"} => ~ NoStatement(p)
    BY <1>1 DEF NoStatement, Skips
  <2> QED
    BY <1>1, <2>1, Unlocked
<1>3. CASE NoneAffected(p)
  <2>1. Rollback(p, "notFound") /\ "notFound" \in Outcomes
    BY <1>3 DEF LockRow, Outcomes
  <2> QED
    BY <1>2, <2>1, RollbackStep
<1>4. CASE ~ NoneAffected(p)
  <2>1. Marks(p, Nil) /\ UNCHANGED <<rows, step, callVars>>
    BY <1>4 DEF LockRow
  <2>2. Stored(p, Primary) # Nil
    BY <1>1, <1>4 DEF NoneAffected
  <2>3. PICK I : I = Target(p)
    OBVIOUS
  <2>4. /\ OwnRow(p) /\ Deleting(p) /\ tx[p] # Nil /\ step[p] \in 1 .. Len(Joins) + 2
        /\ step[p] = 1 /\ Past(p) = {} /\ req[p].op # "Delete"
    BY <1>2, First, Inside, Passed
  <2>5. Nil \in RowsOf(Primary) \cup {Nil}
    OBVIOUS
  <2>6. /\ I \in Ids
        /\ tx' = [tx EXCEPT ![p] = tx'[p]] /\ tx'[p] # Nil
        /\ DOMAIN tx'[p] \subseteq Tables \X Ids
        /\ \A c \in DOMAIN tx'[p] : tx'[p][c] \in RowsOf(c[1]) \cup {Nil}
        /\ \A q \in Procs \ {p}, t \in Tables, i \in Ids : Locks(q, t, i) => <<t, i>> \notin DOMAIN tx'[p]
    BY <1>2, <2>1, <2>3, <2>5, Marked
  <2>7. /\ \A t, i : Locks(p, t, i)' <=> Locks(p, t, i) \/ (t = Primary /\ i = I)
        /\ tx'[p][<<Primary, I>>] = Nil
    BY <1>2, <2>1, <2>3, <2>5, Marked
  <2>8. UNCHANGED <<req, draft, rows, step>> /\ step' = [step EXCEPT ![p] = step[p]]
    BY <2>1 DEF callVars, IInv, TypeOK
  <2>9. Plan(p)' = Plan(p) /\ Target(p)' = I /\ Past(p)' = {} /\ Locking(p)'
    <3>1. Plan(p)' = Plan(p) /\ Target(p)' = I
      BY <2>3, <2>8 DEF Plan, Target
    <3>2. Past(p)' = Past(p)
      BY <2>8, <3>1 DEF Past
    <3> QED
      BY <1>2, <2>4, <2>7, <2>8, <3>1, <3>2 DEF Locking
  <2>10. OwnRow(p)'
    BY <2>3, <2>4, <2>7, <2>9 DEF OwnRow
  <2>11. Putting(p)' /\ Deleting(p)'
    BY <1>2, <2>8, <2>9 DEF Putting, Deleting
  <2>12. Updating(p)'
    BY <2>2, <2>3, <2>7, <2>8, <2>9 DEF Updating, Stored
  <2> QED
    BY <1>2, <2>1, <2>4, <2>6, <2>8, <2>10, <2>11, <2>12, Statement
<1> QED
  BY <1>3, <1>4

LEMMA UpdatePrimaryStep ==
  ASSUME IInv, NEW p \in Procs, UpdatePrimary(p)
  PROVE  IInv'
<1>1. Runs(p, {"Replace", "Patch"}, Primary) /\ (PrimaryWritten => Locks(p, Primary, Target(p)))
  BY DEF UpdatePrimary
<1>2. /\ pc[p] = "tx" /\ step[p] <= Len(Joins) + 1 /\ NextTable(p) = Primary
      /\ req[p].op \in {"Replace", "Patch"}
      /\ PrimaryWritten => \A q \in Procs \ {p} : ~ Locks(q, Primary, Target(p))
  <2>1. req[p].op \in {"Replace", "Patch"} /\ PrimaryWritten => ~ NoStatement(p)
    BY DEF NoStatement, Skips
  <2> QED
    BY <1>1, <2>1, Unlocked
<1>3. CASE Json!NameTaken(draft[p])
  <2>1. Rollback(p, "conflict") /\ "conflict" \in Outcomes
    BY <1>3 DEF UpdatePrimary, Outcomes
  <2> QED
    BY <1>2, <2>1, RollbackStep
<1>4. CASE ~ Json!NameTaken(draft[p])
  <2>1. PICK row : row = Part(draft[p], Primary)
    OBVIOUS
  <2>2. Wrote(p, PrimaryWritten /\ Stored(p, Primary) # Nil, row)
    BY <1>4, <2>1 DEF UpdatePrimary
  <2>3. CASE PrimaryWritten
    <3>1. Stored(p, Primary) # Nil
      <4>1. Updating(p)
        BY <1>2, Inside
      <4> QED
        BY <1>1, <1>2, <2>3, <4>1 DEF Updating
    <3>2. Wrote(p, TRUE, row)
      BY <2>2, <2>3, <3>1 DEF Wrote
    <3>3. draft[p] \in Json!Resources
      BY <1>2, Inside DEF Writes
    <3>4. row \in RowsOf(Primary) \cup {Nil}
      BY <2>1, <3>3, Parts, JoinsAre
    <3> QED
      BY <1>2, <2>1, <2>3, <3>1, <3>2, <3>4, WritesRow DEF Stored, Writes
  <2>4. CASE ~ PrimaryWritten
    <3>1. tx' = tx /\ step' = [step EXCEPT ![p] = step[p] + 1] /\ UNCHANGED <<rows, callVars>>
      BY <2>2, <2>4 DEF Wrote
    <3> QED
      BY <1>2, <2>4, <3>1, PassesBy
  <2> QED
    BY <2>3, <2>4
<1> QED
  BY <1>3, <1>4

LEMMA WriteJoinStep ==
  ASSUME IInv, NEW p \in Procs, WriteJoin(p)
  PROVE  IInv'
<1>1. PICK t \in JoinTables :
        Runs(p, {"Create", "Replace", "Patch"}, t) /\ Wrote(p, TRUE, Part(draft[p], t))
  BY DEF WriteJoin
<1>2. t \in Tables /\ t # Primary
  BY JoinsAre
<1>3. /\ pc[p] = "tx" /\ step[p] <= Len(Joins) + 1 /\ NextTable(p) = t
      /\ req[p].op \in {"Create", "Replace", "Patch"}
      /\ \A q \in Procs \ {p} : ~ Locks(q, t, Target(p))
  <2>1. req[p].op \in {"Create", "Replace", "Patch"} /\ NextTable(p) = t => ~ NoStatement(p)
    BY <1>2 DEF NoStatement, Skips
  <2> QED
    BY <1>1, <2>1, Unlocked
<1>4. PICK row : row = Part(draft[p], t)
  OBVIOUS
<1>5. Wrote(p, TRUE, row)
  BY <1>1, <1>4
<1>6. row \in RowsOf(t) \cup {Nil}
  <2>1. draft[p] \in Json!Resources
    BY <1>3, Inside
  <2> QED
    BY <1>2, <1>4, <2>1, Parts
<1> QED
  BY <1>2, <1>3, <1>4, <1>5, <1>6, WritesRow DEF Writes

LEMMA DeleteRowStep ==
  ASSUME IInv, NEW p \in Procs, DeleteRow(p)
  PROVE  IInv'
<1>1. PICK t \in Tables :
        /\ Runs(p, {"Delete"}, t)
        /\ IF t = Primary /\ Stored(p, t) = Nil THEN Rollback(p, "notFound")
           ELSE Wrote(p, Stored(p, t) # Nil /\ ~ Skips(p), Nil)
  BY DEF DeleteRow
<1>2. /\ pc[p] = "tx" /\ step[p] <= Len(Joins) + 1 /\ NextTable(p) = t /\ req[p].op = "Delete"
      /\ ~ Skips(p) => \A q \in Procs \ {p} : ~ Locks(q, t, Target(p))
  <2>1. req[p].op = "Delete" /\ ~ Skips(p) => ~ NoStatement(p)
    BY DEF NoStatement
  <2> QED
    BY <1>1, <2>1, Unlocked
<1>3. Skips(p) <=> t \notin DeleteJoin \cup {Primary}
  BY <1>2 DEF Skips
<1>4. CASE t = Primary /\ Stored(p, t) = Nil
  <2>1. Rollback(p, "notFound") /\ "notFound" \in Outcomes
    BY <1>1, <1>4 DEF Outcomes
  <2> QED
    BY <1>2, <2>1, RollbackStep
<1>5. CASE ~ (t = Primary /\ Stored(p, t) = Nil) /\ Stored(p, t) # Nil /\ ~ Skips(p)
  <2>1. Wrote(p, TRUE, Nil)
    BY <1>1, <1>5 DEF Wrote
  <2>2. Nil \in RowsOf(t) \cup {Nil}
    OBVIOUS
  <2> QED
    BY <1>2, <1>3, <1>5, <2>1, <2>2, WritesRow DEF Stored, Writes
<1>6. CASE ~ (t = Primary /\ Stored(p, t) = Nil) /\ ~ (Stored(p, t) # Nil /\ ~ Skips(p))
  <2>1. tx' = tx /\ step' = [step EXCEPT ![p] = step[p] + 1] /\ UNCHANGED <<rows, callVars>>
    BY <1>1, <1>6 DEF Wrote
  <2>2. t # Primary /\ (t \in DeleteJoin => Stored(p, t) = Nil)
    BY <1>3, <1>6
  <2> QED
    BY <1>2, <2>1, <2>2, PassesBy DEF Stored, Writes
<1> QED
  BY <1>4, <1>5, <1>6

\* What a COMMIT makes of the tables: rows of one resource.
LEMMA Committed ==
  ASSUME IInv, NEW p \in Procs, Commit(p)
  PROVE  /\ pc[p] = "tx" /\ Past(p) = Tables
         /\ \A t \in Tables : rows'[t] \in [Ids -> RowsOf(t) \cup {Nil}]
         /\ \A t \in Tables, i \in Ids :
              rows'[t][i] = IF Locks(p, t, i) THEN tx[p][<<t, i>>] ELSE rows[t][i]
         /\ \A t \in Tables, i \in Ids \ {Target(p)} : ~ Locks(p, t, i) /\ rows'[t][i] = rows[t][i]
         /\ req[p].op \in Writes =>
              \A t \in Tables : \/ rows'[t][Target(p)] = Part(draft[p], t) /\ Locks(p, t, Target(p))
                                \/ t = Primary /\ ~ PrimaryWritten /\ req[p].op # "Create"
         /\ req[p].op = "Delete" =>
              /\ rows[Primary][Target(p)] # Nil /\ rows'[Primary][Target(p)] = Nil
              /\ \A t \in DeleteJoin : rows'[t][Target(p)] = Nil
         /\ \E s \in Outcomes : \E S : Json!Finish(p, s, S, 0)
         /\ tx' = [tx EXCEPT ![p] = Nil] /\ step' = [step EXCEPT ![p] = 1]
<1>1. /\ pc[p] = "tx" /\ step[p] > Len(Plan(p))
      /\ rows' = [t \in Tables |->
                    [i \in Ids |-> IF Locks(p, t, i) THEN tx[p][<<t, i>>] ELSE rows[t][i]]]
  BY DEF Commit, InTx
<1>2. /\ OwnRow(p) /\ Putting(p) /\ Deleting(p) /\ Target(p) \in Ids
      /\ step[p] = Len(Joins) + 2 /\ tx[p] # Nil /\ step[p] \in 1 .. Len(Joins) + 2
  BY <1>1, Inside, JoinsAre
<1>3. Past(p) = Tables
  BY <1>2, Passed
<1>4. \A t \in Tables, i \in Ids :
        rows'[t][i] = IF Locks(p, t, i) THEN tx[p][<<t, i>>] ELSE rows[t][i]
  BY <1>1
<1>5. \A t \in Tables : rows'[t] \in [Ids -> RowsOf(t) \cup {Nil}]
  <2>1. ASSUME NEW t \in Tables, NEW i \in Ids
        PROVE  (IF Locks(p, t, i) THEN tx[p][<<t, i>>] ELSE rows[t][i]) \in RowsOf(t) \cup {Nil}
    <3>1. CASE Locks(p, t, i)
      <4>1. <<t, i>> \in DOMAIN tx[p] /\ <<t, i>>[1] = t
        BY <3>1 DEF Locks
      <4>2. tx[p][<<t, i>>] \in RowsOf(<<t, i>>[1]) \cup {Nil}
        BY <1>2, <4>1 DEF IInv, TypeOK
      <4> QED
        BY <3>1, <4>1, <4>2
    <3>2. CASE ~ Locks(p, t, i)
      BY <3>2 DEF IInv, TypeOK
    <3> QED
      BY <3>1, <3>2
  <2> QED
    BY <1>1, <2>1
<1>6. \A t \in Tables, i \in Ids \ {Target(p)} : ~ Locks(p, t, i) /\ rows'[t][i] = rows[t][i]
  BY <1>2, <1>4 DEF OwnRow
<1>7. ASSUME req[p].op \in Writes, NEW t \in Tables, ~ (t = Primary /\ ~ PrimaryWritten /\ req[p].op # "Create")
      PROVE  rows'[t][Target(p)] = Part(draft[p], t) /\ Locks(p, t, Target(p))
  BY <1>2, <1>3, <1>4, <1>7 DEF Putting, Put
<1>8. ASSUME req[p].op = "Delete"
      PROVE  /\ rows[Primary][Target(p)] # Nil /\ rows'[Primary][Target(p)] = Nil
             /\ \A t \in DeleteJoin : rows'[t][Target(p)] = Nil
  <2>1. Primary \in Tables /\ DeleteJoin \subseteq Tables
    BY JoinsAre, HomeAssumption
  <2>2. /\ Locks(p, Primary, Target(p)) /\ rows[Primary][Target(p)] # Nil
        /\ \A t \in DeleteJoin : Locks(p, t, Target(p))
        /\ \A t \in Tables : Locks(p, t, Target(p)) => tx[p][<<t, Target(p)>>] = Nil
    BY <1>2, <1>3, <1>8, <2>1 DEF Deleting, Stored
  <2> QED
    BY <1>2, <1>4, <2>1, <2>2
<1>9. /\ \E s \in Outcomes : \E S : Json!Finish(p, s, S, 0)
      /\ tx' = [tx EXCEPT ![p] = Nil] /\ step' = [step EXCEPT ![p] = 1]
  BY DEF Commit, End, Outcomes
<1> QED
  BY <1>1, <1>3, <1>4, <1>5, <1>6, <1>7, <1>8, <1>9

LEMMA CommitRespects ==
  ASSUME IInv, NEW p \in Procs, Commit(p)
  PROVE  Respects(p)
<1> DEFINE i0 == Target(p)
<1>1. /\ pc[p] = "tx" /\ Past(p) = Tables
      /\ \A t \in Tables : rows'[t] \in [Ids -> RowsOf(t) \cup {Nil}]
      /\ \A t \in Tables, i \in Ids :
           rows'[t][i] = IF Locks(p, t, i) THEN tx[p][<<t, i>>] ELSE rows[t][i]
      /\ \A t \in Tables, i \in Ids \ {i0} : ~ Locks(p, t, i) /\ rows'[t][i] = rows[t][i]
  BY Committed
<1>2. req[p].op \in Writes =>
        \A t \in Tables : \/ rows'[t][i0] = Part(draft[p], t) /\ Locks(p, t, i0)
                          \/ t = Primary /\ ~ PrimaryWritten /\ req[p].op # "Create"
  BY Committed
<1>3. req[p].op = "Delete" => rows[Primary][i0] # Nil /\ rows'[Primary][i0] = Nil
  BY Committed
<1>4. issued' = issued
  BY Committed DEF Json!Finish
<1>5. /\ \/ req[p].op = "Delete"
         \/ req[p].op \in Writes /\ draft[p] \in Json!Resources
      /\ i0 \in Ids /\ i0 \in issued /\ Updating(p) /\ req[p] \in Requests
      /\ req[p].op # "Create" => i0 = req[p].id
      /\ req[p].op = "Create" => i0 = draft[p].id
  BY <1>1, Inside
<1>6. Primary \in Tables /\ Primary \notin JoinTables /\ JoinTables \subseteq Tables
  BY JoinsAre
<1>7. \A o \in Json!Resources, t \in Tables : Part(o, t) # Nil
  BY Parts
<1> HIDE DEF i0
<1>8. Whole'
  <2> SUFFICES ASSUME NEW t \in JoinTables, NEW i \in Ids, rows'[Primary][i] # Nil
               PROVE  rows'[t][i] # Nil
    BY DEF Whole
  <2>1. CASE i # i0
    BY <1>1, <1>6, <2>1 DEF IInv, Whole
  <2>2. CASE i = i0
    BY <1>2, <1>3, <1>5, <1>6, <1>7, <2>2
  <2> QED
    BY <2>1, <2>2
<1>9. ASSUME NEW t \in Tables, NEW i \in Ids, rows'[t][i] # Nil PROVE i \in issued'
  <2>1. CASE i = i0
    BY <1>4, <1>5, <2>1
  <2>2. CASE i # i0
    BY <1>1, <1>4, <1>9, <2>2 DEF IInv, Known
  <2> QED
    BY <2>1, <2>2
<1>10. ASSUME NEW q \in Procs \ {p}, NEW i, i = Target(q), Locks(q, Primary, i), rows[Primary][i] # Nil
       PROVE  rows'[Primary][i] # Nil
  <2>1. i \in Ids
    <3>1. tx[q] # Nil
      BY <1>10 DEF Locks
    <3>2. pc[q] = "tx"
      BY <3>1 DEF IInv, Progress
    <3> QED
      BY <1>10, <3>2, Inside
  <2>2. ~ Locks(p, Primary, i)
    BY <1>6, <1>10, <2>1 DEF IInv, Exclusive
  <2> QED
    BY <1>1, <1>6, <1>10, <2>1, <2>2
<1>11. ASSUME NEW q \in Procs \ {p}, req[q].op = "Delete", NEW i, i = Target(q), rows[Primary][i] = Nil,
              pc[q] = "tx"
       PROVE  rows'[Primary][i] = Nil
  <2>1. i = req[q].id
    BY <1>11 DEF Target
  <2>2. i \in Ids /\ req[q] # Nil
    BY <1>11, Inside, Kinds
  <2>3. CASE i # i0
    BY <1>1, <1>6, <1>11, <2>2, <2>3
  <2>4. CASE i = i0
    <3>1. req[p].op # "Create"
      <4>1. SUFFICES ASSUME req[p].op = "Create" PROVE FALSE
        OBVIOUS
      <4>2. Creates(p)
        BY <1>5, <4>1, Kinds DEF Creates, Writes
      <4> QED
        <5>1. Fresh(p)
          BY DEF IInv
        <5> QED
          BY <1>5, <2>1, <2>2, <2>4, <4>1, <4>2, <5>1 DEF Fresh
    <3>2. ~ Locks(p, Primary, i)
      BY <1>3, <1>5, <1>11, <2>4, <3>1 DEF Updating, Stored, Writes, i0
    <3> QED
      BY <1>1, <1>6, <1>11, <2>2, <3>2
  <2> QED
    BY <2>3, <2>4
<1>12. ASSUME NEW q \in Procs \ {p}, Creates(q), NEW t \in Tables
       PROVE  rows'[t][draft[q].id] = Nil
  <2>1. Fresh(q) /\ draft[q].id \in Ids
    BY <1>12 DEF IInv, Fresh, Types
  <2>2. draft[q].id # i0
    <3>1. CASE req[p].op = "Create"
      <4>1. Creates(p)
        BY <1>5, <3>1, Kinds DEF Creates, Writes
      <4> QED
        BY <1>5, <1>12, <2>1, <3>1, <4>1 DEF Fresh
    <3>2. CASE req[p].op # "Create"
      BY <1>5, <1>12, <2>1, <3>2, Kinds DEF Fresh
    <3> QED
      BY <3>1, <3>2
  <2> QED
    BY <1>1, <1>12, <2>1, <2>2 DEF Fresh
<1> QED
  BY <1>1, <1>8, <1>9, <1>10, <1>11, <1>12 DEF Respects

LEMMA CommitStep ==
  ASSUME IInv, NEW p \in Procs, Commit(p)
  PROVE  IInv'
<1>1. pc[p] = "tx" /\ tx' = [tx EXCEPT ![p] = Nil] /\ step' = [step EXCEPT ![p] = 1]
  BY Committed
<1>2. PICK s \in Outcomes : \E S : Json!Finish(p, s, S, 0)
  BY Committed
<1>3. /\ pc' = [pc EXCEPT ![p] = "done"] /\ status' = [status EXCEPT ![p] = s]
      /\ draft' = [draft EXCEPT ![p] = Nil] /\ UNCHANGED <<clock, issued, req>>
  BY <1>2 DEF Json!Finish
<1>4. pc[p] # "idle" /\ step' = [step EXCEPT ![p] = step'[p]] /\ step'[p] \in Nat \ {0}
  BY <1>1 DEF IInv, TypeOK
<1>5. Respects(p)
  BY CommitRespects
<1> QED
  BY <1>1, <1>3, <1>4, <1>5, Finishes

\* A transaction the database or the caller ends.
LEMMA AbortStep ==
  ASSUME IInv, NEW p \in Procs, Abort(p) \/ DeadlockVictim(p)
  PROVE  IInv'
<1>1. Rollback(p, "internal") /\ "internal" \in Outcomes
  BY DEF Abort, DeadlockVictim, Outcomes
<1>2. pc[p] = "tx"
  BY DEF Abort, InTx, DeadlockVictim, Blockers, More
<1> QED
  BY <1>1, <1>2, RollbackStep

-----------------------------------------------------------------------------
(* The theorems.                                                            *)

LEMMA Starts == Init => IInv
<1> SUFFICES ASSUME Init PROVE IInv
  OBVIOUS
<1>1. /\ \A t \in Tables : rows[t] = [i \in Ids |-> Nil]
      /\ tx = [p \in Procs |-> Nil] /\ step = [p \in Procs |-> 1] /\ clock = 0 /\ issued = {}
      /\ pc = [p \in Procs |-> "idle"] /\ req = [p \in Procs |-> Nil]
      /\ draft = [p \in Procs |-> Nil] /\ status = [p \in Procs |-> "none"]
  BY DEF Init
<1>2. TypeOK
  BY <1>1 DEF TypeOK
<1>3. Types
  BY <1>1, CallsAssumption DEF Types, Json!Times
<1>4. Known /\ Exclusive /\ Whole
  BY <1>1, JoinsAre DEF Known, Exclusive, Whole, Locks
<1>5. ASSUME NEW p \in Procs PROVE Locals(p) /\ Progress(p) /\ Fresh(p)
  BY <1>1 DEF Locals, Progress, Fresh, Creates
<1> QED
  BY <1>2, <1>3, <1>4, <1>5 DEF IInv

LEMMA Steps == IInv /\ [Next]_vars => IInv'
<1> SUFFICES ASSUME IInv, [Next]_vars PROVE IInv'
  OBVIOUS
<1>1. CASE Next
  <2>1. CASE Tick
    BY <2>1, TickStep
  <2>2. ASSUME NEW p \in Procs, Call(p) \/ Work(p) \/ StatementFails(p) \/ Abort(p) PROVE IInv'
    BY <2>2, CallStep, PrepareStep, ReadStep, BeginStep, InsertPrimaryStep, LockRowStep, UpdatePrimaryStep,
       WriteJoinStep, DeleteRowStep, CommitStep, AbortStep, ReturnStep, StatementFailsStep DEF Work
  <2> QED
    BY <1>1, <2>1, <2>2 DEF Next
<1>2. CASE UNCHANGED vars
  <2>1. UNCHANGED <<rows, tx, step, clock, issued, pc, req, draft, status>>
    BY <1>2 DEF vars, callVars
  <2>2. /\ TypeOK' /\ Types'
    BY <2>1 DEF IInv, TypeOK, Types, RowsOf, Json!Times, Json!Resources
  <2>3. Known' /\ Exclusive' /\ Whole'
    BY <2>1 DEF IInv, Known, Exclusive, Whole, Locks
  <2>4. ASSUME NEW q \in Procs PROVE Locals(q)' /\ Progress(q)'
    BY <2>1, OthersKeep DEF IInv, Still
  <2>5. ASSUME NEW q \in Procs PROVE Fresh(q)'
    BY <2>1 DEF IInv, Fresh, Creates
  <2> QED
    BY <2>2, <2>3, <2>4, <2>5 DEF IInv
<1> QED
  BY <1>1, <1>2

\* The inductive invariant: what the locals are at each statement, what a
\* transaction has written and locked, that row locks exclude each other, and
\* that the identifier a Create has drawn is nobody else's.
THEOREM Inductive == Spec => []IInv
<1>1. Init => IInv
  BY Starts
<1>2. IInv /\ [Next]_vars => IInv'
  BY Steps
<1> QED
  BY <1>1, <1>2, PTL DEF Spec

\* The tables, the transactions and the locals of pgCreate, pgUpdate, pgDelete
\* and their MySQL twins have their types.
THEOREM TypeCorrect == Spec => []TypeOK
<1>1. IInv => TypeOK
  BY DEF IInv
<1> QED
  BY <1>1, Inductive, PTL

\* Every way out of Create, Replace and Delete commits or rolls back, so that
\* the connection and the row locks are given back.
THEOREM HoldsNothing == Spec => []NothingHeld
<1>1. IInv => NothingHeld
  BY DEF IInv, NothingHeld, Progress
<1> QED
  BY <1>1, Inductive, PTL

\* The committed rows change by a COMMIT alone.
LEMMA OnlyCommits == [Next]_vars => UNCHANGED rows \/ \E p \in Procs : Commit(p)
<1> SUFFICES ASSUME [Next]_vars PROVE UNCHANGED rows \/ \E p \in Procs : Commit(p)
  OBVIOUS
<1>1. ASSUME NEW p \in Procs, Work(p) PROVE UNCHANGED rows \/ Commit(p)
  BY <1>1 DEF Work, Prepare, Read, Begin, InsertPrimary, LockRow, UpdatePrimary, WriteJoin, DeleteRow,
     Rollback, Wrote, DeadlockVictim, Return
<1>2. ASSUME NEW p \in Procs, Call(p) \/ StatementFails(p) \/ Abort(p) PROVE UNCHANGED rows
  BY <1>2 DEF Call, StatementFails, Abort, Rollback
<1>3. Tick \/ UNCHANGED vars => UNCHANGED rows
  BY DEF Tick, vars
<1> QED
  BY <1>1, <1>2, <1>3 DEF Next

\* No joined row outlives its resource, where Delete removes the rows of its
\* table: the rows of a resource go in one transaction, and the upserts of a
\* Replace or Patch come after an UPDATE of the primary row that found it there.
\* (Where the primary table has no mapped column there is no such UPDATE, and
\* the hypothesis is needed.)
THEOREM Orphanless ==
  ASSUME PrimaryWritten
  PROVE  Spec => []NoOrphans
<1>1. Init => NoOrphans
  BY HomeAssumption DEF Init, NoOrphans, Tables
<1>2. IInv /\ NoOrphans /\ [Next]_vars => NoOrphans'
  <2> SUFFICES ASSUME IInv, NoOrphans, [Next]_vars, NEW t \in DeleteJoin, NEW i \in Ids, rows'[t][i] # Nil
               PROVE  rows'[Primary][i] # Nil
    BY DEF NoOrphans
  <2>1. CASE UNCHANGED rows
    BY <2>1 DEF NoOrphans
  <2>2. ASSUME NEW p \in Procs, Commit(p) PROVE rows'[Primary][i] # Nil
    <3>1. Primary \in Tables /\ t \in Tables
      BY HomeAssumption, JoinsAre
    <3>2. CASE i # Target(p)
      <4>1. rows'[t][i] = rows[t][i] /\ rows'[Primary][i] = rows[Primary][i]
        BY <2>2, <3>1, <3>2, Committed
      <4> QED
        BY <4>1 DEF NoOrphans
    <3>3. CASE i = Target(p)
      <4>1. pc[p] = "tx" /\ (req[p].op = "Delete" => rows'[t][i] = Nil)
        BY <2>2, <3>3, Committed
      <4>2. req[p].op \in Writes /\ draft[p] \in Json!Resources
        BY <4>1, Inside
      <4>3. rows'[Primary][i] = Part(draft[p], Primary)
        BY <2>2, <3>1, <3>3, <4>2, Committed
      <4> QED
        BY <3>1, <4>2, <4>3, Parts
    <3> QED
      BY <3>2, <3>3
  <2> QED
    BY <2>1, <2>2, OnlyCommits
<1> QED
  BY <1>1, <1>2, Inductive, PTL DEF Spec

\* How far p has come: its statement, and whether it has its row already.
Place(p) == 2 * step[p] + IF Locking(p) THEN 1 ELSE 0

\* The Delete and the Replace or Patch of one resource, either way round.
Opposed(q, r) ==
  /\ req[q].op = "Delete" /\ req[r].op \in {"Replace", "Patch"}
  /\ req[q].id = req[r].id

\* What a waiting goroutine and the one it waits for are at.
LEMMA Waiting ==
  ASSUME IInv, NEW q \in Procs, More(q)
  PROVE  /\ pc[q] = "tx" /\ step[q] \in 1 .. Len(Joins) + 1 /\ step[q] \in 1 .. Len(Joins) + 2
         /\ step[q] <= Len(Joins) + 1 /\ Len(Joins) \in Nat
         /\ OwnRow(q) /\ Updating(q) /\ Target(q) \in Ids /\ req[q] \in Requests
         /\ NextTable(q) \in Tables /\ NextTable(q) = Plan(q)[step[q]]
         /\ \A t \in Past(q) : \E m \in 1 .. Len(Joins) + 1 : m < step[q] /\ Plan(q)[m] = t
         /\ \/ req[q].op = "Delete" /\ draft[q] = Nil
            \/ req[q].op \in Writes /\ draft[q] \in Json!Resources
         /\ req[q].op # "Create" => Target(q) = req[q].id
         /\ req[q].op = "Create" => Target(q) = draft[q].id
         /\ Place(q) \in Nat /\ 2 * step[q] <= Place(q) /\ Place(q) <= 2 * step[q] + 1
<1>1. pc[q] = "tx"
  BY DEF More, InTx
<1>2. /\ step[q] \in 1 .. Len(Joins) + 1 /\ step[q] \in 1 .. Len(Joins) + 2
      /\ step[q] <= Len(Joins) + 1 /\ Len(Joins) \in Nat
  BY <1>1, Inside, JoinsAre DEF More
<1>3. \A t \in Past(q) : \E m \in 1 .. Len(Joins) + 1 : m < step[q] /\ Plan(q)[m] = t
  BY <1>2 DEF Past
<1>4. Place(q) \in Nat /\ 2 * step[q] <= Place(q) /\ Place(q) <= 2 * step[q] + 1
  BY <1>2 DEF Place
<1>5. NextTable(q) \in Tables /\ NextTable(q) = Plan(q)[step[q]]
  BY <1>2, Passed DEF NextTable
<1> QED
  BY <1>1, <1>2, <1>3, <1>4, <1>5, Inside

\* A goroutine that waits for a row is behind the one that holds it.
LEMMA AheadRow ==
  ASSUME IInv, NEW q \in Procs, NEW r \in Procs \ {q}, More(q), More(r),
         Locks(r, NextTable(q), Target(q)), ~ Opposed(q, r), ~ Opposed(r, q)
  PROVE  Place(q) < Place(r)
<1> DEFINE n == Len(Joins)
<1>1. Target(q) = Target(r) /\ (NextTable(q) \in Past(r) \/ (NextTable(q) = Primary /\ Locking(r)))
  BY Waiting DEF OwnRow
<1>2. req[q].op # "Create" /\ req[r].op # "Create"
  <2>1. ASSUME req[q].op = "Create" PROVE FALSE
    <3>1. Fresh(q) /\ Creates(q) /\ req[r] # Nil
      BY <2>1, Waiting, Kinds DEF IInv, Creates, Writes
    <3>2. CASE req[r].op = "Create"
      <4>1. Creates(r)
        BY <3>2, Waiting, Kinds DEF Creates, Writes
      <4> QED
        BY <1>1, <2>1, <3>1, <3>2, <4>1, Waiting DEF Fresh
    <3>3. CASE req[r].op # "Create"
      BY <1>1, <2>1, <3>1, <3>3, Waiting DEF Fresh
    <3> QED
      BY <3>2, <3>3
  <2>2. ASSUME req[r].op = "Create", req[q].op # "Create" PROVE FALSE
    <3>1. Fresh(r) /\ Creates(r) /\ req[q] # Nil
      BY <2>2, Waiting, Kinds DEF IInv, Creates, Writes
    <3> QED
      BY <1>1, <2>2, <3>1, Waiting DEF Fresh
  <2> QED
    BY <2>1, <2>2
<1>3. (req[q].op = "Delete") <=> (req[r].op = "Delete")
  BY <1>1, <1>2, Waiting DEF Writes, Opposed
<1>4. CASE NextTable(q) \in Past(r)
  <2>1. PICK m \in 1 .. n + 1 : m < step[r] /\ Plan(r)[m] = Plan(q)[step[q]]
    BY <1>4, Waiting
  <2>2. Plan(q) = Plan(r)
    BY <1>3 DEF Plan
  <2>3. m = step[q]
    BY <2>1, <2>2, Waiting, Plans
  <2> QED
    BY <2>1, <2>3, Waiting
<1>5. CASE NextTable(q) = Primary /\ Locking(r)
  <2>1. req[q].op # "Delete" /\ step[r] = 1
    BY <1>3, <1>5 DEF Locking
  <2>2. step[q] = 1
    BY <1>5, <2>1, First, Waiting
  <2>3. ~ Locking(q)
    <3>1. Locks(r, Primary, Target(q)) /\ Target(q) \in Ids /\ Primary \in Tables
      BY <1>5, Waiting, JoinsAre
    <3> QED
      BY <3>1 DEF Locking, IInv, Exclusive
  <2> QED
    BY <1>5, <2>1, <2>2, <2>3 DEF Place
<1> QED
  BY <1>1, <1>4, <1>5

\* One that waits for a userName is behind the one that holds it, or both have
\* their rows and it asks for the other's.
LEMMA AheadName ==
  ASSUME IInv, NEW q \in Procs, NEW r \in Procs \ {q}, More(q), More(r),
         Checks(q), HoldsName(r, q)
  PROVE  Place(q) < Place(r) \/ (Place(q) = Place(r) /\ Succeeds(q, r))
<1> DEFINE n == Len(Joins)
<1>1. req[q].op # "Delete" /\ NextTable(q) = Primary /\ draft[q] # Nil
  BY Waiting DEF HoldsName, Writes, Checks
<1>2. step[q] = 1
  BY <1>1, First, Waiting
<1>3. PICK i \in Ids :
        /\ Locks(r, Primary, i)
        /\ \/ /\ tx[r][<<Primary, i>>] # Nil
              /\ tx[r][<<Primary, i>>].attrs[UserName] = draft[q].attrs[UserName]
           \/ rows[Primary][i].attrs[UserName] = draft[q].attrs[UserName]
  BY DEF HoldsName
<1>4. i = Target(r) /\ (Primary \in Past(r) \/ Locking(r))
  BY <1>3, Waiting, JoinsAre DEF OwnRow
<1>5. CASE Primary \in Past(r)
  <2>1. PICK m \in 1 .. n + 1 : m < step[r] /\ Plan(r)[m] = Primary
    BY <1>5, Waiting
  <2>2. m = 1 \/ m = n + 1
    <3>1. 1 \in 1 .. n + 1 /\ n + 1 \in 1 .. n + 1
      BY JoinsAre
    <3> QED
      BY <2>1, <3>1, Plans
  <2>3. step[q] < step[r]
    <3>1. m < step[r] /\ step[r] <= n + 1 /\ step[r] \in Nat /\ n \in Nat
      BY <2>1, Waiting
    <3> QED
      BY <1>2, <2>2, <3>1
  <2> QED
    BY <2>3, Waiting
<1>6. CASE Locking(r)
  <2>1. step[r] = 1 /\ req[r].op \in {"Replace", "Patch"} /\ Locks(r, Primary, Target(r)) /\ Place(r) = 3
    BY <1>6 DEF Locking, Place
  <2>2. CASE ~ Locking(q)
    BY <1>2, <2>1, <2>2 DEF Place
  <2>3. CASE Locking(q)
    <3>1. Place(q) = 3 /\ req[q].op \in {"Replace", "Patch"}
      BY <2>3 DEF Locking, Place
    <3>2. Checks(r)
      <4>1. NextTable(r) = Primary
        BY <2>1, First, Waiting
      <4> QED
        BY <2>1, <4>1 DEF Checks
    <3>3. tx[r][<<Primary, i>>] = Nil
      BY <1>4, <1>6, Waiting DEF Updating
    <3>4. rows[Primary][req[r].id].attrs[UserName] = draft[q].attrs[UserName]
      BY <1>3, <1>4, <2>1, <3>3, Waiting
    <3> QED
      BY <2>1, <3>1, <3>2, <3>4 DEF Succeeds
  <2> QED
    BY <2>2, <2>3
<1> QED
  BY <1>4, <1>5, <1>6

\* Where no goroutine of S is behind all it waits for, the furthest ones pass
\* their userNames round.
LEMMA Furthest ==
  ASSUME NEW S \in SUBSET Procs, S # {}, NEW f \in [S -> S],
         NEW b \in Nat, \A q \in S : Place(q) \in Nat /\ Place(q) <= b,
         \A q \in S : f[q] # q,
         \A q \in S : Place(q) < Place(f[q]) \/ (Place(q) = Place(f[q]) /\ Succeeds(q, f[q]))
  PROVE  \E T \in (SUBSET S) \ {{}} : \A q \in T : \E r \in T \ {q} : Succeeds(q, r)
<1> DEFINE D == {b - Place(q) : q \in S}
           T == {q \in S : \A r \in S : Place(r) <= Place(q)}
<1>1. D \subseteq Nat /\ D # {}
  OBVIOUS
<1>2. PICK x \in D : \A y \in D : x <= y
  BY <1>1, NatMin
<1>3. PICK q \in S : x = b - Place(q)
  BY <1>2
<1>4. ASSUME NEW r \in S PROVE Place(r) <= Place(q)
  <2>1. x <= b - Place(r)
    BY <1>2
  <2> QED
    BY <1>3, <2>1
<1>5. T \in (SUBSET S) \ {{}}
  <2>1. q \in T
    BY <1>4
  <2>2. T \subseteq S
    OBVIOUS
  <2> HIDE DEF T
  <2> QED
    BY <2>1, <2>2
<1>6. ASSUME NEW p \in T PROVE \E r \in T \ {p} : Succeeds(p, r)
  <2>1. PICK r \in S : r = f[p]
    OBVIOUS
  <2>2. r # p /\ Place(r) <= Place(p) /\ Place(p) \in Nat /\ Place(r) \in Nat
    BY <2>1
  <2>3. Place(p) = Place(r) /\ Succeeds(p, r)
    BY <2>1, <2>2
  <2>4. r \in T
    BY <2>3
  <2> QED
    BY <2>2, <2>3, <2>4
<1> HIDE DEF T
<1> QED
  BY <1>5, <1>6

\* Only a Delete and a Replace or Patch of the same resource can deadlock, or
\* Replaces and Patches that pass their userNames round: all other transactions
\* take their locks in one order, the name included.
THEOREM Deadlocks == Spec => []DeadlocksNeedDeleteOrSwap
<1>1. IInv => DeadlocksNeedDeleteOrSwap
  <2> SUFFICES ASSUME IInv, NEW S \in SUBSET Procs, S # {}, Circles(S),
                      ~ \E d, r \in S : /\ req[d].op = "Delete" /\ req[r].op \in {"Replace", "Patch"}
                                        /\ req[d].id = req[r].id
               PROVE  \E T \in (SUBSET S) \ {{}} : \A q \in T : \E r \in T \ {q} : Succeeds(q, r)
    BY DEF DeadlocksNeedDeleteOrSwap
  <2>1. PICK f \in [S -> S] : \A q \in S : f[q] \in Blockers(q)
    BY DEF Circles
  <2>2. \A q \in S : More(q)
    BY <2>1 DEF Blockers
  <2>3. ASSUME NEW q \in S, NEW r \in S, r = f[q]
        PROVE  r # q /\ (Place(q) < Place(r) \/ (Place(q) = Place(r) /\ Succeeds(q, r)))
    <3>1. /\ r # q /\ More(q) /\ More(r) /\ q \in Procs /\ r \in Procs \ {q}
          /\ Locks(r, NextTable(q), Target(q)) \/ (Checks(q) /\ HoldsName(r, q))
      BY <2>1, <2>2, <2>3 DEF Blockers
    <3>2. ~ Opposed(q, r) /\ ~ Opposed(r, q)
      BY DEF Opposed
    <3> QED
      BY <3>1, <3>2, AheadRow, AheadName
  <2>4. /\ \A q \in S : f[q] # q
        /\ \A q \in S : Place(q) < Place(f[q]) \/ (Place(q) = Place(f[q]) /\ Succeeds(q, f[q]))
    BY <2>3
  <2> DEFINE b == 2 * (Len(Joins) + 1) + 1
  <2>5. b \in Nat /\ \A q \in S : Place(q) \in Nat /\ Place(q) <= b
    <3> SUFFICES ASSUME NEW q \in S PROVE b \in Nat /\ Place(q) \in Nat /\ Place(q) <= b
      BY JoinsAre
    <3>1. /\ step[q] \in 1 .. Len(Joins) + 1 /\ Len(Joins) \in Nat
          /\ Place(q) \in Nat /\ Place(q) <= 2 * step[q] + 1
      BY <2>2, Waiting
    <3> QED
      BY <3>1
  <2> HIDE DEF b
  <2> QED
    BY <2>4, <2>5, Furthest
<1> QED
  BY <1>1, Inductive, PTL

=============================================================================
