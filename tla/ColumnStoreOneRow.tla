--------------------------- MODULE ColumnStoreOneRow ---------------------------
(***************************************************************************)
(* The proof that PostgreSQL's column mode implements SqlStore, step by    *)
(* step, when the primary table has mapped columns, and what the theorems  *)
(* of SqlStoreProofs say of it then.                                       *)
(***************************************************************************)
EXTENDS ColumnStoreProofs

-----------------------------------------------------------------------------
(* The userName a transaction has written stays its own.                    *)

\* p has written its primary row, with a userName.
Naming(p) ==
  /\ pc[p] = "tx" /\ req[p].op \in Writes /\ Primary \in Past(p)
  /\ UserName # Nil /\ draft[p].attrs[UserName] # Nil

Bears(p, i) ==
  /\ rows[Primary][i] # Nil
  /\ rows[Primary][i].attrs[UserName] = draft[p].attrs[UserName]

\* q's transaction is giving the resource i the userName of p's.
Giving(q, p, i) ==
  /\ Locks(q, Primary, i) /\ tx[q][<<Primary, i>>] # Nil
  /\ tx[q][<<Primary, i>>].attrs[UserName] = draft[p].attrs[UserName]

Names(p) ==
  Naming(p) => \A i \in Ids : /\ i # Target(p) => ~ Bears(p, i)
                              /\ \A q \in Procs \ {p} : ~ Giving(q, p, i)

Owned == \A p \in Procs : Names(p)

\* UNIQUE is about the primary rows.
LEMMA Taken ==
  ASSUME TypeOK, NEW o \in Json!Resources
  PROVE  Json!NameTaken(o) <=>
           /\ UserName # Nil /\ o.attrs[UserName] # Nil
           /\ \E i \in Ids \ {o.id} : /\ rows[Primary][i] # Nil
                                      /\ rows[Primary][i].attrs[UserName] = o.attrs[UserName]
<1>1. ASSUME NEW i \in Ids, UserName # Nil, rows[Primary][i] # Nil
      PROVE  Table[i] # Nil /\ Table[i].id = i /\ Table[i].attrs[UserName] = rows[Primary][i].attrs[UserName]
  <2>1. UserName \in Attrs /\ Home[UserName] = Primary
    BY <1>1, CallsAssumption, HomeAssumption
  <2>2. Table[i] = Reconstruct(i) /\ Table[i].id = i /\ Table[i] # Nil
    BY <1>1, Rebuilt
  <2>3. Reconstruct(i).attrs[UserName] = rows[Primary][i].attrs[UserName]
    BY <2>1 DEF Reconstruct
  <2> QED
    BY <2>2, <2>3
<1> QED
  BY <1>1 DEF Json!NameTaken, Json!Rows, Table

\* A goroutine's step is its own.
LEMMA OthersStill ==
  ASSUME IInv, NEW r \in Procs, Call(r) \/ Work(r) \/ StatementFails(r) \/ Abort(r)
  PROVE  \A q \in Procs \ {r} : Still(q)
<1>1. /\ DOMAIN pc = Procs /\ DOMAIN req = Procs /\ DOMAIN draft = Procs
      /\ DOMAIN tx = Procs /\ DOMAIN step = Procs
  BY DEF IInv, TypeOK, Types
<1>2. CASE Call(r)
  BY <1>1, <1>2 DEF Call, Json!Call, Still
<1>3. CASE Prepare(r)
  BY <1>1, <1>3 DEF Prepare, Json!Prepare, Json!Proceed, Still
<1>4. CASE StatementFails(r)
  BY <1>1, <1>4 DEF StatementFails, Json!StatementFails, Json!Fail, Json!Finish, Still
<1>5. CASE Return(r)
  BY <1>1, <1>5 DEF Return, Json!Return, Still
<1>6. CASE Begin(r)
  BY <1>1, <1>6 DEF Begin, Still
<1>7. ASSUME NEW s, Rollback(r, s) PROVE \A q \in Procs \ {r} : Still(q)
  BY <1>1, <1>7 DEF Rollback, End, Json!Finish, Still
<1>8. ASSUME NEW done \in BOOLEAN, NEW row, Wrote(r, done, row) PROVE \A q \in Procs \ {r} : Still(q)
  BY <1>1, <1>8 DEF Wrote, Marks, callVars, Still
<1>9. CASE Commit(r)
  BY <1>1, <1>9 DEF Commit, End, Json!Finish, Still
<1>10. CASE Abort(r) \/ DeadlockVictim(r)
  BY <1>7, <1>10 DEF Abort, DeadlockVictim
<1>11. CASE InsertPrimary(r)
  BY <1>7, <1>8, <1>11 DEF InsertPrimary
<1>12. CASE UpdatePrimary(r)
  <2>1. PICK done \in BOOLEAN : done = (PrimaryWritten /\ Stored(r, Primary) # Nil)
    OBVIOUS
  <2> QED
    BY <1>7, <1>8, <1>12, <2>1 DEF UpdatePrimary
<1>13. CASE WriteJoin(r) \/ LockRow(r)
  <2>1. ASSUME Marks(r, Nil), UNCHANGED <<rows, step, callVars>> PROVE \A q \in Procs \ {r} : Still(q)
    BY <1>1, <2>1 DEF Marks, callVars, Still
  <2>2. CASE LockRow(r)
    BY <1>7, <2>1, <2>2 DEF LockRow
  <2>3. CASE WriteJoin(r)
    BY <1>8, <2>3 DEF WriteJoin
  <2> QED
    BY <1>13, <2>2, <2>3
<1>14. CASE DeleteRow(r)
  <2>1. PICK t \in Tables :
          IF t = Primary /\ Stored(r, t) = Nil THEN Rollback(r, "notFound")
          ELSE Wrote(r, Stored(r, t) # Nil /\ ~ Skips(r), Nil)
    BY <1>14 DEF DeleteRow
  <2> QED
    BY <1>7, <1>8, <2>1
<1>15. CASE Read(r)
  <2>1. UNCHANGED <<tx, step>>
    BY <1>15 DEF Read
  <2>2. \A q \in Procs \ {r} : pc'[q] = pc[q] /\ req'[q] = req[q] /\ draft'[q] = draft[q]
    <3>1. CASE Json!Get(r)
      BY <1>1, <3>1 DEF Json!Get, Json!Fail, Json!Finish
    <3>2. CASE Json!ReadForPatch(r)
      BY <1>1, <3>2 DEF Json!ReadForPatch, Json!Fail, Json!Finish, Json!Proceed
    <3>3. CASE Json!ReadForReplace(r)
      BY <1>1, <3>3 DEF Json!ReadForReplace, Json!Fail, Json!Finish, Json!Proceed
    <3>4. CASE Json!Count(r)
      BY <1>1, <3>4 DEF Json!Count
    <3>5. CASE Json!Select(r)
      BY <1>1, <3>5 DEF Json!Select, Json!Finish
    <3> QED
      BY <1>15, <3>1, <3>2, <3>3, <3>4, <3>5 DEF Read
  <2> QED
    BY <2>1, <2>2 DEF Still
<1> QED
  BY <1>2, <1>3, <1>4, <1>5, <1>6, <1>9, <1>10, <1>11, <1>12, <1>13, <1>14, <1>15 DEF Work

\* The names of others stay theirs if a step commits and gives none of them.
LEMMA NamesKept ==
  ASSUME IInv, \A p \in Procs : Names(p), NEW r \in Procs, \A q \in Procs \ {r} : Still(q),
         \A i \in Ids : \/ rows'[Primary][i] = rows[Primary][i]
                        \/ Locks(r, Primary, i) /\ rows'[Primary][i] = tx[r][<<Primary, i>>],
         \A p \in Procs \ {r}, i \in Ids : Naming(p) /\ Giving(r, p, i)' => Giving(r, p, i),
         Names(r)'
  PROVE  \A p \in Procs : Names(p)'
<1> SUFFICES ASSUME NEW p \in Procs \ {r} PROVE Names(p)'
  OBVIOUS
<1>1. Still(p) /\ Names(p)
  OBVIOUS
<1>2. Plan(p)' = Plan(p) /\ Target(p)' = Target(p)
  BY <1>1 DEF Plan, Target, Still
<1>3. Past(p)' = Past(p)
  BY <1>1, <1>2 DEF Past, Still
<1>4. Naming(p)' <=> Naming(p)
  BY <1>1, <1>3 DEF Naming, Still
<1> SUFFICES ASSUME Naming(p), NEW i \in Ids
             PROVE  /\ i # Target(p) => ~ Bears(p, i)'
                    /\ \A q \in Procs \ {p} : ~ Giving(q, p, i)'
  BY <1>2, <1>4 DEF Names
<1>5. ASSUME i # Target(p), Bears(p, i)' PROVE FALSE
  <2>1. ~ Bears(p, i) /\ ~ Giving(r, p, i)
    BY <1>1, <1>5 DEF Names
  <2>2. rows'[Primary][i] # Nil /\ rows'[Primary][i].attrs[UserName] = draft[p].attrs[UserName]
    BY <1>1, <1>5 DEF Bears, Still
  <2> QED
    BY <2>1, <2>2 DEF Bears, Giving
<1>6. ASSUME NEW q \in Procs \ {p}, Giving(q, p, i)' PROVE FALSE
  <2>1. ~ Giving(q, p, i)
    BY <1>1 DEF Names
  <2>2. CASE q = r
    BY <1>6, <2>1, <2>2
  <2>3. CASE q # r
    <3>1. Still(q)
      BY <2>3
    <3> QED
      BY <1>1, <1>6, <2>1, <3>1 DEF Giving, Locks, Still
  <2> QED
    BY <2>2, <2>3
<1> QED
  BY <1>5, <1>6

\* A step that writes nothing gives no name.
LEMMA NamesQuiet ==
  ASSUME IInv, \A p \in Procs : Names(p), NEW r \in Procs, \A q \in Procs \ {r} : Still(q),
         UNCHANGED rows,
         tx'[r] = tx[r] \/ tx'[r] = Nil \/ DOMAIN tx'[r] = {},
         Naming(r)' => Naming(r) /\ UNCHANGED <<req[r], draft[r]>>
  PROVE  \A p \in Procs : Names(p)'
<1>1. \A p \in Procs, i \in Ids : Naming(p) /\ p # r /\ Giving(r, p, i)' => Giving(r, p, i)
  <2> SUFFICES ASSUME NEW p \in Procs, NEW i \in Ids, p # r, Giving(r, p, i)' PROVE Giving(r, p, i)
    OBVIOUS
  <2>1. draft'[p] = draft[p]
    BY DEF Still
  <2>2. tx'[r] = tx[r]
    BY DEF Giving, Locks
  <2> QED
    BY <2>1, <2>2 DEF Giving, Locks
<1>2. Names(r)'
  <2> SUFFICES ASSUME Naming(r), UNCHANGED <<req[r], draft[r]>>, NEW i \in Ids
               PROVE  /\ i # Target(r)' => ~ Bears(r, i)'
                      /\ \A q \in Procs \ {r} : ~ Giving(q, r, i)'
    BY DEF Names
  <2>1. Target(r)' = Target(r) /\ Names(r)
    BY DEF Target
  <2>2. i # Target(r) => ~ Bears(r, i)'
    BY <2>1 DEF Names, Bears
  <2>3. ASSUME NEW q \in Procs \ {r} PROVE ~ Giving(q, r, i)'
    <3>1. Still(q) /\ ~ Giving(q, r, i)
      BY <2>1 DEF Names
    <3> QED
      BY <3>1 DEF Giving, Locks, Still
  <2> QED
    BY <2>1, <2>2, <2>3
<1> QED
  BY <1>1, <1>2, NamesKept

\* The row a transaction in the middle of its plan has written.
LEMMA NamedRow ==
  ASSUME PrimaryWritten, IInv, NEW p \in Procs, Naming(p)
  PROVE  /\ Locks(p, Primary, Target(p)) /\ Target(p) \in Ids /\ draft[p] \in Json!Resources
         /\ tx[p][<<Primary, Target(p)>>] # Nil
         /\ tx[p][<<Primary, Target(p)>>].attrs[UserName] = draft[p].attrs[UserName]
<1>1. /\ Putting(p) /\ Target(p) \in Ids /\ draft[p] \in Json!Resources
  BY Inside DEF Naming, Writes
<1>2. Put(p, Primary)
  BY <1>1 DEF Naming, Putting
<1>3. UserName \in Attrs /\ Home[UserName] = Primary
  BY CallsAssumption, HomeAssumption DEF Naming
<1>4. /\ Part(draft[p], Primary) # Nil
      /\ Part(draft[p], Primary).attrs[UserName] = draft[p].attrs[UserName]
  BY <1>1, <1>3, Parts, JoinsAre DEF Part
<1> QED
  BY <1>1, <1>2, <1>4 DEF Put

\* A statement that writes the row (T, I), and does not wait.
LEMMA NamesWrite ==
  ASSUME PrimaryWritten, IInv, \A p \in Procs : Names(p), NEW r \in Procs, \A q \in Procs \ {r} : Still(q),
         pc[r] = "tx", step[r] <= Len(Joins) + 1,
         NEW T, T = NextTable(r), NEW I, I = Target(r), NEW row, Wrote(r, TRUE, row),
         req[r].op \in Writes => row = Part(draft[r], T),
         req[r].op = "Delete" => row = Nil,
         T = Primary => /\ \A q \in Procs \ {r} : ~ HoldsName(q, r)
                        /\ req[r].op \in Writes => ~ Json!NameTaken(draft[r])
  PROVE  \A p \in Procs : Names(p)'
<1>1. /\ tx'[r] = [c \in DOMAIN tx[r] \cup {<<T, I>>} |-> IF c = <<T, I>> THEN row ELSE tx[r][c]]
      /\ step' = [step EXCEPT ![r] = @ + 1] /\ UNCHANGED <<rows, pc, req, draft>>
  BY DEF Wrote, Marks, callVars, IInv, Types
<1>2. /\ I \in Ids /\ T \in Tables \ Past(r) /\ tx[r] # Nil /\ req[r].op \in Writes \cup {"Delete"}
      /\ draft[r] = Nil \/ draft[r] \in Json!Resources
      /\ req[r].op \in Writes => draft[r] \in Json!Resources /\ draft[r].id = I
      /\ step[r] \in 1 .. Len(Joins) + 1
  <2>1. /\ req[r].op \in Writes \cup {"Delete"} /\ I \in Ids /\ tx[r] # Nil
        /\ draft[r] = Nil \/ draft[r] \in Json!Resources
        /\ req[r].op \in Writes => draft[r] \in Json!Resources /\ draft[r].id = I
        /\ step[r] \in 1 .. Len(Joins) + 2
    BY Inside DEF Writes
  <2>2. step[r] \in 1 .. Len(Joins) + 1
    BY <2>1, JoinsAre
  <2>3. T \in Tables \ Past(r)
    BY <2>1, Passed
  <2> QED
    BY <2>1, <2>2, <2>3
<1>3. \A i \in Ids : Locks(r, Primary, i)' => \/ Locks(r, Primary, i) /\ tx'[r][<<Primary, i>>] = tx[r][<<Primary, i>>]
                                              \/ T = Primary /\ i = I /\ tx'[r][<<Primary, i>>] = row
  <2> SUFFICES ASSUME NEW i \in Ids, Locks(r, Primary, i)'
               PROVE  \/ Locks(r, Primary, i) /\ tx'[r][<<Primary, i>>] = tx[r][<<Primary, i>>]
                      \/ T = Primary /\ i = I /\ tx'[r][<<Primary, i>>] = row
    OBVIOUS
  <2>1. <<Primary, i>> \in DOMAIN tx[r] \cup {<<T, I>>}
    BY <1>1 DEF Locks
  <2>2. CASE <<Primary, i>> = <<T, I>>
    BY <1>1, <2>1, <2>2
  <2>3. CASE <<Primary, i>> # <<T, I>>
    BY <1>1, <1>2, <2>1, <2>3 DEF Locks
  <2> QED
    BY <2>2, <2>3
<1>4. UserName # Nil => UserName \in Attrs /\ Home[UserName] = Primary
  BY CallsAssumption, HomeAssumption
<1>5. UserName # Nil /\ T = Primary /\ req[r].op \in Writes => row # Nil /\ row.attrs[UserName] = draft[r].attrs[UserName]
  <2> SUFFICES ASSUME UserName # Nil, T = Primary, req[r].op \in Writes
               PROVE  row # Nil /\ row.attrs[UserName] = draft[r].attrs[UserName]
    OBVIOUS
  <2>1. row = Part(draft[r], Primary) /\ draft[r] \in Json!Resources /\ Primary \in Tables
    BY <1>2, JoinsAre
  <2>2. row # Nil
    BY <2>1, Parts
  <2>3. Part(draft[r], Primary).attrs[UserName] = draft[r].attrs[UserName]
    BY <1>4 DEF Part
  <2> QED
    BY <2>1, <2>2, <2>3
<1>6. ASSUME NEW p \in Procs \ {r}, NEW i \in Ids, Naming(p), Giving(r, p, i)', ~ Giving(r, p, i) PROVE FALSE
  <2>1. Still(p) /\ Locks(r, Primary, i)' /\ tx'[r][<<Primary, i>>] # Nil
    BY <1>6 DEF Giving
  <2>2. tx'[r][<<Primary, i>>].attrs[UserName] = draft[p].attrs[UserName]
    BY <1>6, <2>1 DEF Giving, Still
  <2>3. T = Primary /\ i = I /\ tx'[r][<<Primary, i>>] = row
    BY <1>3, <1>6, <2>1, <2>2 DEF Giving
  <2>4. req[r].op \in Writes
    BY <1>2, <2>1, <2>3
  <2>5. draft[r].attrs[UserName] = draft[p].attrs[UserName]
    BY <1>5, <1>6, <2>2, <2>3, <2>4 DEF Naming
  <2>6. /\ Locks(p, Primary, Target(p)) /\ Target(p) \in Ids
        /\ tx[p][<<Primary, Target(p)>>] # Nil
        /\ tx[p][<<Primary, Target(p)>>].attrs[UserName] = draft[p].attrs[UserName]
    BY <1>6, NamedRow
  <2>7. HoldsName(p, r)
    <3>1. draft[r] # Nil
      BY <1>2, <2>4, Kinds
    <3> QED
      BY <1>6, <2>5, <2>6, <3>1 DEF HoldsName, Naming
  <2> QED
    BY <2>3, <2>7
<1>7. Past(r)' = Past(r) \cup {T}
  <2>1. Plan(r)' = Plan(r) /\ step'[r] = step[r] + 1
    BY <1>1 DEF Plan, IInv, TypeOK
  <2> QED
    BY <1>2, <2>1, Passes
<1>8. Names(r)'
  <2>1. Target(r)' = I
    BY <1>1 DEF Target
  <2> SUFFICES ASSUME Naming(r)', NEW i \in Ids
               PROVE  /\ i # I => ~ Bears(r, i)'
                      /\ \A q \in Procs \ {r} : ~ Giving(q, r, i)'
    BY <2>1 DEF Names
  <2>2. req[r].op \in Writes /\ UserName # Nil /\ draft[r].attrs[UserName] # Nil
    BY <1>1 DEF Naming
  <2>3. ASSUME NEW q \in Procs \ {r} PROVE Giving(q, r, i)' => Giving(q, r, i)
    BY <1>1 DEF Giving, Locks, Still
  <2>4. Bears(r, i)' => Bears(r, i)
    BY <1>1 DEF Bears
  <2>5. CASE T # Primary
    <3>1. Naming(r)
      BY <1>1, <1>7, <2>2, <2>5 DEF Naming
    <3> QED
      BY <2>3, <2>4, <3>1 DEF Names
  <2>6. CASE T = Primary
    <3>1. \A j \in Ids \ {I} : ~ Bears(r, j)
      BY <1>2, <2>2, <2>6, Taken DEF Bears, IInv
    <3>2. ASSUME NEW q \in Procs \ {r} PROVE ~ Giving(q, r, i)
      <4>1. ~ HoldsName(q, r)
        BY <2>6
      <4>2. draft[r] # Nil
        BY <1>2, <2>2, Kinds
      <4> QED
        BY <2>2, <4>1, <4>2 DEF HoldsName, Giving
    <3> QED
      BY <2>3, <2>4, <3>1, <3>2
  <2> QED
    BY <2>5, <2>6
<1> QED
  BY <1>1, <1>6, <1>8, NamesKept

LEMMA NamesCommit ==
  ASSUME IInv, \A p \in Procs : Names(p), NEW r \in Procs, \A q \in Procs \ {r} : Still(q), Commit(r)
  PROVE  \A p \in Procs : Names(p)'
<1>1. /\ \A t \in Tables, i \in Ids :
           rows'[t][i] = IF Locks(r, t, i) THEN tx[r][<<t, i>>] ELSE rows[t][i]
      /\ tx' = [tx EXCEPT ![r] = Nil]
  BY Committed
<1>2. \A i \in Ids : \/ rows'[Primary][i] = rows[Primary][i]
                     \/ Locks(r, Primary, i) /\ rows'[Primary][i] = tx[r][<<Primary, i>>]
  BY <1>1, JoinsAre
<1>3. tx'[r] = Nil /\ pc'[r] = "done"
  <2>1. pc' = [pc EXCEPT ![r] = "done"]
    BY Committed DEF Json!Finish
  <2> QED
    BY <1>1, <2>1 DEF IInv, TypeOK, Types
<1>4. \A p \in Procs \ {r}, i \in Ids : ~ Giving(r, p, i)'
  BY <1>3 DEF Giving, Locks
<1>5. Names(r)'
  BY <1>3 DEF Names, Naming
<1> QED
  BY <1>2, <1>4, <1>5, NamesKept

\* A lock gives no name.
LEMMA NamesLock ==
  ASSUME PrimaryWritten, IInv, \A p \in Procs : Names(p), NEW r \in Procs, \A q \in Procs \ {r} : Still(q),
         LockRow(r), ~ NoneAffected(r)
  PROVE  \A p \in Procs : Names(p)'
<1>1. /\ Runs(r, {"Replace", "Patch"}, Primary) /\ Marks(r, Nil)
      /\ UNCHANGED <<rows, step, pc, req, draft>>
  BY DEF LockRow, callVars
<1>2. PICK I : I = Target(r)
  OBVIOUS
<1>3. /\ pc[r] = "tx" /\ step[r] <= Len(Joins) + 1 /\ NextTable(r) = Primary
      /\ req[r].op \in {"Replace", "Patch"}
      /\ \A q \in Procs \ {r} : ~ Locks(q, Primary, I)
  <2>1. req[r].op \in {"Replace", "Patch"} => ~ NoStatement(r)
    BY DEF NoStatement, Skips
  <2> QED
    BY <1>1, <1>2, <2>1, Unlocked
<1>4. step[r] = 1 /\ step[r] \in 1 .. Len(Joins) + 2
  BY <1>3, First, Inside
<1>5. Past(r) = {} /\ Past(r)' = Past(r)
  <2>1. Past(r)' = Past(r)
    BY <1>1 DEF Past, Plan
  <2> QED
    BY <1>4, <2>1, Passed
<1>6. Names(r)'
  BY <1>5 DEF Names, Naming
<1>7. OwnRow(r)
  BY <1>3, Inside
<1>8. tx'[r] = [c \in DOMAIN tx[r] \cup {<<Primary, I>>} |-> IF c = <<Primary, I>> THEN Nil ELSE tx[r][c]]
  BY <1>1, <1>2, <1>3 DEF Marks, IInv, Types
<1>9. ASSUME NEW p \in Procs \ {r}, NEW i \in Ids, Giving(r, p, i)' PROVE FALSE
  <2>1. <<Primary, i>> \in DOMAIN tx'[r] /\ tx'[r][<<Primary, i>>] # Nil
    BY <1>9 DEF Giving, Locks
  <2>2. <<Primary, i>> # <<Primary, I>> /\ <<Primary, i>> \in DOMAIN tx[r]
    BY <1>8, <2>1
  <2>3. Locks(r, Primary, i) /\ i # I
    <3>1. tx[r] # Nil
      BY <1>3, Inside
    <3> QED
      BY <2>2, <3>1 DEF Locks
  <2> QED
    BY <1>2, <1>7, <2>3, JoinsAre DEF OwnRow
<1> QED
  BY <1>1, <1>6, <1>9, NamesKept

LEMMA NamesStep ==
  ASSUME PrimaryWritten, IInv, \A p \in Procs : Names(p), NEW r \in Procs,
         Call(r) \/ Work(r) \/ StatementFails(r) \/ Abort(r)
  PROVE  \A p \in Procs : Names(p)'
<1>1. \A q \in Procs \ {r} : Still(q)
  BY OthersStill
<1>2. /\ pc \in [Procs -> Stages] /\ tx = [q \in Procs |-> tx[q]] /\ DOMAIN tx = Procs
      /\ step \in [Procs -> Nat \ {0}]
  BY DEF IInv, TypeOK, Types, Stages
<1>3. ASSUME UNCHANGED <<rows, tx>>, pc'[r] # "tx" PROVE \A p \in Procs : Names(p)'
  BY <1>1, <1>3, NamesQuiet DEF Naming
<1>4. ASSUME NEW s, Rollback(r, s) PROVE \A p \in Procs : Names(p)'
  <2>1. UNCHANGED rows /\ tx'[r] = Nil /\ pc'[r] = "done"
    BY <1>2, <1>4 DEF Rollback, End, Json!Finish
  <2> QED
    BY <1>1, <2>1, NamesQuiet DEF Naming
<1>5. CASE Call(r) \/ Prepare(r) \/ Read(r) \/ StatementFails(r) \/ Return(r)
  <2>1. UNCHANGED <<rows, tx>>
    BY <1>5 DEF Call, Prepare, Read, StatementFails, Return
  <2>2. pc'[r] # "tx"
    <3>1. CASE Call(r) \/ Prepare(r) \/ StatementFails(r) \/ Return(r)
      BY <1>2, <3>1 DEF Call, Json!Call, Prepare, Json!Prepare, Json!Proceed, StatementFails,
         Json!StatementFails, Json!Fail, Json!Finish, Return, Json!Return
    <3>2. CASE Read(r)
      BY <1>2, <3>2 DEF Read, Json!Get, Json!ReadForPatch, Json!ReadForReplace, Json!Count, Json!Select,
         Json!Fail, Json!Finish, Json!Proceed
    <3> QED
      BY <1>5, <3>1, <3>2
  <2> QED
    BY <1>3, <2>1, <2>2
<1>6. CASE Begin(r)
  <2>1. /\ UNCHANGED rows /\ tx'[r] = [c \in {} |-> Nil] /\ step'[r] = 1
    BY <1>2, <1>6 DEF Begin
  <2>2. 1 .. step'[r] - 1 = {}
    BY <2>1
  <2>3. Past(r)' = {}
    BY <2>2 DEF Past
  <2>4. ~ Naming(r)' /\ DOMAIN tx'[r] = {}
    BY <2>1, <2>3 DEF Naming
  <2> QED
    BY <1>1, <2>1, <2>4, NamesQuiet
<1>7. CASE InsertPrimary(r)
  <2>1. Runs(r, {"Create"}, Primary)
    BY <1>7 DEF InsertPrimary
  <2>2. /\ pc[r] = "tx" /\ step[r] <= Len(Joins) + 1 /\ NextTable(r) = Primary /\ req[r].op = "Create"
        /\ \A q \in Procs \ {r} : ~ HoldsName(q, r)
    <3>1. req[r].op = "Create" => ~ NoStatement(r)
      BY DEF NoStatement, Skips
    <3>2. req[r].op = "Create" /\ NextTable(r) = Primary => Checks(r)
      BY DEF Checks
    <3> QED
      BY <2>1, <3>1, <3>2, Unlocked
  <2>3. CASE Json!NameTaken(draft[r])
    BY <1>4, <1>7, <2>3 DEF InsertPrimary
  <2>4. CASE ~ Json!NameTaken(draft[r])
    <3>1. PICK row : row = Part(draft[r], Primary)
      OBVIOUS
    <3>2. Wrote(r, TRUE, row)
      BY <1>7, <2>4, <3>1 DEF InsertPrimary
    <3> QED
      BY <1>1, <2>2, <2>4, <3>1, <3>2, NamesWrite DEF Writes
  <2> QED
    BY <2>3, <2>4
<1>8. CASE UpdatePrimary(r)
  <2>1. Runs(r, {"Replace", "Patch"}, Primary)
    BY <1>8 DEF UpdatePrimary
  <2>2. /\ pc[r] = "tx" /\ step[r] <= Len(Joins) + 1 /\ NextTable(r) = Primary
        /\ req[r].op \in {"Replace", "Patch"} /\ Locks(r, Primary, Target(r))
        /\ \A q \in Procs \ {r} : ~ HoldsName(q, r)
    <3>1. req[r].op \in {"Replace", "Patch"} => ~ NoStatement(r)
      BY DEF NoStatement, Skips
    <3>2. Locks(r, Primary, Target(r)) /\ NextTable(r) = Primary => Checks(r)
      BY DEF Checks
    <3> QED
      BY <1>8, <2>1, <3>1, <3>2, Unlocked DEF UpdatePrimary
  <2>3. CASE Json!NameTaken(draft[r])
    BY <1>4, <1>8, <2>3 DEF UpdatePrimary
  <2>4. CASE ~ Json!NameTaken(draft[r])
    <3>1. PICK row : row = Part(draft[r], Primary)
      OBVIOUS
    <3>2. Wrote(r, TRUE, row)
      <4>1. Updating(r)
        BY <2>2, Inside
      <4>2. Stored(r, Primary) # Nil
        BY <2>2, <4>1 DEF Updating
      <4> QED
        BY <1>8, <2>4, <3>1, <4>2 DEF UpdatePrimary, Wrote
    <3> QED
      BY <1>1, <2>2, <2>4, <3>1, <3>2, NamesWrite DEF Writes
  <2> QED
    BY <2>3, <2>4
<1>9. CASE WriteJoin(r)
  <2>1. PICK t \in JoinTables :
          Runs(r, {"Create", "Replace", "Patch"}, t) /\ Wrote(r, TRUE, Part(draft[r], t))
    BY <1>9 DEF WriteJoin
  <2>2. PICK row : row = Part(draft[r], t)
    OBVIOUS
  <2>3. /\ pc[r] = "tx" /\ step[r] <= Len(Joins) + 1 /\ NextTable(r) = t /\ t # Primary
        /\ req[r].op \in {"Create", "Replace", "Patch"}
    BY <2>1, Unlocked, JoinsAre
  <2>4. Wrote(r, TRUE, row)
    BY <2>1, <2>2
  <2> QED
    BY <1>1, <2>2, <2>3, <2>4, NamesWrite DEF Writes
<1>10. CASE DeleteRow(r)
  <2>1. PICK t \in Tables :
          /\ Runs(r, {"Delete"}, t)
          /\ IF t = Primary /\ Stored(r, t) = Nil THEN Rollback(r, "notFound")
             ELSE Wrote(r, Stored(r, t) # Nil /\ ~ Skips(r), Nil)
    BY <1>10 DEF DeleteRow
  <2>2. /\ pc[r] = "tx" /\ step[r] <= Len(Joins) + 1 /\ NextTable(r) = t /\ req[r].op = "Delete"
    BY <2>1, Unlocked
  <2>3. \A q \in Procs : ~ HoldsName(q, r)
    BY <2>2, Inside DEF HoldsName, Writes
  <2>4. CASE Rollback(r, "notFound")
    BY <1>4, <2>4
  <2>5. CASE Wrote(r, TRUE, Nil)
    <3>1. PICK row : row = Nil
      OBVIOUS
    <3> QED
      BY <1>1, <2>2, <2>3, <2>5, <3>1, NamesWrite DEF Writes
  <2>6. CASE tx' = tx /\ UNCHANGED <<rows, callVars>>
    <3>1. ~ Naming(r)'
      BY <2>2, <2>6 DEF Naming, Writes, callVars
    <3> QED
      BY <1>1, <2>6, <3>1, NamesQuiet
  <2> QED
    BY <2>1, <2>4, <2>5, <2>6 DEF Wrote
<1>11. CASE Commit(r)
  BY <1>1, <1>11, NamesCommit
<1>12. CASE Abort(r) \/ DeadlockVictim(r)
  BY <1>4, <1>12 DEF Abort, DeadlockVictim
<1>13. CASE LockRow(r)
  <2>1. CASE NoneAffected(r)
    BY <1>4, <1>13, <2>1 DEF LockRow
  <2>2. CASE ~ NoneAffected(r)
    BY <1>1, <1>13, <2>2, NamesLock
  <2> QED
    BY <2>1, <2>2
<1> QED
  BY <1>5, <1>6, <1>7, <1>8, <1>9, <1>10, <1>11, <1>12, <1>13 DEF Work

\* What a transaction has written as userName no other row has, and no other
\* transaction has written, until it ends.
LEMMA OwnNames ==
  ASSUME PrimaryWritten
  PROVE  Spec => [](IInv /\ Owned)
<1>1. Init => Owned
  BY DEF Init, Owned, Names, Naming
<1>2. IInv /\ Owned /\ [Next]_vars => Owned'
  <2> SUFFICES ASSUME IInv, \A p \in Procs : Names(p), [Next]_vars PROVE \A p \in Procs : Names(p)'
    BY DEF Owned
  <2>1. CASE Tick \/ UNCHANGED vars
    <3> SUFFICES ASSUME NEW p \in Procs PROVE Names(p)'
      OBVIOUS
    <3>1. /\ UNCHANGED rows /\ \A q \in Procs : Still(q)
      BY <2>1 DEF Tick, Json!Tick, vars, callVars, Still
    <3>2. \A q \in Procs \ {p} : Still(q)
      BY <3>1
    <3>3. Naming(p)' => Naming(p)
      <4>1. Past(p)' = Past(p)
        BY <3>1 DEF Past, Plan, Still
      <4> QED
        BY <3>1, <4>1 DEF Naming, Still
    <3>4. tx'[p] = tx[p] /\ UNCHANGED <<req[p], draft[p]>>
      BY <3>1 DEF Still
    <3> QED
      BY <3>1, <3>2, <3>3, <3>4, NamesQuiet
  <2> QED
    BY <2>1, NamesStep DEF Next
<1> QED
  BY <1>1, <1>2, Inductive, PTL DEF Spec
-----------------------------------------------------------------------------
(* The refinement.                                                          *)

LEMMA SameCardinality == \A S : Json!Cardinality(S) = Cardinality(S) /\ Rows!Cardinality(S) = Cardinality(S)
BY DEF Json!Cardinality, Rows!Cardinality, Cardinality

\* What the database does with a query depends on the dialect alone.
LEMMA SameQueries ==
  ASSUME Driver = "postgres"
  PROVE  /\ \A r : /\ Json!Native(r) <=> Rows!Native(r)
                   /\ Json!Untranslated(r) <=> Rows!Untranslated(r)
                   /\ Json!Selected(r) = Rows!Selected(r)
         /\ \A p, n : Json!Limit(p, n) = Rows!Limit(p, n)
         /\ \A o : Json!ReadBack(o) = o /\ Rows!ReadBack(o) = o /\ Rows!Stored(o) = o
         /\ \A p : Json!Row(p) = Table[req[p].id] /\ Rows!Row(p) = Table[req[p].id]
         /\ \A o : Json!NameTaken(o) <=> Rows!NameTaken(o)
<1>1. \A r : (Json!Native(r) <=> Rows!Native(r)) /\ (Json!Untranslated(r) <=> Rows!Untranslated(r))
  BY DEF Json!Native, Rows!Native, Json!Untranslated, Rows!Untranslated
<1>2. Json!Rows = Rows!Rows
  BY DEF Json!Rows, Rows!Rows
<1>3. \A o, r : Json!Matches(o, r) <=> Rows!Matches(o, r)
  BY DEF Json!Matches, Rows!Matches
<1>4. \A r : Json!Selected(r) = Rows!Selected(r)
  BY <1>1, <1>2, <1>3 DEF Json!Selected, Rows!Selected
<1>5. \A p, n : Json!Limit(p, n) = Rows!Limit(p, n)
  BY DEF Json!Limit, Rows!Limit
<1>6. \A o : Json!ReadBack(o) = o /\ Rows!ReadBack(o) = o /\ Rows!Stored(o) = o
  BY DEF Json!ReadBack, Rows!ReadBack, Rows!Stored
<1>7. \A p : Json!Row(p) = Table[req[p].id] /\ Rows!Row(p) = Table[req[p].id]
  BY DEF Json!Row, Rows!Row
<1>8. \A o : Json!NameTaken(o) <=> Rows!NameTaken(o)
  BY <1>2 DEF Json!NameTaken, Rows!NameTaken
<1> QED
  BY <1>1, <1>4, <1>5, <1>6, <1>7, <1>8

\* The statement of a goroutine outside a transaction is its stage.
LEMMA Staged ==
  ASSUME IInv, NEW p \in Procs
  PROVE  /\ pc[p] # "tx" => Stage[p] = pc[p]
         /\ pc[p] = "tx" /\ req[p].op = "Delete" => Stage[p] = "called"
         /\ pc[p] = "tx" /\ req[p].op # "Delete" => Stage[p] = "write"
         /\ \A s : s # "tx" /\ pc' = [pc EXCEPT ![p] = s] /\ (\A q \in Procs \ {p} : req'[q] = req[q])
              => Stage' = [Stage EXCEPT ![p] = s]
<1>1. DOMAIN pc = Procs
  BY DEF IInv, TypeOK
<1>2. ASSUME NEW s, s # "tx", pc' = [pc EXCEPT ![p] = s], \A q \in Procs \ {p} : req'[q] = req[q]
      PROVE  Stage' = [Stage EXCEPT ![p] = s]
  BY <1>1, <1>2 DEF Stage
<1> QED
  BY <1>2 DEF Stage

LEMMA SameTable == UNCHANGED rows => UNCHANGED Table
BY DEF Table, Reconstruct

LEMMA FinishMaps ==
  ASSUME IInv, NEW p \in Procs, NEW s, NEW S, NEW n, Json!Finish(p, s, S, n)
  PROVE  Rows!Finish(p, s, S, n)
<1>1. Stage' = [Stage EXCEPT ![p] = "done"]
  BY Staged DEF Json!Finish
<1> QED
  BY <1>1 DEF Json!Finish, Rows!Finish

LEMMA ProceedMaps ==
  ASSUME IInv, NEW p \in Procs, NEW s \in {"patched", "write"}, NEW o, Json!Proceed(p, s, o)
  PROVE  Rows!Proceed(p, s, o)
<1>1. Stage' = [Stage EXCEPT ![p] = s]
  BY Staged DEF Json!Proceed
<1> QED
  BY <1>1 DEF Json!Proceed, Rows!Proceed

LEMMA CallMaps ==
  ASSUME IInv, NEW p \in Procs, Call(p)
  PROVE  Rows!Call(p)
<1>1. PICK r \in Requests : Json!Callable(r) /\ req' = [req EXCEPT ![p] = r]
  BY DEF Call, Json!Call
<1>2. /\ pc[p] = "idle" /\ pc' = [pc EXCEPT ![p] = "called"]
      /\ UNCHANGED <<rows, clock, issued, draft, total, out, status>>
  BY DEF Call, Json!Call
<1>3. Rows!Callable(r)
  <2>1. Json!Drawn = Rows!Drawn
    BY DEF Json!Drawn, Rows!Drawn
  <2>2. \A q \in Procs : req[q].op = "Create" => (pc[q] = "called" <=> Stage[q] = "called")
    BY DEF Stage
  <2>3. {q \in Procs : pc[q] = "called" /\ req[q].op = "Create"}
          = {q \in Procs : Stage[q] = "called" /\ req[q].op = "Create"}
    BY <2>2
  <2> QED
    BY <1>1, <2>1, <2>3, SameCardinality DEF Json!Callable, Rows!Callable
<1>4. Stage[p] = "idle" /\ Stage' = [Stage EXCEPT ![p] = "called"]
  BY <1>1, <1>2, Staged DEF IInv, Types
<1> QED
  BY <1>1, <1>2, <1>3, <1>4, SameTable DEF Rows!Call

LEMMA ReadMaps ==
  ASSUME Driver = "postgres", IInv, NEW p \in Procs, Read(p)
  PROVE  Rows!Step(p)
<1>1. UNCHANGED Table
  BY SameTable DEF Read
<1>2. CASE Json!Get(p)
  <2>1. Stage[p] = "called"
    BY <1>2, Staged DEF Json!Get
  <2>2. Rows!Get(p)
    BY <1>1, <1>2, <2>1, FinishMaps, SameQueries DEF Json!Get, Rows!Get, Json!Fail, Rows!Fail
  <2> QED
    BY <2>2 DEF Rows!Step
<1>3. CASE Json!ReadForPatch(p)
  <2>1. Stage[p] = "called"
    BY <1>3, Staged DEF Json!ReadForPatch
  <2>2. \A f, c : Json!Overlay(f, c) = Rows!Overlay(f, c)
    BY DEF Json!Overlay, Rows!Overlay
  <2>3. Rows!ReadForPatch(p)
    BY <1>1, <1>3, <2>1, <2>2, FinishMaps, ProceedMaps, SameQueries
    DEF Json!ReadForPatch, Rows!ReadForPatch, Json!Fail, Rows!Fail
  <2> QED
    BY <2>3 DEF Rows!Step
<1>4. CASE Json!ReadForReplace(p)
  <2>1. pc[p] \in {"called", "patched"} /\ Stage[p] = pc[p]
    BY <1>4, Staged DEF Json!ReadForReplace
  <2>2. \A r : Json!Body(r) = Rows!Body(r)
    BY DEF Json!Body, Rows!Body, Json!Overlay, Rows!Overlay
  <2>3. Rows!ReadForReplace(p)
    BY <1>1, <1>4, <2>1, <2>2, FinishMaps, ProceedMaps, SameQueries
    DEF Json!ReadForReplace, Rows!ReadForReplace, Json!Fail, Rows!Fail, Json!CreatedOf, Rows!CreatedOf
  <2> QED
    BY <2>3 DEF Rows!Step
<1>5. CASE Json!Count(p)
  <2>1. Stage[p] = "called" /\ Stage' = [Stage EXCEPT ![p] = "counted"]
    BY <1>5, Staged DEF Json!Count
  <2>2. Rows!Count(p)
    BY <1>1, <1>5, <2>1, SameQueries, SameCardinality DEF Json!Count, Rows!Count
  <2> QED
    BY <2>2 DEF Rows!Step
<1>6. CASE Json!Select(p)
  <2>1. Stage[p] = "counted"
    BY <1>6, Staged DEF Json!Select
  <2>2. \A S, n : Json!Page(p, S, n) = Rows!Page(p, S, n)
    BY SameCardinality DEF Json!Page, Rows!Page, Json!PageLen, Rows!PageLen
  <2>3. PICK S : S = Json!Selected(req[p]) /\ S = Rows!Selected(req[p])
    BY SameQueries
  <2>4. PICK page \in Json!Page(p, S, Json!Limit(p, Cardinality(S))) :
          Json!Finish(p, "ok", {Json!ReadBack(o) : o \in page}, total[p])
    BY <1>6, <2>3, SameCardinality DEF Json!Select
  <2>5. page \in Rows!Page(p, S, Rows!Limit(p, Cardinality(S)))
    BY <2>2, <2>4, SameQueries
  <2>6. {Json!ReadBack(o) : o \in page} = {Rows!ReadBack(o) : o \in page}
    BY SameQueries
  <2>7. Rows!Finish(p, "ok", {Rows!ReadBack(o) : o \in page}, total[p])
    BY <2>4, <2>6, FinishMaps
  <2>8. Rows!Select(p)
    BY <1>1, <2>1, <2>3, <2>5, <2>7, SameCardinality DEF Rows!Select
  <2> QED
    BY <2>8 DEF Rows!Step
<1> QED
  BY <1>2, <1>3, <1>4, <1>5, <1>6 DEF Read

LEMMA OutsideMaps ==
  ASSUME IInv, NEW p \in Procs, Prepare(p) \/ StatementFails(p) \/ Return(p)
  PROVE  Rows!Step(p)
<1>1. CASE Prepare(p)
  <2>1. pc[p] = "called" /\ UNCHANGED Table /\ req[p].op = "Create"
    BY <1>1, SameTable DEF Prepare, Json!Prepare
  <2>2. \A r : Json!Body(r) = Rows!Body(r)
    BY DEF Json!Body, Rows!Body, Json!Overlay, Rows!Overlay
  <2>3. PICK i \in Ids \ issued :
          /\ issued' = issued \cup {i}
          /\ Json!Proceed(p, "write",
               [id |-> i, attrs |-> Json!Body(req[p]), created |-> clock, modified |-> clock])
    BY <1>1 DEF Prepare, Json!Prepare
  <2>4. Rows!Proceed(p, "write",
          [id |-> i, attrs |-> Rows!Body(req[p]), created |-> clock, modified |-> clock])
    BY <2>2, <2>3, ProceedMaps
  <2>5. Stage[p] = "called"
    BY <2>1, Staged
  <2> QED
    BY <2>1, <2>3, <2>4, <2>5 DEF Rows!Prepare, Rows!Step
<1>2. CASE StatementFails(p)
  <2>1. UNCHANGED Table /\ Stage[p] = pc[p]
    BY <1>2, SameTable, Staged DEF StatementFails, Json!StatementFails
  <2>2. Rows!StatementFails(p)
    BY <1>2, <2>1, FinishMaps
    DEF StatementFails, Json!StatementFails, Rows!StatementFails, Json!Fail, Rows!Fail
  <2> QED
    BY <2>2 DEF Rows!Step
<1>3. CASE Return(p)
  <2>1. UNCHANGED Table /\ Stage[p] = pc[p]
    BY <1>3, SameTable, Staged DEF Return, Json!Return
  <2>2. Stage' = [Stage EXCEPT ![p] = "idle"]
    BY <1>3, Staged DEF Return, Json!Return, IInv, Types
  <2>3. Rows!Return(p)
    BY <1>3, <2>1, <2>2 DEF Return, Json!Return, Rows!Return
  <2> QED
    BY <2>3 DEF Rows!Step
<1> QED
  BY <1>1, <1>2, <1>3
\* A transaction that goes on is not seen.
LEMMA Unseen ==
  ASSUME IInv, NEW p \in Procs,
         Begin(p) \/ (pc[p] = "tx" /\ step' = [step EXCEPT ![p] = @ + 1] /\ UNCHANGED <<rows, callVars>>)
  PROVE  UNCHANGED Rows!vars
<1>1. /\ UNCHANGED <<rows, clock, issued, req, draft, total, out, status>>
  BY DEF Begin, callVars
<1>2. UNCHANGED Stage
  <2>1. CASE Begin(p)
    <3>1. /\ pc' = [pc EXCEPT ![p] = "tx"]
          /\ \/ pc[p] = "write" /\ req[p].op \in Writes
             \/ pc[p] = "called" /\ req[p].op = "Delete"
      BY <2>1 DEF Begin, IInv, Locals
    <3>2. \A q \in Procs : Stage'[q] = Stage[q]
      BY <1>1, <3>1 DEF Stage, IInv, TypeOK, Writes
    <3> QED
      BY <3>2 DEF Stage
  <2>2. CASE UNCHANGED callVars
    BY <2>2 DEF callVars, Stage
  <2> QED
    BY <2>1, <2>2
<1> QED
  BY <1>1, <1>2, SameTable DEF Rows!vars

LEMMA RollbackMaps ==
  ASSUME IInv, NEW p \in Procs, NEW s, Rollback(p, s)
  PROVE  Rows!Fail(p, s)
BY FinishMaps, SameTable DEF Rollback, End, Rows!Fail

\* The part of the resource a transaction puts in every table is what the joined
\* SELECT returns.
LEMMA Together ==
  ASSUME PrimaryWritten, NEW o \in Json!Resources, \A t \in Tables : rows'[t][o.id] = Part(o, t)
  PROVE  Table'[o.id] = o
<1> DEFINE i == o.id
<1>1. /\ o.attrs \in [Attrs -> Values \cup {Nil}] /\ i \in Ids
      /\ o = [id |-> o.id, attrs |-> o.attrs, created |-> o.created, modified |-> o.modified]
  BY DEF Json!Resources
<1>2. rows'[Primary][i] = [attrs |-> [a \in {b \in Attrs : Home[b] = Primary} |-> o.attrs[a]],
                           created |-> o.created, modified |-> o.modified]
  BY JoinsAre DEF Part
<1>3. rows'[Primary][i] # Nil
  BY Parts, JoinsAre
<1>4. ASSUME NEW a \in Attrs
      PROVE  (IF Home[a] = Primary THEN rows'[Primary][i].attrs[a]
              ELSE IF rows'[Home[a]][i] = Nil THEN Nil ELSE rows'[Home[a]][i][a]) = o.attrs[a]
  <2>1. CASE Home[a] = Primary
    BY <1>2, <2>1
  <2>2. CASE Home[a] # Primary
    <3>1. Home[a] \in Tables
      BY HomeAssumption
    <3>2. rows'[Home[a]][i] = Part(o, Home[a]) /\ Part(o, Home[a]) # Nil
      BY <3>1, Parts
    <3>3. Part(o, Home[a]) = [c \in {b \in Attrs : Home[b] = Home[a]} |-> o.attrs[c]]
      BY <2>2 DEF Part
    <3> QED
      BY <2>2, <3>2, <3>3
  <2> QED
    BY <2>1, <2>2
<1>5. Reconstruct(i)' = [id |-> i, attrs |-> [a \in Attrs |-> o.attrs[a]],
                         created |-> o.created, modified |-> o.modified]
  BY <1>2, <1>4 DEF Reconstruct
<1>6. [a \in Attrs |-> o.attrs[a]] = o.attrs
  BY <1>1
<1>7. Reconstruct(i)' = o
  BY <1>1, <1>5, <1>6
<1>8. Table'[i] = Reconstruct(i)'
  BY <1>1, <1>3 DEF Table
<1> QED
  BY <1>7, <1>8

LEMMA CommitMaps ==
  ASSUME PrimaryWritten, Driver = "postgres", IInv, NEW p \in Procs, Names(p), Commit(p)
  PROVE  Rows!Step(p)
<1>1. PICK i \in Ids : i = Target(p)
  BY Inside DEF Commit, InTx
<1>2. /\ pc[p] = "tx" /\ Past(p) = Tables
      /\ \A t \in Tables, j \in Ids \ {i} : rows'[t][j] = rows[t][j]
      /\ req[p].op \in Writes => \A t \in Tables : rows'[t][i] = Part(draft[p], t) /\ Locks(p, t, i)
      /\ req[p].op = "Delete" => rows[Primary][i] # Nil /\ rows'[Primary][i] = Nil
  BY <1>1, Committed
<1>3. \/ Json!Finish(p, "ok", IF req[p].op = "Delete" THEN {} ELSE {draft[p]}, 0)
      \/ Json!Finish(p, "internal", {}, 0)
  BY DEF Commit, End
<1>4. \/ Rows!Finish(p, "ok", IF req[p].op = "Delete" THEN {} ELSE {draft[p]}, 0)
      \/ Rows!Finish(p, "internal", {}, 0)
  BY <1>3, FinishMaps
<1>5. /\ \/ req[p].op = "Delete" /\ draft[p] = Nil
         \/ req[p].op \in Writes /\ draft[p] \in Json!Resources
      /\ Updating(p)
      /\ req[p].op # "Create" => i = req[p].id
      /\ req[p].op \in Writes => draft[p].id = i
  BY <1>1, <1>2, Inside
<1>6. Primary \in Tables /\ \A a \in Attrs : Home[a] \in Tables
  BY JoinsAre, HomeAssumption
<1>7. \A j \in Ids \ {i} : Table'[j] = Table[j]
  <2> SUFFICES ASSUME NEW j \in Ids \ {i} PROVE Table'[j] = Table[j]
    OBVIOUS
  <2>1. \A t \in Tables : rows'[t][j] = rows[t][j]
    BY <1>2
  <2>2. Reconstruct(j)' = Reconstruct(j)
    BY <1>6, <2>1 DEF Reconstruct
  <2> QED
    BY <1>6, <2>1, <2>2 DEF Table
<1>8. Table = [j \in Ids |-> Table[j]] /\ Table' = [j \in Ids |-> Table'[j]]
  BY DEF Table
<1>9. CASE req[p].op = "Delete"
  <2>1. Table[i] # Nil /\ Table'[i] = Nil
    <3>1. Table[i] # Nil
      BY <1>2, <1>9, Rebuilt DEF IInv
    <3> QED
      BY <1>2, <1>9, <3>1 DEF Table
  <2>2. Table' = [Table EXCEPT ![i] = Nil]
    BY <1>7, <1>8, <2>1
  <2>3. Stage[p] = "called" /\ Rows!Row(p) # Nil
    BY <1>2, <1>5, <1>9, <2>1, Staged, SameQueries
  <2>4. Rows!Wrote(p, {})
    BY <1>4, <1>9 DEF Rows!Wrote
  <2>5. Rows!Delete(p)
    BY <1>5, <1>9, <2>2, <2>3, <2>4 DEF Rows!Delete
  <2> QED
    BY <2>5 DEF Rows!Step
<1>10. CASE req[p].op \in Writes
  <2>1. PICK o \in Json!Resources : o = draft[p] /\ o.id = i
    BY <1>5, <1>10 DEF Writes
  <2>2. Table'[i] = o
    BY <1>2, <1>10, <2>1, Together
  <2>3. Table' = [Table EXCEPT ![draft[p].id] = Rows!Stored(draft[p])]
    BY <1>7, <1>8, <2>1, <2>2, SameQueries
  <2>4. Rows!Wrote(p, {draft[p]})
    BY <1>4, <1>10 DEF Rows!Wrote, Writes
  <2>5. Rows!Write(p)
    BY <2>3, <2>4 DEF Rows!Write
  <2>6. ~ Rows!NameTaken(draft[p])
    <3>1. SUFFICES ASSUME Json!NameTaken(o) PROVE FALSE
      BY <2>1, SameQueries
    <3>2. PICK j \in Ids \ {o.id} : /\ rows[Primary][j] # Nil
                                    /\ rows[Primary][j].attrs[UserName] = o.attrs[UserName]
      BY <3>1, Taken DEF IInv
    <3>3. UserName # Nil /\ o.attrs[UserName] # Nil
      BY <3>1, Taken DEF IInv
    <3>4. Naming(p)
      BY <1>2, <1>6, <1>10, <2>1, <3>3 DEF Naming
    <3> QED
      BY <1>1, <2>1, <3>2, <3>4 DEF Names, Bears
  <2>7. Stage[p] = "write"
    BY <1>2, <1>10, Staged DEF Writes
  <2>8. CASE req[p].op = "Create"
    <3>1. Rows!Insert(p)
      BY <2>5, <2>6, <2>7, <2>8 DEF Rows!Insert
    <3> QED
      BY <3>1 DEF Rows!Step
  <2>9. CASE req[p].op \in {"Replace", "Patch"}
    <3>1. rows[Primary][i] # Nil
      BY <1>1, <1>2, <1>5, <1>6, <1>10, <2>9 DEF Updating, Stored
    <3>2. Table[i] # Nil
      BY <3>1, Rebuilt DEF IInv
    <3>3. ~ Rows!NoneAffected(p)
      BY <1>5, <2>9, <3>2, SameQueries DEF Rows!NoneAffected
    <3>4. Rows!Update(p)
      BY <2>5, <2>6, <2>7, <2>9, <3>3 DEF Rows!Update
    <3> QED
      BY <3>4 DEF Rows!Step
  <2> QED
    BY <1>10, <2>8, <2>9 DEF Writes
<1> QED
  BY <1>5, <1>9, <1>10

LEMMA TxMaps ==
  ASSUME PrimaryWritten, Driver = "postgres", IInv, NEW p \in Procs, Names(p), Work(p) \/ Abort(p),
         ~ (Prepare(p) \/ Read(p) \/ Return(p))
  PROVE  Rows!Step(p) \/ UNCHANGED Rows!vars
<1>1. CASE Begin(p)
  BY <1>1, Unseen
<1>2. CASE Abort(p) \/ DeadlockVictim(p)
  <2>1. pc[p] = "tx" /\ Rollback(p, "internal")
    BY <1>2 DEF Abort, InTx, DeadlockVictim, Blockers, More
  <2>2. Stage[p] \in {"called", "write"}
    BY <2>1, Staged
  <2>3. Rows!StatementFails(p)
    BY <2>1, <2>2, RollbackMaps DEF Rows!StatementFails
  <2> QED
    BY <2>3 DEF Rows!Step
<1>3. CASE Commit(p)
  BY <1>3, CommitMaps
<1>4. CASE InsertPrimary(p)
  <2>1. Runs(p, {"Create"}, Primary)
    BY <1>4 DEF InsertPrimary
  <2>2. pc[p] = "tx" /\ req[p].op = "Create"
    BY <2>1, Unlocked
  <2>3. CASE Json!NameTaken(draft[p])
    <3>1. Rows!Fail(p, "conflict")
      BY <1>4, <2>3, RollbackMaps DEF InsertPrimary
    <3>2. Rows!NameTaken(draft[p]) /\ Stage[p] = "write"
      BY <2>2, <2>3, Staged, SameQueries
    <3>3. Rows!Insert(p)
      BY <2>2, <3>1, <3>2 DEF Rows!Insert
    <3> QED
      BY <3>3 DEF Rows!Step
  <2>4. CASE ~ Json!NameTaken(draft[p])
    <3>1. step' = [step EXCEPT ![p] = @ + 1] /\ UNCHANGED <<rows, callVars>>
      BY <1>4, <2>4 DEF InsertPrimary, Wrote
    <3> QED
      BY <2>2, <3>1, Unseen
  <2> QED
    BY <2>3, <2>4
<1>5. CASE LockRow(p) \/ UpdatePrimary(p)
  <2>1. Runs(p, {"Replace", "Patch"}, Primary)
    BY <1>5 DEF LockRow, UpdatePrimary
  <2>2. pc[p] = "tx" /\ req[p].op \in {"Replace", "Patch"}
    BY <2>1, Unlocked
  <2>3. Stage[p] = "write" /\ Target(p) = req[p].id /\ Target(p) \in Ids
    BY <2>2, Staged, Inside
  <2>4. NoneAffected(p) <=> Rows!NoneAffected(p)
    <3>1. NoneAffected(p) <=> rows[Primary][Target(p)] = Nil
      BY DEF NoneAffected, Stored
    <3>2. Rows!NoneAffected(p) <=> Table[Target(p)] = Nil
      BY <2>3, SameQueries DEF Rows!NoneAffected
    <3>3. Table[Target(p)] # Nil <=> rows[Primary][Target(p)] # Nil
      BY <2>3, Rebuilt DEF IInv
    <3> QED
      BY <3>1, <3>2, <3>3
  <2>5. CASE LockRow(p) /\ NoneAffected(p)
    <3>1. Rows!Fail(p, "notFound")
      BY <2>5, RollbackMaps DEF LockRow
    <3>2. Rows!Update(p)
      BY <2>2, <2>3, <2>4, <2>5, <3>1 DEF Rows!Update
    <3> QED
      BY <3>2 DEF Rows!Step
  <2>6. CASE LockRow(p) /\ ~ NoneAffected(p)
    <3>1. UNCHANGED <<rows, callVars>>
      BY <2>6 DEF LockRow
    <3>2. UNCHANGED Stage
      BY <3>1 DEF callVars, Stage
    <3> QED
      BY <3>1, <3>2, SameTable DEF callVars, Rows!vars
  <2>7. CASE UpdatePrimary(p) /\ Json!NameTaken(draft[p])
    <3>1. Rows!Fail(p, "conflict")
      BY <2>7, RollbackMaps DEF UpdatePrimary
    <3>2. Rows!NameTaken(draft[p])
      BY <2>7, SameQueries
    <3>3. ~ NoneAffected(p)
      <4>1. Updating(p)
        BY <2>2, Inside
      <4> QED
        BY <2>2, <2>7, <4>1 DEF UpdatePrimary, NoneAffected, Updating
    <3>4. Rows!Update(p)
      BY <2>2, <2>3, <2>4, <3>1, <3>2, <3>3 DEF Rows!Update
    <3> QED
      BY <3>4 DEF Rows!Step
  <2>8. CASE UpdatePrimary(p) /\ ~ Json!NameTaken(draft[p])
    <3>1. step' = [step EXCEPT ![p] = @ + 1] /\ UNCHANGED <<rows, callVars>>
      BY <2>8 DEF UpdatePrimary, Wrote
    <3> QED
      BY <2>2, <3>1, Unseen
  <2> QED
    BY <1>5, <2>5, <2>6, <2>7, <2>8
<1>6. CASE WriteJoin(p)
  <2>1. step' = [step EXCEPT ![p] = @ + 1] /\ UNCHANGED <<rows, callVars>> /\ pc[p] = "tx"
    BY <1>6 DEF WriteJoin, Wrote, Runs, More, InTx
  <2> QED
    BY <2>1, Unseen
<1>7. CASE DeleteRow(p)
  <2>1. PICK t \in Tables :
          /\ Runs(p, {"Delete"}, t)
          /\ IF t = Primary /\ Stored(p, t) = Nil THEN Rollback(p, "notFound")
             ELSE Wrote(p, Stored(p, t) # Nil /\ ~ Skips(p), Nil)
    BY <1>7 DEF DeleteRow
  <2>2. pc[p] = "tx" /\ req[p].op = "Delete"
    BY <2>1, Unlocked
  <2>3. Stage[p] = "called" /\ Target(p) = req[p].id /\ Target(p) \in Ids
    BY <2>2, Staged, Inside
  <2>4. CASE t = Primary /\ Stored(p, t) = Nil
    <3>1. Rows!Fail(p, "notFound")
      BY <2>1, <2>4, RollbackMaps
    <3>2. Rows!Row(p) = Nil
      BY <2>3, <2>4, Rebuilt, SameQueries DEF Stored, IInv
    <3>3. Rows!Delete(p)
      BY <2>2, <2>3, <3>1, <3>2 DEF Rows!Delete
    <3> QED
      BY <3>3 DEF Rows!Step
  <2>5. CASE ~ (t = Primary /\ Stored(p, t) = Nil)
    <3>1. step' = [step EXCEPT ![p] = @ + 1] /\ UNCHANGED <<rows, callVars>>
      BY <2>1, <2>5 DEF Wrote
    <3> QED
      BY <2>2, <3>1, Unseen
  <2> QED
    BY <2>4, <2>5
<1> QED
  BY <1>1, <1>2, <1>3, <1>4, <1>5, <1>6, <1>7 DEF Work

-----------------------------------------------------------------------------

\* PostgreSQL's column mode implements SqlStore when the primary table has mapped
\* columns: what Create, Replace, Patch and Delete do to several tables happens at
\* one point, their COMMIT, and the joined SELECT of Get and List sees all of it
\* or nothing.
THEOREM Atomically ==
  ASSUME PrimaryWritten, Driver = "postgres"
  PROVE  Spec => OneRow
<1>1. Init => Rows!Init
  <2> SUFFICES ASSUME Init PROVE Rows!Init
    OBVIOUS
  <2>1. Table = [i \in Ids |-> Nil]
    BY JoinsAre DEF Init, Table
  <2>2. Stage = [p \in Procs |-> "idle"]
    BY DEF Init, Stage
  <2> QED
    BY <2>1, <2>2 DEF Init, Rows!Init
<1>2. IInv /\ Owned /\ [Next]_vars => [Rows!Next]_(Rows!vars)
  <2> SUFFICES ASSUME IInv, Owned, [Next]_vars PROVE Rows!Next \/ UNCHANGED Rows!vars
    OBVIOUS
  <2>1. CASE UNCHANGED vars
    <3>1. UNCHANGED Stage
      BY <2>1 DEF vars, callVars, Stage
    <3> QED
      BY <2>1, <3>1, SameTable DEF vars, callVars, Rows!vars
  <2>2. CASE Tick
    <3>1. UNCHANGED Stage
      BY <2>2 DEF Tick, Json!Tick, Stage
    <3>2. Rows!Tick
      BY <2>2, <3>1, SameTable DEF Tick, Json!Tick, Rows!Tick
    <3> QED
      BY <3>2 DEF Rows!Next
  <2>3. ASSUME NEW p \in Procs, Call(p) \/ Work(p) \/ StatementFails(p) \/ Abort(p)
        PROVE  Rows!Next \/ UNCHANGED Rows!vars
    <3>1. CASE Call(p)
      BY <3>1, CallMaps DEF Rows!Next
    <3>2. CASE Prepare(p) \/ Read(p) \/ Return(p) \/ StatementFails(p)
      BY <3>2, OutsideMaps, ReadMaps DEF Rows!Next
    <3>3. CASE (Work(p) \/ Abort(p)) /\ ~ (Prepare(p) \/ Read(p) \/ Return(p))
      BY <3>3, TxMaps DEF Rows!Next, Owned
    <3> QED
      BY <2>3, <3>1, <3>2, <3>3
  <2> QED
    BY <2>1, <2>2, <2>3 DEF Next
<1>3. Spec => [](IInv /\ Owned)
  BY OwnNames
<1> QED
  BY <1>1, <1>2, <1>3, PTL DEF Spec, OneRow, Rows!Spec

-----------------------------------------------------------------------------
(* What SqlStoreProofs proves of every store whose statements are atomic     *)
(* holds of the joined rows.                                               *)

Promise == INSTANCE SqlStoreProofs WITH
             table <- Table, pc <- Stage, Columns <- Attrs \ Extensions, FallbackLimit <- 0,
             PerSecond <- 1, Dialect <- "columns"

\* It is about the same actions as OneRow.
LEMMA SameSpec == OneRow <=> Promise!Spec
<1>1. Rows!Init <=> Promise!Init
  BY DEF Rows!Init, Promise!Init
<1>2. \A S : Rows!Cardinality(S) = Promise!Cardinality(S)
  BY DEF Rows!Cardinality, Promise!Cardinality
<1>3. Rows!Tick <=> Promise!Tick
  BY DEF Rows!Tick, Promise!Tick
<1>4. ASSUME NEW p PROVE Rows!Call(p) <=> Promise!Call(p)
  BY <1>2 DEF Rows!Call, Promise!Call, Rows!Callable, Promise!Callable, Rows!Drawn, Promise!Drawn
<1>5. ASSUME NEW p PROVE Rows!Step(p) <=> Promise!Step(p)
  <2>1. Rows!StatementFails(p) <=> Promise!StatementFails(p)
    BY DEF Rows!StatementFails, Promise!StatementFails, Rows!Fail, Promise!Fail, Rows!Finish,
           Promise!Finish
  <2>2. Rows!Prepare(p) <=> Promise!Prepare(p)
    BY DEF Rows!Prepare, Promise!Prepare, Rows!Proceed, Promise!Proceed, Rows!Body, Promise!Body,
           Rows!Overlay, Promise!Overlay
  <2>3. Rows!Insert(p) <=> Promise!Insert(p)
    BY DEF Rows!Insert, Promise!Insert, Rows!Fail, Promise!Fail, Rows!Finish, Promise!Finish,
           Rows!NameTaken, Promise!NameTaken, Rows!Rows, Promise!Rows, Rows!Write, Promise!Write,
           Rows!Wrote, Promise!Wrote, Rows!Stored, Promise!Stored, Rows!Truncate, Promise!Truncate
  <2>4. Rows!Get(p) <=> Promise!Get(p)
    BY DEF Rows!Get, Promise!Get, Rows!Fail, Promise!Fail, Rows!Finish, Promise!Finish, Rows!Row,
           Promise!Row, Rows!ReadBack, Promise!ReadBack
  <2>5. Rows!ReadForPatch(p) <=> Promise!ReadForPatch(p)
    BY DEF Rows!ReadForPatch, Promise!ReadForPatch, Rows!Fail, Promise!Fail, Rows!Finish,
           Promise!Finish, Rows!Row, Promise!Row, Rows!ReadBack, Promise!ReadBack, Rows!Proceed,
           Promise!Proceed, Rows!Overlay, Promise!Overlay
  <2>6. Rows!ReadForReplace(p) <=> Promise!ReadForReplace(p)
    BY DEF Rows!ReadForReplace, Promise!ReadForReplace, Rows!Fail, Promise!Fail, Rows!Finish,
           Promise!Finish, Rows!Row, Promise!Row, Rows!ReadBack, Promise!ReadBack, Rows!Proceed,
           Promise!Proceed, Rows!Overlay, Promise!Overlay, Rows!Body, Promise!Body, Rows!CreatedOf,
           Promise!CreatedOf
  <2>7. Rows!Update(p) <=> Promise!Update(p)
    BY DEF Rows!Update, Promise!Update, Rows!Fail, Promise!Fail, Rows!Finish, Promise!Finish,
           Rows!Row, Promise!Row, Rows!NoneAffected, Promise!NoneAffected, Rows!NameTaken,
           Promise!NameTaken, Rows!Rows, Promise!Rows, Rows!Write, Promise!Write, Rows!Wrote,
           Promise!Wrote, Rows!Stored, Promise!Stored, Rows!Truncate, Promise!Truncate
  <2>8. Rows!Delete(p) <=> Promise!Delete(p)
    BY DEF Rows!Delete, Promise!Delete, Rows!Fail, Promise!Fail, Rows!Finish, Promise!Finish,
           Rows!Row, Promise!Row, Rows!Wrote, Promise!Wrote
  <2>9. Rows!Count(p) <=> Promise!Count(p)
    BY <1>2 DEF Rows!Count, Promise!Count, Rows!Native, Promise!Native, Rows!Untranslated,
           Promise!Untranslated, Rows!Selected, Promise!Selected, Rows!Rows, Promise!Rows,
           Rows!Matches, Promise!Matches
  <2>10. Rows!Select(p) <=> Promise!Select(p)
    BY <1>2 DEF Rows!Select, Promise!Select, Rows!Native, Promise!Native, Rows!Selected,
           Promise!Selected, Rows!Rows, Promise!Rows, Rows!Matches, Promise!Matches, Rows!Page,
           Promise!Page, Rows!PageLen, Promise!PageLen, Rows!Limit, Promise!Limit, Rows!Finish,
           Promise!Finish, Rows!ReadBack, Promise!ReadBack
  <2>11. Rows!Fallback(p) <=> Promise!Fallback(p)
    BY <1>2 DEF Rows!Fallback, Promise!Fallback, Rows!Untranslated, Promise!Untranslated,
           Rows!Native, Promise!Native, Rows!Rows, Promise!Rows, Rows!Matches, Promise!Matches,
           Rows!ClientFilter, Promise!ClientFilter, Rows!Page, Promise!Page, Rows!PageLen,
           Promise!PageLen, Rows!Finish, Promise!Finish
  <2>12. Rows!Return(p) <=> Promise!Return(p)
    BY DEF Rows!Return, Promise!Return
  <2> QED
    BY <2>1, <2>2, <2>3, <2>4, <2>5, <2>6, <2>7, <2>8, <2>9, <2>10, <2>11, <2>12 DEF Rows!Step, Promise!Step
<1>6. [Rows!Next]_(Rows!vars) <=> [Promise!Next]_(Promise!vars)
  BY <1>3, <1>4, <1>5 DEF Rows!Next, Promise!Next, Rows!vars, Promise!vars
<1> QED
  BY <1>1, <1>6, PTL DEF OneRow, Rows!Spec, Promise!Spec

\* Its assumptions are among those of ColumnStore.
LEMMA Assumed ==
  /\ UserName \in Attrs \cup {Nil} /\ Attrs \ Extensions \subseteq Attrs
  /\ Extensions \subseteq Attrs \ (Attrs \ Extensions)
  /\ Requests \subseteq Promise!RequestType
  /\ \A r \in Requests : r.op \in {"Get", "Replace", "Patch", "Delete"} => r.id # Nil
  /\ "columns" \in {"postgres", "mysql", "mongodb", "columns"}
  /\ 0 \in Nat /\ 1 \in Nat \ {0} /\ MaxClock \in Nat
  /\ Promise!IsFiniteSet(Ids)
  /\ Nil \notin Procs \cup Ids \cup Attrs \cup Values \cup Requests \cup Promise!Resources \cup Promise!Times
<1>1. Requests \subseteq Promise!RequestType
  BY CallsAssumption DEF Promise!RequestType, Json!RequestType
<1>2. Promise!IsFiniteSet(Ids)
  BY IdsAssumption DEF IsFiniteSet, Promise!IsFiniteSet
<1>3. Promise!Resources = Json!Resources /\ Promise!Times = Json!Times
  BY DEF Promise!Resources, Json!Resources, Promise!Times, Json!Times
<1>4. Nil \notin Procs \cup Ids \cup Attrs \cup Values \cup Requests \cup Promise!Resources \cup Promise!Times
  BY <1>3, NilAssumption
<1> QED
  BY <1>1, <1>2, <1>4, CallsAssumption

\* Only a call that names a resource is answered with notFound.
LEMMA NotFoundNames ==
  ASSUME IInv, Rows!Next, NEW p \in Procs, status[p] # "notFound", status'[p] = "notFound"
  PROVE  req[p].id \in Ids
<1>1. status \in [Procs -> Outcomes]
  BY DEF IInv, TypeOK, Outcomes
<1>2. PICK q \in Procs : Rows!Step(q)
  BY DEF Rows!Next, Rows!Tick, Rows!Call
<1>3. ASSUME NEW s \in Outcomes, NEW S, NEW n, Rows!Finish(q, s, S, n)
      PROVE  p = q /\ s = "notFound"
  BY <1>1, <1>3 DEF Rows!Finish
<1>4. ASSUME NEW S, Rows!Wrote(q, S)
      PROVE  FALSE
  BY <1>3, <1>4 DEF Rows!Wrote, Outcomes
<1>5. ASSUME NEW s \in Outcomes, Rows!Fail(q, s)
      PROVE  p = q /\ s = "notFound"
  BY <1>3, <1>5 DEF Rows!Fail
<1>6. Stage[q] \in {"called", "patched", "write"} => pc[q] # "idle" /\ req[q] \in Requests
  BY DEF IInv, Locals, Stage
<1>7. Stage[q] = "patched" => req[q].op = "Patch"
  BY DEF IInv, Locals, Stage
<1>8. ~ Rows!StatementFails(q) /\ ~ Rows!Insert(q) /\ ~ Rows!Prepare(q) /\ ~ Rows!Count(q)
  BY <1>4, <1>5 DEF Rows!StatementFails, Rows!Insert, Rows!Write, Rows!Prepare, Rows!Proceed, Rows!Count,
                    Outcomes
<1>9. ~ Rows!Select(q) /\ ~ Rows!Fallback(q) /\ ~ Rows!Return(q)
  BY <1>1, <1>3 DEF Rows!Select, Rows!Fallback, Rows!Return, Outcomes
<1>10. /\ p = q /\ Stage[q] \in {"called", "patched", "write"}
       /\ req[q].op \in {"Get", "Replace", "Patch", "Delete"}
  <2>1. CASE Rows!Get(q) \/ Rows!Delete(q)
    BY <1>3, <1>4, <1>5, <2>1 DEF Rows!Get, Rows!Delete, Outcomes
  <2>2. CASE Rows!ReadForPatch(q) \/ Rows!ReadForReplace(q)
    BY <1>5, <1>7, <2>2 DEF Rows!ReadForPatch, Rows!ReadForReplace, Rows!Proceed, Outcomes
  <2>3. CASE Rows!Update(q)
    BY <1>4, <1>5, <2>3 DEF Rows!Update, Rows!Write, Outcomes
  <2> QED
    BY <1>2, <1>8, <1>9, <2>1, <2>2, <2>3 DEF Rows!Step
<1> QED
  BY <1>6, <1>10, CallsAssumption DEF Json!RequestType

\* In PostgreSQL's column mode ErrNotFound is never returned for a resource that has
\* its row when the statement, or the COMMIT that decides, is over; MySQL's is the
\* finding of column_mysql.
THEOREM ColumnNotFound ==
  ASSUME PrimaryWritten, Driver = "postgres"
  PROVE  Spec => NotFoundIsTrue
<1>1. "columns" # "mysql"
  OBVIOUS
<1>2. Promise!Spec => Promise!NotFoundIsTrue
  BY <1>1, Assumed, Promise!TrueNotFound
<1> DEFINE A == \A p \in Procs : status[p] # "notFound" /\ status'[p] = "notFound" =>
                  Table[req[p].id] = Nil
           B == \A p \in Procs : status[p] # "notFound" /\ status'[p] = "notFound" =>
                  rows[Primary][req[p].id] = Nil
<1>3. Promise!NotFoundIsTrue <=> [][A]_(Promise!vars)
  BY PTL DEF Promise!NotFoundIsTrue
<1>4. IInv /\ [Rows!Next]_(Rows!vars) /\ [A]_(Promise!vars) => [B]_vars
  <2> SUFFICES ASSUME IInv, [Rows!Next]_(Rows!vars), [A]_(Promise!vars), NEW p \in Procs,
                      status[p] # "notFound", status'[p] = "notFound"
               PROVE  rows[Primary][req[p].id] = Nil
    OBVIOUS
  <2>1. Rows!Next
    BY DEF Rows!vars
  <2>2. req[p].id \in Ids
    BY <2>1, NotFoundNames
  <2>3. Table[req[p].id] = Nil
    BY DEF Promise!vars
  <2> QED
    BY <2>2, <2>3, Rebuilt DEF IInv
<1> QED
  BY <1>2, <1>3, <1>4, SameSpec, Inductive, Atomically, PTL DEF NotFoundIsTrue, OneRow, Rows!Spec

\* In PostgreSQL's column mode a deleted resource stays deleted: the upserts of a
\* Replace or Patch that read it do not bring it back.
THEOREM ColumnDeleted ==
  ASSUME PrimaryWritten, Driver = "postgres"
  PROVE  Spec => Promise!GoneForGood
<1>1. Promise!Spec => Promise!GoneForGood
  BY Assumed, Promise!Deleted
<1> QED
  BY <1>1, SameSpec, Atomically, PTL

\* In PostgreSQL's column mode a resource has one creation time, wherever it is seen:
\* in its rows, in answers, and in what a transaction is about to write.
THEOREM ColumnCreation ==
  ASSUME PrimaryWritten, Driver = "postgres"
  PROVE  Spec => []Promise!SameCreated
<1>1. "columns" # "mongodb"
  OBVIOUS
<1>2. Promise!Spec => []Promise!SameCreated
  BY <1>1, Assumed, Promise!OneCreation
<1> QED
  BY <1>2, SameSpec, Atomically, PTL

=============================================================================
