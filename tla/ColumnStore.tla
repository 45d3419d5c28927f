----------------------------- MODULE ColumnStore -----------------------------
(***************************************************************************)
(* Column mode of connector/postgres and connector/mysql: a resource is a  *)
(* row of a primary table and a row in each joined table.  Create, Replace *)
(* and Delete issue one statement per table in a transaction; what they    *)
(* read before it (and Get and List) are single statements, as in SqlStore.*)
(* pc[p] is as there, with "tx" inside a transaction.                      *)
(* The database is external: READ COMMITTED, row locks held to the end of  *)
(* the transaction, UNIQUE, and a deadlock detector.  An UPDATE locks its  *)
(* row, then comes to the UNIQUE index and may have to wait there.  The    *)
(* tables start empty, and have no foreign key constraint.                 *)
(***************************************************************************)
EXTENDS Integers, Sequences, FiniteSets, SequencesExt

CONSTANTS
  Procs, Ids, Attrs, Values, UserName, Requests, MaxClock, Nil,
  Extensions,     \* attributes of extension schemas, mapped but not filtered
  Primary,        \* the primary table
  Joins,          \* the joined tables with a ForeignKey and columns, in their order
  DeleteJoin,     \* those whose rows Delete removes
  Home,           \* the table an attribute is mapped to
  PrimaryWritten, \* the primary table has mapped columns besides its id
  Driver,         \* "postgres" or "mysql"
  MaxConns        \* connections in the pool

JoinTables == {Joins[k] : k \in DOMAIN Joins}

Tables == {Primary} \cup JoinTables

ASSUME JoinsAssumption == Joins \in Seq(JoinTables) /\ IsInjective(Joins) /\ Primary \notin JoinTables
ASSUME HomeAssumption ==
  /\ Home \in [Attrs -> Tables]
  /\ DeleteJoin \subseteq JoinTables
  /\ UserName # Nil => Home[UserName] = Primary
  /\ PrimaryWritten \in BOOLEAN
  /\ ~ PrimaryWritten => Primary \notin {Home[a] : a \in Attrs}
ASSUME PoolAssumption == MaxConns \in Nat \ {0} /\ Driver \in {"postgres", "mysql"}

VARIABLES
  rows,   \* table -> id -> row: what is committed
  tx,     \* per goroutine, <<table, id>> -> row: what its transaction has written,
          \* Nil for a row it has deleted or only locked yet
  step,   \* per goroutine, index of the next statement of its transaction
  clock, issued, pc, req, draft, total, out, status

callVars == <<clock, issued, pc, req, draft, total, out, status>>
vars == <<rows, tx, step, callVars>>

\* Mutant: every table gets the columns of all of them.
Unsplit(o, t) ==
  IF t # Primary THEN o.attrs
  ELSE [attrs |-> o.attrs, created |-> o.created, modified |-> o.modified]

\* The columns of a resource in table t (splitByTable).
Part(o, t) ==
  LET cols == [a \in {b \in Attrs : Home[b] = t} |-> o.attrs[a]]
  IN  IF t # Primary THEN cols
      ELSE IF PrimaryWritten THEN [attrs |-> cols, created |-> o.created, modified |-> o.modified]
      ELSE [attrs |-> cols, created |-> Nil, modified |-> Nil]

\* One row of the SELECT with its LEFT JOINs.
Reconstruct(i) ==
  LET value(a) == IF Home[a] = Primary THEN rows[Primary][i].attrs[a]
                  ELSE IF rows[Home[a]][i] = Nil THEN Nil ELSE rows[Home[a]][i][a]
  IN  [id |-> i, attrs |-> [a \in Attrs |-> value(a)],
       created |-> rows[Primary][i].created, modified |-> rows[Primary][i].modified]

Table == [i \in Ids |-> IF rows[Primary][i] = Nil THEN Nil ELSE Reconstruct(i)]

\* The statements outside transactions, on the joined tables.  The clock ticks
\* in the resolution of the time columns.
Json == INSTANCE SqlStore WITH
          table <- Table, Columns <- Attrs \ Extensions, FallbackLimit <- 0, PerSecond <- 1,
          Dialect <- IF Driver = "mysql" THEN "mysql" ELSE "columns"

RowsOf(t) ==
  LET cols == [{a \in Attrs : Home[a] = t} -> Values \cup {Nil}]
      times == Json!Times \cup {Nil}
  IN  IF t = Primary THEN [attrs : cols, created : times, modified : times] ELSE cols

Cells == {Nil} \cup UNION {RowsOf(t) : t \in Tables}

ASSUME CallsAssumption ==
  /\ Requests \subseteq Json!RequestType
  /\ \A r \in Requests : r.op \in {"Get", "Replace", "Patch", "Delete"} => r.id # Nil
  /\ UserName \in Attrs \cup {Nil} /\ Extensions \subseteq Attrs /\ MaxClock \in Nat
ASSUME IdsAssumption == IsFiniteSet(Ids)
ASSUME NilAssumption ==
  /\ Nil \notin Procs \cup Ids \cup Attrs \cup Values \cup Json!Times
  /\ Nil \notin Requests
  /\ Nil \notin Json!Resources
  /\ \A t \in Tables : Nil \notin RowsOf(t)
  /\ \A D \in SUBSET (Tables \X Ids) : Nil \notin [D -> Cells]

Init ==
  /\ rows = [t \in Tables |-> [i \in Ids |-> Nil]]
  /\ tx = [p \in Procs |-> Nil]
  /\ step = [p \in Procs |-> 1]
  /\ clock = 0
  /\ issued = {}
  /\ pc = [p \in Procs |-> "idle"]
  /\ req = [p \in Procs |-> Nil]
  /\ draft = [p \in Procs |-> Nil]
  /\ total = [p \in Procs |-> 0]
  /\ out = [p \in Procs |-> {}]
  /\ status = [p \in Procs |-> "none"]

-----------------------------------------------------------------------------
(* The pool and the statements outside transactions.                        *)

Free == Cardinality({p \in Procs : tx[p] # Nil}) < MaxConns

Call(p) == UNCHANGED <<rows, tx, step>> /\ Json!Call(p)

Prepare(p) == UNCHANGED <<rows, tx, step>> /\ Json!Prepare(p)

\* Get, the reads of Patch and Replace, and List.
Read(p) ==
  /\ Free
  /\ UNCHANGED <<rows, tx, step>>
  /\ Json!Get(p) \/ Json!ReadForPatch(p) \/ Json!ReadForReplace(p) \/ Json!Count(p) \/ Json!Select(p)

StatementFails(p) == UNCHANGED <<rows, tx, step>> /\ Json!StatementFails(p)

Return(p) == UNCHANGED <<rows, tx, step>> /\ Json!Return(p)

Tick == UNCHANGED <<rows, tx, step>> /\ Json!Tick

-----------------------------------------------------------------------------
(* Transactions.                                                            *)

Target(p) == IF req[p].op = "Create" THEN draft[p].id ELSE req[p].id

\* Mutants: the joined tables are forgotten; Delete walks through them in the
\* order of a Go map, different from call to call.
PrimaryOnly(p) == IF req[p].op = "Delete" THEN Append(Reverse(Joins), Primary) ELSE <<Primary>>

DeletesInMapOrder(p) ==
  IF req[p].op # "Delete" THEN <<Primary>> \o Joins
  ELSE IF p = CHOOSE q \in Procs : TRUE THEN Append(Joins, Primary)
  ELSE Append(Reverse(Joins), Primary)

\* The tables p's transaction goes through, in order; Delete takes the joins in
\* reverse.
Plan(p) == IF req[p].op = "Delete" THEN Append(Reverse(Joins), Primary) ELSE <<Primary>> \o Joins

InTx(p) == pc[p] = "tx"

More(p) == InTx(p) /\ step[p] <= Len(Plan(p))

\* The table of p's next statement.
NextTable(p) == Plan(p)[step[p]]

Begin(p) ==
  /\ Free
  /\ pc[p] = "write" \/ (pc[p] = "called" /\ req[p].op = "Delete")
  /\ tx' = [tx EXCEPT ![p] = [c \in {} |-> Nil]]
  /\ step' = [step EXCEPT ![p] = 1]
  /\ pc' = [pc EXCEPT ![p] = "tx"]
  /\ UNCHANGED <<rows, clock, issued, req, draft, total, out, status>>

Locks(q, t, i) == tx[q] # Nil /\ <<t, i>> \in DOMAIN tx[q]

\* q's transaction has written, or overwritten, the userName of draft[p].
HoldsName(q, p) ==
  /\ UserName # Nil
  /\ draft[p] # Nil /\ draft[p].attrs[UserName] # Nil
  /\ LET named(row) == row # Nil /\ row.attrs[UserName] = draft[p].attrs[UserName]
     IN  \E i \in Ids : Locks(q, Primary, i) /\ (named(tx[q][<<Primary, i>>]) \/ named(rows[Primary][i]))

\* Delete passes over a table that is not to be deleted from.
Skips(p) == req[p].op = "Delete" /\ NextTable(p) \notin DeleteJoin \cup {Primary}

\* pgUpdate without columns to set sends no statement.
NoStatement(p) ==
  \/ Skips(p)
  \/ NextTable(p) = Primary /\ ~ PrimaryWritten /\ req[p].op \in {"Replace", "Patch"}

\* p's statement is at the UNIQUE index: an INSERT from the start (nobody else
\* has its identifier), an UPDATE once it has locked its row.
Checks(p) ==
  NextTable(p) = Primary /\ (req[p].op = "Create" \/ Locks(p, Primary, Target(p)))

\* The transactions p's next statement waits for.
Blockers(p) ==
  IF ~ More(p) \/ NoStatement(p) THEN {}
  ELSE {q \in Procs \ {p} : \/ Locks(q, NextTable(p), Target(p))
                            \/ Checks(p) /\ HoldsName(q, p)}

End(p, s, S) ==
  /\ tx' = [tx EXCEPT ![p] = Nil]
  /\ step' = [step EXCEPT ![p] = 1]
  /\ Json!Finish(p, s, S, 0)

\* Mutant: an early return that no deferred Rollback follows.
RollbackForgotten(p, s) ==
  UNCHANGED <<rows, tx, step>> /\ Json!Finish(p, s, {}, 0)

Rollback(p, s) == UNCHANGED rows /\ End(p, s, {})

\* p's transaction has locked its row of the next table, and row is its new
\* version.
Marks(p, row) ==
  LET cell == <<NextTable(p), Target(p)>>
  IN  tx' = [tx EXCEPT ![p] = [c \in DOMAIN @ \cup {cell} |-> IF c = cell THEN row ELSE @[c]]]

\* p's statement wrote row to its table (or, with done = FALSE, found none).
Wrote(p, done, row) ==
  /\ IF done THEN Marks(p, row) ELSE UNCHANGED tx
  /\ step' = [step EXCEPT ![p] = @ + 1]
  /\ UNCHANGED <<rows, callVars>>

Runs(p, ops, t) == More(p) /\ req[p].op \in ops /\ NextTable(p) = t /\ Blockers(p) = {}

Stored(p, t) == rows[t][Target(p)]

InsertPrimary(p) ==
  /\ Runs(p, {"Create"}, Primary)
  /\ IF Json!NameTaken(draft[p]) THEN Rollback(p, "conflict")
     ELSE Wrote(p, TRUE, Part(draft[p], Primary))

\* Mutant: RowsAffected is not looked at.
NeverMissing(p) == FALSE

\* MySQL counts the rows the UPDATE changed.
NoneAffected(p) ==
  /\ PrimaryWritten
  /\ \/ Stored(p, Primary) = Nil
     \/ Driver = "mysql" /\ Stored(p, Primary) = Part(draft[p], Primary)

\* The UPDATE locks the row it finds, and keeps it while it waits for the index.
LockRow(p) ==
  /\ Runs(p, {"Replace", "Patch"}, Primary)
  /\ PrimaryWritten /\ ~ Locks(p, Primary, Target(p))
  /\ IF NoneAffected(p) THEN Rollback(p, "notFound")
     ELSE Marks(p, Nil) /\ UNCHANGED <<rows, step, callVars>>

UpdatePrimary(p) ==
  /\ Runs(p, {"Replace", "Patch"}, Primary)
  /\ PrimaryWritten => Locks(p, Primary, Target(p))
  /\ IF Json!NameTaken(draft[p]) THEN Rollback(p, "conflict")
     ELSE Wrote(p, PrimaryWritten /\ Stored(p, Primary) # Nil, Part(draft[p], Primary))

\* INSERT into a joined table, or INSERT ... ON CONFLICT DO UPDATE.
WriteJoin(p) ==
  \E t \in JoinTables :
    /\ Runs(p, {"Create", "Replace", "Patch"}, t)
    /\ Wrote(p, TRUE, Part(draft[p], t))

DeleteRow(p) ==
  \E t \in Tables :
    /\ Runs(p, {"Delete"}, t)
    /\ IF t = Primary /\ Stored(p, t) = Nil THEN Rollback(p, "notFound")
       ELSE Wrote(p, Stored(p, t) # Nil /\ ~ Skips(p), Nil)

\* The answer to the COMMIT may be lost.
Commit(p) ==
  /\ InTx(p) /\ step[p] > Len(Plan(p))
  /\ rows' = [t \in Tables |-> [i \in Ids |-> IF Locks(p, t, i) THEN tx[p][<<t, i>>] ELSE rows[t][i]]]
  /\ \/ End(p, "ok", IF req[p].op = "Delete" THEN {} ELSE {draft[p]})
     \/ End(p, "internal", {})

\* A statement or the COMMIT fails, the context is cancelled.
Abort(p) == InTx(p) /\ Rollback(p, "internal")

\* The goroutines of S wait for each other in circles.
Circles(S) == \E f \in [S -> S] : IsInjective(f) /\ \A q \in S : f[q] \in Blockers(q)

\* The database ends a transaction that takes part in a deadlock.
DeadlockVictim(p) ==
  /\ Blockers(p) # {}
  /\ \E S \in SUBSET Procs : p \in S /\ Circles(S)
  /\ Rollback(p, "internal")

\* What p does when nothing fails.
Work(p) ==
  \/ Prepare(p) \/ Read(p) \/ Begin(p) \/ InsertPrimary(p) \/ LockRow(p) \/ UpdatePrimary(p)
  \/ WriteJoin(p) \/ DeleteRow(p) \/ Commit(p) \/ DeadlockVictim(p) \/ Return(p)

Next == Tick \/ \E p \in Procs : Call(p) \/ Work(p) \/ StatementFails(p) \/ Abort(p)

Spec == Init /\ [][Next]_vars

\* The pool and the database serve those who wait in turn.
Fairness == \A p \in Procs : SF_vars(Work(p))

FairSpec == Spec /\ Fairness

-----------------------------------------------------------------------------
(* Properties.                                                              *)

\* Type invariant of the tables, the transactions and the methods' locals.
TypeOK ==
  /\ \A t \in Tables : rows[t] \in [Ids -> RowsOf(t) \cup {Nil}]
  /\ \A p \in Procs : tx[p] # Nil =>
       /\ DOMAIN tx[p] \subseteq Tables \X Ids
       /\ \A c \in DOMAIN tx[p] : tx[p][c] \in RowsOf(c[1]) \cup {Nil}
  /\ step \in [Procs -> Nat \ {0}]
  /\ pc \in [Procs -> {"idle", "called", "patched", "write", "counted", "tx", "done"}]
  /\ status \in [Procs -> {"none", "ok", "internal", "notFound", "conflict", "badPatch"}]

\* Connections and row locks are given back on every way out of a method: a
\* goroutine outside a transaction holds none.
NothingHeld == \A p \in Procs : tx[p] # Nil <=> pc[p] = "tx"

\* No joined row outlives its resource (DeleteJoin: the joined rows go first, in
\* the transaction of the primary row), even though Replace puts them in with an
\* upsert and read the primary row before its transaction.
NoOrphans == \A t \in DeleteJoin, i \in Ids : rows[t][i] # Nil => rows[Primary][i] # Nil

\* q's UPDATE has locked its row and asks for the userName that r's, which has
\* locked its own, is still to give up.
Succeeds(q, r) ==
  /\ {q, r} \subseteq {p \in Procs : More(p) /\ req[p].op \in {"Replace", "Patch"} /\ Checks(p)}
  /\ rows[Primary][req[r].id].attrs[UserName] = draft[q].attrs[UserName]

\* When transactions wait for each other in a circle, there are among them a
\* Delete, which locks joined rows first, and a Replace or Patch of the same
\* resource, which locks the primary row first; or Replaces and Patches that pass
\* their resources' userNames round.  No other calls can deadlock: not a Create,
\* not two writes of the joined tables, not a userName already written.
DeadlocksNeedDeleteOrSwap ==
  \A S \in SUBSET Procs : S # {} /\ Circles(S) =>
    \/ \E d, r \in S : /\ req[d].op = "Delete" /\ req[r].op \in {"Replace", "Patch"}
                       /\ req[d].id = req[r].id
    \/ \E T \in (SUBSET S) \ {{}} : \A q \in T : \E r \in T \ {q} : Succeeds(q, r)

\* Every call comes back, when nothing fails but deadlock victims: no goroutine
\* keeps a connection while it waits for another one.
EveryCallReturns == \A p \in Procs : pc[p] # "idle" ~> pc[p] = "idle"

\* notFound tells the truth: no resource has the identifier when a call is
\* answered so.
NotFoundIsTrue ==
  [][\A p \in Procs : status[p] # "notFound" /\ status'[p] = "notFound" =>
       rows[Primary][req[p].id] = Nil]_vars

=============================================================================
