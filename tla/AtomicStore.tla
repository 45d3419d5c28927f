----------------------------- MODULE AtomicStore -----------------------------
(***************************************************************************)
(* What store.ResourceStore promises its concurrent callers (store.go: the *)
(* six methods; docs/guides/custom-store.mdx: "safe for concurrent use").  *)
(* Each call takes effect at one instant between its invocation and its    *)
(* response, on a table of values: no locks, no pointers, no intermediate  *)
(* state.  List is a page of the resources that matched at one instant;    *)
(* a refused or failed call leaves the table as it was.  Times are in      *)
(* seconds, the resolution in which SCIM clients see them.  What a client  *)
(* is shown, and what a PATCH starts from, is a copy: where a PATCH stored *)
(* a second spelling of id or meta, the copy has either and no longer both. *)
(***************************************************************************)
EXTENDS Integers, Sequences, FiniteSets

CONSTANTS Procs, Types, UserTypes, Ids, Names, Fold, Requests, Nil

VARIABLES
  now,
  db,      \* type -> id -> resource
  issued,  \* identifiers given out
  phase,   \* "idle" "called" "drawn" "matched" "done"
  req,
  draft,   \* a Create's resource, stamped before it is ordered
  answer,
  items    \* resources in the response

vars == <<now, db, issued, phase, req, draft, answer, items>>

Init ==
  /\ now \in Nat
  /\ db = [t \in Types |-> [i \in Ids |-> Nil]]
  /\ issued = {}
  /\ phase = [p \in Procs |-> "idle"]
  /\ req = [p \in Procs |-> Nil]
  /\ draft = [p \in Procs |-> Nil]
  /\ answer = [p \in Procs |-> "none"]
  /\ items = [p \in Procs |-> {}]

Call(p) ==
  /\ phase[p] = "idle"
  /\ phase' = [phase EXCEPT ![p] = "called"]
  /\ \E r \in Requests : req' = [req EXCEPT ![p] = r]
  /\ UNCHANGED <<now, db, issued, draft, answer, items>>

\* p's call is over with status s and the resources S.
Done(p, s, S) ==
  /\ phase' = [phase EXCEPT ![p] = "done"]
  /\ answer' = [answer EXCEPT ![p] = s]
  /\ items' = [items EXCEPT ![p] = S]
  /\ draft' = [draft EXCEPT ![p] = Nil]
  /\ UNCHANGED <<now, issued, req>>

Fail(p, s) == Done(p, s, {}) /\ UNCHANGED db

\* The copy of the value v that has the identifier i and the times m.
Copied(v, i, m) == [v EXCEPT !.id = i, !.created = m.created, !.modified = m.modified,
                             !.otherIds = {}, !.otherMetas = {}]

\* An empty identifier, Nil, is not written.
IdsRead(v) == IF v.id = Nil /\ v.otherIds # {} THEN v.otherIds ELSE {v.id} \cup v.otherIds

Copies(v) == {Copied(v, i, m) : i \in IdsRead(v),
                m \in {[created |-> v.created, modified |-> v.modified]} \cup v.otherMetas}

Plain(v) == v.otherIds = {} /\ v.otherMetas = {}

Put(p, v) ==
  /\ db' = [db EXCEPT ![req[p].type][v.key] = v]
  /\ \E c \in Copies(v) : Done(p, "ok", {c})

Refuse(p) ==
  /\ phase[p] = "called"
  /\ \E s \in {"internal", "rejected", "panic"} : Fail(p, s)

Draw(p) ==
  /\ phase[p] = "called"
  /\ req[p].op = "Create"
  /\ phase' = [phase EXCEPT ![p] = "drawn"]
  /\ \E i \in Ids \ issued :
       /\ issued' = issued \cup {i}
       /\ draft' = [draft EXCEPT ![p] =
            [key |-> i, id |-> i, name |-> req[p].name, created |-> now, modified |-> now,
             otherIds |-> {}, otherMetas |-> {}]]
  /\ UNCHANGED <<now, db, req, answer, items>>

EqualFold(m, n) == m # Nil /\ n # Nil /\ Fold[m] = Fold[n]

Taken(t, n) == t \in UserTypes /\ \E i \in Ids : db[t][i] # Nil /\ EqualFold(db[t][i].name, n)

Create(p) ==
  /\ phase[p] = "drawn"
  /\ IF Taken(req[p].type, req[p].name) THEN Fail(p, "conflict") ELSE Put(p, draft[p])

Current(p) == db[req[p].type][req[p].id]

\* A call on one identifier, of kind op, that finds it or not.
On(p, op, found) ==
  /\ phase[p] = "called"
  /\ req[p].op = op
  /\ (Current(p) # Nil) = found

NotFound(p) == (\E op \in {"Get", "Replace", "Patch", "Delete"} : On(p, op, FALSE)) /\ Fail(p, "notFound")

Get(p) ==
  /\ On(p, "Get", TRUE)
  /\ \E c \in Copies(Current(p)) : Done(p, "ok", {c})
  /\ UNCHANGED db

\* The new resource keeps the key and the second of creation of the old one.
Replace(p) ==
  /\ On(p, "Replace", TRUE)
  /\ Put(p, [key |-> req[p].id, id |-> req[p].id, name |-> req[p].name,
             created |-> Current(p).created, modified |-> now,
             otherIds |-> {}, otherMetas |-> {}])

Failing(ops) == {k \in 1 .. Len(ops) : ops[k].kind \in {"noTarget", "badPatch"}}

\* The last of the first n operations that sets kind, if there is one.
Latest(ops, n, kind) ==
  {k \in 1 .. n : ops[k].kind = kind /\ \A j \in k + 1 .. n : ops[j].kind # kind}

\* The value v after all the operations, the last at time t.
Patched(v, ops, t) ==
  LET last(kind) == Latest(ops, Len(ops), kind)
      op(kind) == ops[CHOOSE k \in last(kind) : TRUE]
  IN [v EXCEPT !.name = IF last("userName") = {} THEN @ ELSE op("userName").name,
               !.otherIds = IF last("id") = {} THEN @ ELSE op("id").ids,
               !.otherMetas = IF last("meta") = {} THEN @ ELSE op("meta").metas,
               !.modified = t]

\* All of the operations or, at the first that fails, none.
Patch(p) ==
  LET ops == req[p].ops
  IN /\ On(p, "Patch", TRUE)
     /\ \/ /\ Failing(ops) = {}
           /\ \E c \in Copies(Current(p)) : Put(p, Patched(c, ops, now))
        \/ \E k \in Failing(ops) :
             /\ \A j \in Failing(ops) : k <= j
             /\ Fail(p, ops[k].kind)

Delete(p) ==
  /\ On(p, "Delete", TRUE)
  /\ db' = [db EXCEPT ![req[p].type][req[p].id] = Nil]
  /\ Done(p, "ok", {})

Matching(p) ==
  {v \in {db[req[p].type][i] : i \in Ids} \ {Nil} :
     req[p].name = Nil \/ EqualFold(v.name, req[p].name)}

List(p) ==
  /\ phase[p] = "called"
  /\ req[p].op = "List"
  /\ phase' = [phase EXCEPT ![p] = "matched"]
  /\ items' = [items EXCEPT ![p] = Matching(p)]
  /\ UNCHANGED <<now, db, issued, req, draft, answer>>

\* The places, counted from 1, of n matches that belong to the page: those from
\* startIndex on, count of them (all when count is negative).
Places(n, start, count) ==
  {k \in 1 .. n : /\ k >= start
                  /\ count >= 0 => k < (IF start < 1 THEN 1 ELSE start) + count}

\* The copies are made one at a time, after the instant of matching.
Copy(p) ==
  /\ phase[p] = "matched"
  /\ \E v \in items[p] :
       \E c \in Copies(v) : items' = [items EXCEPT ![p] = (@ \ {v}) \cup {c}]
  /\ UNCHANGED <<now, db, issued, phase, req, draft, answer>>

\* The order of the matches is free.
Cut(p) ==
  /\ phase[p] = "matched"
  /\ \A v \in items[p] : Plain(v)
  /\ \E page \in SUBSET items[p] :
       /\ Cardinality(page) = Cardinality(Places(Cardinality(items[p]), req[p].start, req[p].count))
       /\ Done(p, "ok", page)
  /\ UNCHANGED db

\* A hook that runs after the effect panics: the effect stays, the answer is lost.
Panic(p) ==
  /\ phase[p] = "done"
  /\ answer[p] = "ok"
  /\ req[p].op \in {"Create", "Replace", "Patch", "Delete"}
  /\ answer' = [answer EXCEPT ![p] = "panic"]
  /\ items' = [items EXCEPT ![p] = {}]
  /\ UNCHANGED <<now, db, issued, phase, req, draft>>

Return(p) ==
  /\ phase[p] = "done"
  /\ phase' = [phase EXCEPT ![p] = "idle"]
  /\ req' = [req EXCEPT ![p] = Nil]
  /\ answer' = [answer EXCEPT ![p] = "none"]
  /\ items' = [items EXCEPT ![p] = {}]
  /\ UNCHANGED <<now, db, issued, draft>>

Tick == now' = now + 1 /\ UNCHANGED <<db, issued, phase, req, draft, answer, items>>

Next ==
  \/ \E p \in Procs :
       \/ Call(p) \/ Refuse(p) \/ Draw(p) \/ Create(p) \/ NotFound(p) \/ Get(p)
       \/ Replace(p) \/ Patch(p) \/ Delete(p) \/ List(p) \/ Copy(p) \/ Cut(p) \/ Panic(p)
       \/ Return(p)
  \/ Tick

Spec == Init /\ [][Next]_vars

=============================================================================
