------------------------ MODULE MemoryStoreRefinement ------------------------
(***************************************************************************)
(* The in-memory store implements AtomicStore: its calls are linearizable. *)
(* Writers take effect where they change resources, Get and List in their  *)
(* read section, even though List looks at the resources after RUnlock.    *)
(***************************************************************************)
EXTENDS MemoryStore

\* A resource as its JSON shows it, but for the location the server adds.
View(o) == [key |-> o.key, id |-> o.id, name |-> o.name,
            created |-> o.created \div PerSecond, modified |-> o.modified \div PerSecond,
            otherIds |-> o.otherIds, otherMetas |-> o.otherMetas]

Views == [key : Ids, id : Ids \cup {Nil}, name : Attr, created : Times, modified : Times,
          otherIds : SUBSET (Ids \cup {Nil}), otherMetas : SUBSET Metas]

\* No resource looks like an absent one.
ASSUME ViewsAssumption == Nil \notin Views

Table == [t \in Types |-> [i \in Ids |-> IF Present(t, i) THEN View(At(t, i)) ELSE Nil]]

\* A goroutine stuck in a Patch pre-update hook still owns the hook's clone; in
\* a post hook it owns none.
TookEffect(p) == pc[p] \in {"post", "done"} \/ (pc[p] = "stuck" /\ own[p] = Nil)

Drawn(p) == pc[p] \in {"wwait", "write"} /\ req[p].op = "Create"

Phase == [p \in Procs |-> IF pc[p] = "idle" THEN "idle"
                          ELSE IF TookEffect(p) THEN "done"
                          ELSE IF pc[p] = "scan" THEN "matched"
                          ELSE IF Drawn(p) THEN "drawn" ELSE "called"]

Draft == [p \in Procs |-> IF Drawn(p) THEN View(heap[own[p]]) ELSE Nil]

AnswerOf == [p \in Procs |-> IF pc[p] = "done" THEN status[p]
                             ELSE IF TookEffect(p) THEN "ok" ELSE "none"]

Items == [p \in Procs |-> {View(heap[r]) : r \in out[p] \cup {s \in snap[p] : Matches(p, heap[s])}}]

Atomic == INSTANCE AtomicStore WITH
            now <- clock \div PerSecond, db <- Table, phase <- Phase, draft <- Draft,
            answer <- AnswerOf, items <- Items

\* Linearizability of the six methods of MemoryStore.
Linearizable == Atomic!Spec

=============================================================================
