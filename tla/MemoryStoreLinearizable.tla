----------------------- MODULE MemoryStoreLinearizable -----------------------
(***************************************************************************)
(* The proof that MemoryStore implements AtomicStore, step by step, on top *)
(* of IInv and Provenance (MemoryStoreProofs).                             *)
(***************************************************************************)
EXTENDS MemoryStoreProofs, MemoryStoreRefinement, FiniteSetTheorems

-----------------------------------------------------------------------------
(* What the calls under way have done so far.                               *)

Writes == {"Create", "Replace", "Patch", "Delete"}

\* o is the clone c after the first n operations: of those that set an attribute,
\* the last has its way.
Edited(o, c, ops, n) ==
  /\ o.key = c.key /\ o.id = c.id /\ o.created = c.created
  /\ \A k \in Atomic!Latest(ops, n, "userName") : o.name = ops[k].name
  /\ Atomic!Latest(ops, n, "userName") = {} => o.name = c.name
  /\ \A k \in Atomic!Latest(ops, n, "id") : o.otherIds = ops[k].ids
  /\ Atomic!Latest(ops, n, "id") = {} => o.otherIds = c.otherIds
  /\ \A k \in Atomic!Latest(ops, n, "meta") : o.otherMetas = ops[k].metas
  /\ Atomic!Latest(ops, n, "meta") = {} => o.otherMetas = c.otherMetas

\* What ApplyPatch has done to the clone of the resource v.
Applying(o, v, ops, n) == \E c \in Clones(v) : Edited(o, c, ops, n)

\* A resource that holds no second spelling.
Single(o) == o.otherIds = {} /\ o.otherMetas = {}

Underway(p) ==
  /\ pc[p] \in {"wwait", "write"} /\ req[p].op = "Create" =>
       heap[own[p]].name = req[p].name /\ Single(heap[own[p]])
  /\ pc[p] \notin {"patch", "post", "stuck", "done"} => step[p] = 1
  /\ pc[p] = "patch" =>
       /\ step[p] \in 1 .. Len(req[p].ops) + 1
       /\ \A j \in 1 .. step[p] - 1 : req[p].ops[j].kind \in SetKinds
       /\ Applying(heap[own[p]], heap[Target(p)], req[p].ops, step[p] - 1)
  /\ pc[p] = "post" => req[p].op \in Writes
  /\ pc[p] = "scan" =>
       /\ req[p].op = "List"
       /\ \A r, s \in snap[p] \cup out[p] : heap[r].key = heap[s].key => r = s
       /\ \A r \in out[p] : Single(heap[r])

Course == \A p \in Procs : Underway(p)

\* A request and its operations have their types.
LEMMA Requested ==
  ASSUME IInv, NEW p \in Procs, pc[p] # "idle"
  PROVE  /\ req[p] \in Requests /\ req[p].type \in Types /\ req[p].name \in Attr
         /\ req[p].op \in {"Replace", "Patch", "Delete", "Get"} => req[p].id \in Ids
         /\ req[p].start \in Int /\ req[p].count \in Int
         /\ req[p].ops \in Seq(PatchOps)
         /\ Len(req[p].ops) \in Nat
         /\ \A k \in 1 .. Len(req[p].ops) : req[p].ops[k] \in PatchOps
<1>1. req[p] \in Requests
  BY DEF IInv, LocalInv
<1>2. req[p] \in RequestType /\ (req[p].op \in {"Get", "Replace", "Patch", "Delete"} => req[p].id # Nil)
  BY <1>1, RequestsAssumption
<1>3. req[p].ops \in Seq(PatchOps)
  BY <1>2 DEF RequestType
<1>4. \A k \in 1 .. Len(req[p].ops) : req[p].ops[k] \in PatchOps
  BY <1>3
<1> QED
  BY <1>1, <1>2, <1>3, <1>4 DEF RequestType

\* One more operation.
LEMMA LatestNext ==
  ASSUME NEW ops, NEW n \in Nat, NEW kind
  PROVE  /\ Atomic!Latest(ops, 0, kind) = {}
         /\ ops[n + 1].kind = kind => Atomic!Latest(ops, n + 1, kind) = {n + 1}
         /\ ops[n + 1].kind # kind => Atomic!Latest(ops, n + 1, kind) = Atomic!Latest(ops, n, kind)
<1>1. 1 .. n + 1 = (1 .. n) \cup {n + 1} /\ n + 2 .. n + 1 = {} /\ 1 .. 0 = {}
  OBVIOUS
<1>2. \A k \in 1 .. n : k + 1 .. n + 1 = (k + 1 .. n) \cup {n + 1}
  OBVIOUS
<1>3. Atomic!Latest(ops, 0, kind) = {}
  BY <1>1 DEF Atomic!Latest
<1>4. ASSUME ops[n + 1].kind = kind
      PROVE  Atomic!Latest(ops, n + 1, kind) = {n + 1}
  BY <1>1, <1>2, <1>4 DEF Atomic!Latest
<1>5. ASSUME ops[n + 1].kind # kind
      PROVE  Atomic!Latest(ops, n + 1, kind) = Atomic!Latest(ops, n, kind)
  <2>1. \A k \in 1 .. n : (\A j \in k + 1 .. n + 1 : ops[j].kind # kind)
                            <=> (\A j \in k + 1 .. n : ops[j].kind # kind)
    BY <1>2, <1>5
  <2> QED
    BY <1>1, <1>5, <2>1 DEF Atomic!Latest
<1> QED
  BY <1>3, <1>4, <1>5

\* A fresh clone, and one more operation applied to it.
LEMMA EditedNext ==
  ASSUME NEW o \in Objects, NEW c, NEW ops, NEW n \in Nat, Edited(o, c, ops, n),
         ops[n + 1] \in PatchOps, ops[n + 1].kind \in SetKinds
  PROVE  Edited(Applied(o, ops[n + 1]), c, ops, n + 1)
<1> DEFINE op == ops[n + 1]
           a == Applied(o, op)
<1>1. /\ a.key = o.key /\ a.id = o.id /\ a.created = o.created
      /\ a.name = IF op.kind = "userName" THEN op.name ELSE o.name
      /\ a.otherIds = IF op.kind = "id" THEN op.ids ELSE o.otherIds
      /\ a.otherMetas = IF op.kind = "meta" THEN op.metas ELSE o.otherMetas
  BY AppliedKeeps
<1>2. \A kind \in SetKinds :
        Atomic!Latest(ops, n + 1, kind) = IF op.kind = kind THEN {n + 1} ELSE Atomic!Latest(ops, n, kind)
  <2> SUFFICES ASSUME NEW kind \in SetKinds
               PROVE  Atomic!Latest(ops, n + 1, kind)
                        = IF op.kind = kind THEN {n + 1} ELSE Atomic!Latest(ops, n, kind)
    OBVIOUS
  <2>1. /\ ops[n + 1].kind = kind => Atomic!Latest(ops, n + 1, kind) = {n + 1}
        /\ ops[n + 1].kind # kind => Atomic!Latest(ops, n + 1, kind) = Atomic!Latest(ops, n, kind)
    BY LatestNext, Zenon
  <2> QED
    BY <2>1, Zenon
<1>3. PICK x, k : x = a /\ k = op.kind /\ op = ops[n + 1]
  OBVIOUS
<1> HIDE DEF a, op
<1>4. /\ \A j \in Atomic!Latest(ops, n + 1, "userName") : x.name = ops[j].name
      /\ Atomic!Latest(ops, n + 1, "userName") = {} => x.name = c.name
  BY <1>1, <1>2, <1>3 DEF SetKinds, Edited
<1>5. /\ \A j \in Atomic!Latest(ops, n + 1, "id") : x.otherIds = ops[j].ids
      /\ Atomic!Latest(ops, n + 1, "id") = {} => x.otherIds = c.otherIds
  BY <1>1, <1>2, <1>3 DEF SetKinds, Edited
<1>6. /\ \A j \in Atomic!Latest(ops, n + 1, "meta") : x.otherMetas = ops[j].metas
      /\ Atomic!Latest(ops, n + 1, "meta") = {} => x.otherMetas = c.otherMetas
  BY <1>1, <1>2, <1>3 DEF SetKinds, Edited
<1>7. x.key = c.key /\ x.id = c.id /\ x.created = c.created
  BY <1>1, <1>3 DEF Edited
<1>8. Edited(x, c, ops, n + 1)
  BY <1>4, <1>5, <1>6, <1>7 DEF Edited
<1> QED
  BY <1>3, <1>8 DEF a, op

Acts(p) == Call(p) \/ Step(p) \/ HookEdits(p) \/ CallerEdits(p)

\* A cell that is in use and not p's own is not written to by p.
LEMMA CellKept ==
  ASSUME IInv, NEW p \in Procs, Acts(p), NEW r \in Refs, r \in Live, r \notin Private(p),
         Return(p) => r \in Live'
  PROVE  heap'[r] = heap[r]
<1>1. Room => r # Cell1 /\ r # Cell2
  BY CellsFresh
<1>2. r # own[p] /\ r \notin out[p]
  BY NilAssumption DEF Private
<1> USE <1>1, <1>2 DEF storeVars
<1>3. CASE Call(p) \/ HookEdits(p) \/ CallerEdits(p)
  BY <1>3, NilAssumption DEF Call, HookEdits, Private, CallerEdits, IInv, TypeOK
<1>4. CASE Step(p)
  <2>1. CASE Refuse(p) \/ Lock(p) \/ Acquire(p) \/ RLock(p) \/ Delete(p)
    BY <2>1 DEF Refuse, Lock, Acquire, RLock, Delete
  <2>2. CASE NotFound(p) \/ Conflict(p) \/ HookRefuses(p) \/ PatchFails(p)
    BY <2>2 DEF NotFound, Conflict, HookRefuses, PatchFails, Fail
  <2>3. CASE HookReenters(p) \/ PostHooks(p) \/ Snapshot(p) \/ ListPage(p)
    BY <2>3 DEF HookReenters, PostHooks, Snapshot, ListPage
  <2>4. CASE Prepare(p) \/ CloneForHook(p) \/ ApplyPatch(p) \/ Get(p)
    BY <2>4 DEF Prepare, CloneForHook, ApplyPatch, OwnClone, Get, CloneCell, IInv, TypeOK
  <2>5. CASE Create(p) \/ Replace(p) \/ Patch(p)
    BY <2>5 DEF Create, Replace, Patch, Publish, IInv, TypeOK
  <2>6. CASE ApplyOp(p) \/ ListFilter(p)
    BY <2>6 DEF ApplyOp, ListFilter, IInv, TypeOK
  <2>7. CASE Return(p)
    BY <2>7 DEF Return
  <2> QED
    BY <1>4, <2>1, <2>2, <2>3, <2>4, <2>5, <2>6, <2>7 DEF Step
<1> QED
  BY <1>3, <1>4 DEF Acts

\* q does not notice a step of another goroutine, except that it may be let in.
Undisturbed(q) ==
  /\ pc'[q] = pc[q] \/ (pc[q] = "rwait" /\ pc'[q] = "read")
  /\ req'[q] = req[q] /\ own'[q] = own[q] /\ step'[q] = step[q]
  /\ snap'[q] = snap[q] /\ out'[q] = out[q] /\ status'[q] = status[q]
  /\ own[q] # Nil => heap'[own[q]] = heap[own[q]]
  /\ \A r \in snap[q] \cup out[q] : heap'[r] = heap[r]
  /\ pc[q] \in WriteSection => UNCHANGED resources

\* The locals of the others.
LEMMA OthersLocals ==
  ASSUME IInv, NEW p \in Procs, Acts(p), NEW q \in Procs \ {p}
  PROVE  /\ pc'[q] = pc[q] \/ (pc[q] = "rwait" /\ pc'[q] = "read")
         /\ req'[q] = req[q] /\ own'[q] = own[q] /\ step'[q] = step[q]
         /\ snap'[q] = snap[q] /\ out'[q] = out[q] /\ status'[q] = status[q]
<1> USE DEF IInv, TypeOK, storeVars, lockVars
<1>1. CASE Call(p) \/ HookEdits(p) \/ CallerEdits(p)
  BY <1>1 DEF Call, HookEdits, CallerEdits
<1>2. CASE Refuse(p) \/ Lock(p) \/ Acquire(p) \/ RLock(p) \/ Delete(p) \/ Prepare(p)
  BY <1>2 DEF Refuse, Lock, Acquire, RLock, Delete, Prepare, Answer
<1>3. CASE NotFound(p) \/ Conflict(p) \/ HookRefuses(p) \/ PatchFails(p)
  BY <1>3 DEF NotFound, Conflict, HookRefuses, PatchFails, Fail, Answer, Unlock, Blocked
<1>4. CASE HookReenters(p) \/ PostHooks(p)
  BY <1>4 DEF HookReenters, PostHooks, Answer, Unlock, Blocked
<1>5. CASE Snapshot(p) \/ ListPage(p) \/ Get(p) \/ ListFilter(p)
  BY <1>5 DEF Snapshot, ListPage, Get, ListFilter, RUnlock, Answer
<1>6. CASE CloneForHook(p) \/ ApplyPatch(p) \/ ApplyOp(p)
  BY <1>6 DEF CloneForHook, ApplyPatch, OwnClone, ApplyOp
<1>7. CASE Create(p) \/ Replace(p) \/ Patch(p)
  BY <1>7 DEF Create, Replace, Patch, Publish
<1>8. CASE Return(p)
  BY <1>8 DEF Return
<1> QED
  BY <1>1, <1>2, <1>3, <1>4, <1>5, <1>6, <1>7, <1>8 DEF Acts, Step

LEMMA Others ==
  ASSUME IInv, NEW p \in Procs, Acts(p), NEW q \in Procs \ {p}
  PROVE  Undisturbed(q)
<1>1. /\ pc'[q] = pc[q] \/ (pc[q] = "rwait" /\ pc'[q] = "read")
      /\ req'[q] = req[q] /\ own'[q] = own[q] /\ step'[q] = step[q]
      /\ snap'[q] = snap[q] /\ out'[q] = out[q] /\ status'[q] = status[q]
  BY OthersLocals
<1>2. ASSUME NEW r \in Private(q) PROVE heap'[r] = heap[r]
  <2>1. r \in Refs /\ r \in Live /\ r \in Live'
    BY <1>1, NilAssumption DEF Private, Live, IInv, TypeOK
  <2>2. r \notin Private(p)
    BY NilAssumption DEF Private, IInv, Separation
  <2> QED
    BY <2>1, <2>2, CellKept
<1>3. ASSUME NEW r \in snap[q] PROVE heap'[r] = heap[r]
  <2>1. [Next]_vars /\ r \in Published
    BY DEF Acts, Next, Published
  <2> QED
    BY <2>1, PublishedKept
<1>4. ASSUME pc[q] \in WriteSection PROVE UNCHANGED resources
  <2>1. pc[p] \notin WriteSection
    BY <1>4 DEF IInv, LockInv
  <2>2. ~ (Create(p) \/ Replace(p) \/ Patch(p) \/ Delete(p))
    BY <2>1 DEF Create, Replace, Patch, Delete, WriteSection
  <2> QED
    BY <2>2
    DEF Acts, Step, Call, HookEdits, CallerEdits, Refuse, Prepare, Lock, Acquire, RLock, NotFound, Conflict,
        CloneForHook, HookRefuses, HookReenters, ApplyPatch, ApplyOp, PatchFails, PostHooks, Get,
        Snapshot, ListFilter, ListPage, Return, Fail, OwnClone, storeVars
<1> QED
  BY <1>1, <1>2, <1>3, <1>4 DEF Undisturbed, Private, IInv, TypeOK

\* Stored resources are not written to.
LEMMA StoredKept ==
  ASSUME IInv, [Next]_vars, NEW t \in Types, NEW i \in Ids, Present(t, i)
  PROVE  heap'[resources[t][i]] = heap[resources[t][i]]
BY PublishedKept DEF Published, Stored, Present

\* Nor do the others lose what they have done.
LEMMA UnderwayOthers ==
  ASSUME IInv, NEW p \in Procs, Acts(p), NEW q \in Procs \ {p}, Underway(q)
  PROVE  Underway(q)'
<1>1. Undisturbed(q)
  BY Others
<1>2. CASE pc[q] = "patch"
  <2>1. UNCHANGED resources /\ Target(q) # Nil /\ own[q] # Nil
    BY <1>1, <1>2 DEF Undisturbed, WriteSection, IInv, LocalInv
  <2>2. req[q].type \in Types /\ req[q].id \in Ids
    BY <1>2, Requested DEF IInv, LocalInv
  <2>3. heap'[Target(q)] = heap[Target(q)]
    <3>1. [Next]_vars
      BY DEF Acts, Next
    <3> QED
      BY <2>1, <2>2, <3>1, StoredKept DEF Present, Target
  <2>4. Target(q)' = Target(q)
    BY <1>1, <2>1 DEF Target, Undisturbed
  <2>5. PICK x, y, z : x = Target(q) /\ x = Target(q)' /\ heap[x] = y /\ heap'[x] = y /\ z = own[q]
    BY <2>3, <2>4
  <2> QED
    BY <1>1, <1>2, <2>1, <2>5 DEF Underway, Undisturbed
<1>3. CASE pc[q] # "patch"
  <2>1. pc[q] \in {"wwait", "write"} /\ req[q].op = "Create" => own[q] # Nil
    BY DEF IInv, LocalInv
  <2>2. ASSUME pc'[q] = "scan"
        PROVE  /\ \A r, s \in snap'[q] \cup out'[q] : heap'[r].key = heap'[s].key => r = s
               /\ \A r \in out'[q] : Single(heap'[r])
    BY <1>1, <2>2 DEF Underway, Undisturbed
  <2> QED
    BY <1>1, <1>3, <2>1, <2>2 DEF Underway, Undisturbed
<1> QED
  BY <1>2, <1>3

\* A step of p itself.
LEMMA UnderwayOwn ==
  ASSUME IInv, IInv', Provenance, NEW p \in Procs, Acts(p), Underway(p)
  PROVE  Underway(p)'
<1> USE DEF IInv, TypeOK, storeVars, lockVars
<1>1. CASE Call(p) \/ HookReenters(p) \/ Delete(p) \/ Return(p) \/ Refuse(p)
  <2>1. /\ pc'[p] \in {"called", "stuck", "post", "idle", "done"}
        /\ pc'[p] \in {"called", "idle"} => step'[p] = 1
        /\ pc'[p] = "post" => req'[p].op = "Delete"
    BY <1>1 DEF Call, HookReenters, Delete, Return, Refuse, Underway
  <2> QED
    BY <2>1 DEF Underway, Writes
<1>2. CASE NotFound(p) \/ Conflict(p) \/ HookRefuses(p) \/ PatchFails(p) \/ PostHooks(p) \/ Get(p) \/ ListPage(p)
  <2>1. pc'[p] = "done"
    BY <1>2 DEF NotFound, Conflict, HookRefuses, PatchFails, PostHooks, Get, ListPage, Fail, Unlock, RUnlock
  <2> QED
    BY <2>1 DEF Underway
<1>3. CASE Create(p) \/ Replace(p) \/ Patch(p)
  <2>1. pc'[p] = "post" /\ req'[p] = req[p] /\ req[p].op \in {"Create", "Replace", "Patch"}
    BY <1>3 DEF Create, Replace, Patch, Publish, LocalInv
  <2> QED
    BY <2>1 DEF Underway, Writes
<1>4. CASE Lock(p) \/ Acquire(p) \/ RLock(p)
  <2>1. /\ pc'[p] \in {"wwait", "write", "rwait", "read"} /\ pc[p] \in {"called", "wwait"}
        /\ UNCHANGED <<req, step, own, heap>>
        /\ pc'[p] \in {"wwait", "write"} /\ req[p].op = "Create" => pc[p] = "wwait"
    BY <1>4 DEF Lock, Acquire, RLock
  <2> QED
    BY <2>1 DEF Underway
<1>5. CASE Prepare(p)
  <2>1. PICK i \in NewIds : heap' = [heap EXCEPT ![Cell1] =
               [Clone(Body(req[p])) EXCEPT !.key = i, !.id = i, !.created = clock, !.modified = clock]]
    BY <1>5 DEF Prepare
  <2>2. pc'[p] = "wwait" /\ req'[p] = req[p] /\ step'[p] = 1 /\ own'[p] = Cell1 /\ Cell1 \in Refs
    BY <1>5, CellsFresh DEF Prepare, Underway
  <2>3. heap'[Cell1].name = req[p].name /\ Single(heap'[Cell1])
    BY <2>1, <2>2 DEF Clone, Copy, Body, Single
  <2> QED
    BY <2>2, <2>3 DEF Underway
<1>6. CASE CloneForHook(p)
  <2>1. pc'[p] = "prehook" /\ step'[p] = 1
    BY <1>6 DEF CloneForHook, OwnClone, Underway
  <2> QED
    BY <2>1 DEF Underway
<1>7. CASE HookEdits(p) \/ CallerEdits(p)
  <2>1. /\ pc'[p] \in {"prehook", "post", "done"} /\ pc'[p] = pc[p]
        /\ req'[p] = req[p] /\ step'[p] = step[p]
    BY <1>7 DEF HookEdits, CallerEdits
  <2> QED
    BY <2>1 DEF Underway
<1>8. CASE ApplyPatch(p)
  <2>1. /\ pc[p] = "prehook" /\ step[p] = 1 /\ Target(p) # Nil
        /\ req[p].type \in Types /\ req[p].id \in Ids /\ Len(req[p].ops) \in Nat
    BY <1>8, Requested DEF ApplyPatch, Underway, LocalInv
  <2>2. /\ pc'[p] = "patch" /\ step'[p] = 1 /\ req'[p] = req[p] /\ own'[p] = Cell1
        /\ \E c \in Clones(heap[Target(p)]) : heap' = [heap EXCEPT ![Cell1] = c]
        /\ UNCHANGED resources /\ Cell1 \in Refs \ Live
    BY <1>8, <2>1, CellsFresh DEF ApplyPatch, OwnClone, CloneCell
  <2>3. Target(p)' = Target(p) /\ Target(p) # Cell1 /\ Target(p) \in Refs /\ heap[Target(p)] \in Objects
    <3>1. resources[req[p].type][req[p].id] # Cell1
      BY <2>1, <2>2, NotLive
    <3>2. Target(p) = resources[req[p].type][req[p].id] /\ Target(p)' = Target(p)
      BY <2>2 DEF Target
    <3>3. heap[Target(p)] \in Objects
      BY <2>1, <3>2 DEF HeapInv, Present, At, Known
    <3> QED
      BY <2>1, <3>1, <3>2, <3>3
  <2>4. PICK c \in Clones(heap[Target(p)]) : heap' = [heap EXCEPT ![Cell1] = c]
    BY <2>2
  <2>5. PICK x, y, ops : /\ x = Target(p)' /\ y = own'[p] /\ ops = req[p].ops
                         /\ heap'[y] = c /\ c \in Clones(heap'[x])
    BY <2>2, <2>3, <2>4
  <2>6. Edited(c, c, ops, 0)
    BY LatestNext DEF Edited
  <2>7. Applying(heap'[y], heap'[x], ops, 0)
    BY <2>5, <2>6 DEF Applying
  <2> QED
    BY <2>1, <2>2, <2>5, <2>7 DEF Underway
<1>9. CASE ApplyOp(p)
  <2>1. /\ pc[p] = "patch" /\ pc'[p] = "patch" /\ req'[p] = req[p] /\ own'[p] = own[p]
        /\ step[p] \in 1 .. Len(req[p].ops) /\ step'[p] = step[p] + 1
        /\ req[p].ops[step[p]].kind \in SetKinds /\ Len(req[p].ops) \in Nat
        /\ req[p].ops[step[p]] \in PatchOps
        /\ own[p] \in Refs /\ heap[own[p]] \in Objects /\ UNCHANGED resources
        /\ heap' = [heap EXCEPT ![own[p]] = Applied(heap[own[p]], req[p].ops[step[p]])]
    BY <1>9, Requested DEF ApplyOp, LocalInv, HeapInv, Known
  <2>2. PICK k, y, x, ops : /\ k = step[p] - 1 /\ y = own[p] /\ x = Target(p) /\ ops = req[p].ops
                            /\ k \in Nat /\ k + 1 = step[p]
    BY <2>1
  <2>3. heap'[y] = Applied(heap[y], ops[k + 1])
    BY <2>1, <2>2
  <2>4. (\A j \in 1 .. k : ops[j].kind \in SetKinds) /\ Applying(heap[y], heap[x], ops, k)
    BY <2>1, <2>2 DEF Underway
  <2>5. \A j \in 1 .. k + 1 : ops[j].kind \in SetKinds
    BY <2>1, <2>2, <2>4
  <2>6. Applying(heap'[y], heap[x], ops, k + 1)
    <3>1. PICK c \in Clones(heap[x]) : Edited(heap[y], c, ops, k)
      BY <2>4 DEF Applying
    <3>2. Edited(Applied(heap[y], ops[k + 1]), c, ops, k + 1)
      BY <2>1, <2>2, <3>1, EditedNext
    <3> QED
      BY <2>3, <3>2 DEF Applying
  <2>7. heap'[x] = heap[x] /\ Target(p)' = x
    <3>1. x # Nil /\ req[p].type \in Types /\ req[p].id \in Ids
      BY <2>1, <2>2, Requested DEF LocalInv
    <3>2. [Next]_vars
      BY <1>9 DEF Step, Next
    <3>3. x = resources[req[p].type][req[p].id] /\ Target(p)' = x
      BY <2>1, <2>2 DEF Target
    <3> QED
      BY <3>1, <3>2, <3>3, StoredKept DEF Present
  <2>8. step'[p] - 1 = k + 1 /\ step'[p] \in 1 .. Len(req[p].ops) + 1 /\ step'[p] # 1
    BY <2>1, <2>2
  <2>9. PICK z : z = Target(p)' /\ Applying(heap'[y], heap'[z], ops, k + 1)
    BY <2>6, <2>7
  <2> QED
    BY <2>1, <2>2, <2>5, <2>8, <2>9 DEF Underway
<1>10. CASE Snapshot(p)
  <2>1. /\ pc'[p] = "scan" /\ pc[p] = "read" /\ req'[p] = req[p] /\ step'[p] = 1 /\ req[p].op = "List"
        /\ out'[p] = {} /\ UNCHANGED heap
        /\ snap'[p] = {resources[req[p].type][i] : i \in Ids} \ {Nil}
    BY <1>10 DEF Snapshot, RUnlock, Underway, LocalInv
  <2>2. req[p].type \in Types
    BY <2>1, Requested
  <2>3. \A r \in snap'[p] : \E i \in Ids : r = resources[req[p].type][i] /\ heap[r].key = i
    BY <2>1, <2>2 DEF Provenance, Present, At
  <2>4. \A r, s \in snap'[p] \cup out'[p] : heap'[r].key = heap'[s].key => r = s
    BY <2>1, <2>3
  <2> QED
    BY <2>1, <2>4 DEF Underway
<1>11. CASE ListFilter(p)
  <2>1. /\ pc'[p] = "scan" /\ pc[p] = "scan" /\ req'[p] = req[p] /\ step'[p] = 1 /\ req[p].op = "List"
    BY <1>11 DEF ListFilter, Underway
  <2>2. PICK r \in snap[p] :
          /\ snap' = [snap EXCEPT ![p] = @ \ {r}]
          /\ IF Matches(p, heap[r])
             THEN /\ Room
                  /\ \E c \in Clones(heap[r]) : heap' = [heap EXCEPT ![Cell1] = c]
                  /\ out' = [out EXCEPT ![p] = @ \cup {Cell1}]
             ELSE UNCHANGED <<heap, out>>
    BY <1>11 DEF ListFilter
  <2>3. /\ \A x, y \in snap[p] \cup out[p] : heap[x].key = heap[y].key => x = y
        /\ \A x \in out[p] : Single(heap[x])
    BY <2>1 DEF Underway
  <2>4. snap'[p] = snap[p] \ {r}
    BY <2>2
  <2>5. /\ \A x, y \in snap'[p] \cup out'[p] : heap'[x].key = heap'[y].key => x = y
        /\ \A x \in out'[p] : Single(heap'[x])
    <3>1. CASE Matches(p, heap[r])
      <4>1. Cell1 \in Refs \ Live
        BY <2>2, <3>1, CellsFresh
      <4>2. Cell1 \notin snap[p] /\ Cell1 \notin out[p]
        BY <4>1, NotLive
      <4>3. PICK c \in Clones(heap[r]) : heap' = [heap EXCEPT ![Cell1] = c]
        BY <2>2, <3>1
      <4>4. out'[p] = out[p] \cup {Cell1} /\ heap'[Cell1] = c
        BY <2>2, <3>1, <4>1, <4>3
      <4>5. c.key = heap[r].key /\ Single(c)
        <5>1. heap[r] \in Objects
          BY DEF HeapInv, Known
        <5> QED
          BY <5>1, ClonesKeep DEF Single
      <4>6. \A x \in snap[p] \cup out[p] : heap'[x] = heap[x] /\ (x = r => x \in snap[p] /\ x \notin out[p])
        BY <4>2, <4>3 DEF Separation
      <4>7. \A x \in (snap[p] \ {r}) \cup out[p] : heap'[x].key # heap'[Cell1].key
        BY <2>3, <4>4, <4>5, <4>6
      <4>8. \A x \in out'[p] : Single(heap'[x])
        BY <2>3, <4>4, <4>5, <4>6
      <4> QED
        BY <2>3, <2>4, <4>4, <4>6, <4>7, <4>8
    <3>2. CASE ~ Matches(p, heap[r])
      BY <2>2, <2>3, <2>4, <3>2
    <3> QED
      BY <3>1, <3>2
  <2> QED
    BY <2>1, <2>5 DEF Underway
<1> QED
  BY <1>1, <1>2, <1>3, <1>4, <1>5, <1>6, <1>7, <1>8, <1>9, <1>10, <1>11 DEF Acts, Step

\* What the refinement needs to know of the calls under way is invariant.
LEMMA CourseInv == Spec => [](IInv /\ Provenance /\ Course)
<1>1. Init => Course
  BY DEF Init, Course, Underway
<1>2. ASSUME IInv, IInv', Provenance, Course, [Next]_vars
      PROVE  Course'
  <2>1. CASE Tick \/ UNCHANGED vars
    BY <1>2, <2>1 DEF Tick, vars, storeVars, lockVars, Course, Underway, Target
  <2>2. ASSUME NEW p \in Procs, Acts(p), NEW q \in Procs PROVE Underway(q)'
    BY <1>2, <2>2, UnderwayOthers, UnderwayOwn DEF Course
  <2> QED
    BY <1>2, <2>1, <2>2 DEF Next, Acts, Course
<1> QED
  BY <1>1, <1>2, ProvenanceInv, PTL DEF Spec

-----------------------------------------------------------------------------
(* The resources a client sees.                                             *)

\* The second a time is in.
LEMMA InSeconds ==
  ASSUME NEW t \in Times
  PROVE  /\ t \div PerSecond \in Times
         /\ Truncate(t) \div PerSecond = t \div PerSecond
<1>1. t \in Nat /\ PerSecond \in Nat /\ PerSecond > 0 /\ MaxClock \in Nat /\ t <= MaxClock
  BY ClockAssumption DEF Times
<1> DEFINE q == t \div PerSecond
<1>2. q \in Int /\ PerSecond * q <= t /\ t < PerSecond * (q + 1)
  BY <1>1
<1>3. q >= 0
  BY <1>1, <1>2
<1>4. q <= PerSecond * q
  BY <1>1, <1>2, <1>3
<1>5. PerSecond * q \in Int
  BY <1>1, <1>2
<1>6. q \in Times
  BY <1>1, <1>2, <1>3, <1>4, <1>5 DEF Times
<1>7. (PerSecond * q) \div PerSecond = q
  BY <1>1, <1>2
<1> QED
  BY <1>6, <1>7 DEF Truncate

\* The next reading of the clock is in the same second or in the next one.
LEMMA NextSecond ==
  ASSUME NEW t \in Times
  PROVE  (t + 1) \div PerSecond \in {t \div PerSecond, (t \div PerSecond) + 1}
<1>1. t \in Nat /\ PerSecond \in Nat /\ PerSecond > 0
  BY ClockAssumption DEF Times
<1> DEFINE q == t \div PerSecond
           s == (t + 1) \div PerSecond
<1>2. q \in Int /\ PerSecond * q <= t /\ t < PerSecond * (q + 1)
  BY <1>1
<1>3. s \in Int /\ PerSecond * s <= t + 1 /\ t + 1 < PerSecond * (s + 1)
  BY <1>1
<1>4. PerSecond * q < PerSecond * (s + 1) /\ PerSecond * s < PerSecond * (q + 1) + 1
  BY <1>1, <1>2, <1>3
<1>5. q < s + 1
  BY <1>1, <1>2, <1>3, <1>4
<1>6. s <= q + 1
  BY <1>1, <1>2, <1>3, <1>4
<1> QED
  BY <1>2, <1>3, <1>5, <1>6

\* What a resource and a hook's or caller's edit of it show.
LEMMA Shown ==
  ASSUME NEW o \in Known
  PROVE  /\ View(o) \in Views /\ View(o) # Nil
         /\ View(o).key = o.key /\ View(o).name = o.name
         /\ View(o).otherIds = o.otherIds /\ View(o).otherMetas = o.otherMetas
         /\ View([o EXCEPT !.edited = TRUE]) = View(o)
<1>1. /\ o.key \in Ids /\ o.id \in Ids \cup {Nil} /\ o.name \in Attr
      /\ o.created \in Times /\ o.modified \in Times
      /\ o.otherIds \in SUBSET (Ids \cup {Nil}) /\ o.otherMetas \in SUBSET Metas
  BY DEF Known, Objects
<1>2. o.created \div PerSecond \in Times /\ o.modified \div PerSecond \in Times
  BY <1>1, InSeconds
<1>3. View(o) \in Views
  BY <1>1, <1>2 DEF View, Views
<1>4. View([o EXCEPT !.edited = TRUE]) = View(o)
  BY DEF View, Known, Objects
<1> QED
  BY <1>3, <1>4, ViewsAssumption DEF View

\* A view of which a copy was made, written out.
LEMMA CopiedIs ==
  ASSUME NEW v \in Views, NEW i \in Ids \cup {Nil}, NEW m, m.created \in Times, m.modified \in Times
  PROVE  Atomic!Copied(v, i, m)
           = [key |-> v.key, id |-> i, name |-> v.name, created |-> m.created, modified |-> m.modified,
              otherIds |-> {}, otherMetas |-> {}]
<1>1. PICK r, c, d : r = Atomic!Copied(v, i, m) /\ c = m.created /\ d = m.modified
  OBVIOUS
<1>2. r = [v EXCEPT !.id = i, !.created = c, !.modified = d, !.otherIds = {}, !.otherMetas = {}]
  BY <1>1 DEF Atomic!Copied
<1>3. r \in Views
  BY <1>1, <1>2 DEF Views
<1>4. /\ r.key = v.key /\ r.id = i /\ r.name = v.name /\ r.created = c /\ r.modified = d
      /\ r.otherIds = {} /\ r.otherMetas = {}
  BY <1>2 DEF Views
<1>5. r = [key |-> r.key, id |-> r.id, name |-> r.name, created |-> r.created, modified |-> r.modified,
           otherIds |-> r.otherIds, otherMetas |-> r.otherMetas]
  BY <1>3 DEF Views
<1> QED
  BY <1>1, <1>4, <1>5

\* Clone makes one of the copies AtomicStore allows.
LEMMA ClonesShown ==
  ASSUME NEW o \in Known, NEW c \in Clones(o)
  PROVE  View(c) \in Atomic!Copies(View(o)) /\ c \in Known
<1>0. o \in Objects /\ c \in Known
  BY ClonesKeep DEF Known
<1>1. PICK i \in IdsRead(o), m \in {OwnMeta(o)} \cup o.otherMetas :
           /\ i \in Ids \cup {Nil} /\ m \in Metas /\ c = Copy(o, i, m)
  BY <1>0, ClonesFrom
<1>2. /\ c.key = o.key /\ c.id = i /\ c.name = o.name /\ c.otherIds = {} /\ c.otherMetas = {}
      /\ c.created = PerSecond * m.created /\ c.modified = PerSecond * m.modified
  BY <1>0, <1>1, CopyIs
<1>3. c.created \div PerSecond = m.created /\ c.modified \div PerSecond = m.modified
  <2>1. m.created \in Seconds /\ m.modified \in Seconds
    BY <1>1 DEF Metas
  <2> QED
    BY <1>2, <2>1, SecondsType
<1>4. View(c) = [key |-> o.key, id |-> i, name |-> o.name, created |-> m.created,
                 modified |-> m.modified, otherIds |-> {}, otherMetas |-> {}]
  BY <1>2, <1>3 DEF View
<1>5. PICK v \in Views : /\ v = View(o) /\ v.key = o.key /\ v.id = o.id /\ v.name = o.name
                         /\ v.otherIds = o.otherIds /\ v.otherMetas = o.otherMetas
                         /\ OwnMeta(o) = [created |-> v.created, modified |-> v.modified]
  BY Shown DEF View, OwnMeta
<1>6. View(c) = Atomic!Copied(v, i, m)
  <2>1. m.created \in Times /\ m.modified \in Times
    <3>1. c.created \in Times /\ c.modified \in Times
      BY <1>0 DEF Known, Objects
    <3> QED
      BY <1>3, <3>1, InSeconds
  <2>2. i \in Ids \cup {Nil}
    BY <1>1
  <2> QED
    BY <1>4, <1>5, <2>1, <2>2, CopiedIs
<1>7. i \in Atomic!IdsRead(v)
  BY <1>1, <1>5 DEF IdsRead, Atomic!IdsRead
<1>8. m \in {[created |-> v.created, modified |-> v.modified]} \cup v.otherMetas
  BY <1>1, <1>5
<1>9. View(c) \in Atomic!Copies(v)
  BY <1>6, <1>7, <1>8 DEF Atomic!Copies
<1> QED
  BY <1>0, <1>5, <1>9

\* The table a client sees.
LEMMA Entries ==
  ASSUME IInv, Provenance
  PROVE  /\ Table \in [Types -> [Ids -> Views \cup {Nil}]]
         /\ \A t \in Types, i \in Ids :
              /\ Table[t][i] # Nil <=> Present(t, i)
              /\ Present(t, i) => /\ Table[t][i] = View(At(t, i)) /\ At(t, i) \in Known
                                  /\ Table[t][i].key = i /\ Table[t][i].name = At(t, i).name
<1>1. ASSUME NEW t \in Types, NEW i \in Ids, Present(t, i)
      PROVE  /\ At(t, i) \in Known /\ At(t, i).key = i
             /\ View(At(t, i)) \in Views /\ View(At(t, i)) # Nil
             /\ View(At(t, i)).key = i /\ View(At(t, i)).name = At(t, i).name
  <2>1. At(t, i) \in Known /\ At(t, i).key = i
    BY <1>1 DEF IInv, HeapInv, Provenance
  <2> QED
    BY <2>1, Shown
<1> QED
  BY <1>1 DEF Table

\* It changes where resources changes.
LEMMA SameTable ==
  ASSUME IInv, [Next]_vars, UNCHANGED resources
  PROVE  UNCHANGED Table
<1>1. ASSUME NEW t \in Types, NEW i \in Ids
      PROVE  /\ Present(t, i)' <=> Present(t, i)
             /\ Present(t, i) => View(At(t, i))' = View(At(t, i))
  <2>1. Present(t, i)' <=> Present(t, i)
    BY DEF Present
  <2>2. ASSUME Present(t, i) PROVE View(At(t, i))' = View(At(t, i))
    <3>1. heap'[resources[t][i]] = heap[resources[t][i]]
      BY <2>2, StoredKept
    <3> QED
      BY <3>1 DEF At, View
  <2> QED
    BY <2>1, <2>2
<1> QED
  BY <1>1 DEF Table

-----------------------------------------------------------------------------
(* The abstract state after a step.                                         *)

\* The calls of the others are where they were.
LEMMA SameOthers ==
  ASSUME IInv, NEW p \in Procs, Acts(p), NEW q \in Procs \ {p}
  PROVE  /\ Phase'[q] = Phase[q] /\ Draft'[q] = Draft[q]
         /\ AnswerOf'[q] = AnswerOf[q] /\ Items'[q] = Items[q]
<1>1. Undisturbed(q)
  BY Others
<1>2. TookEffect(q)' <=> TookEffect(q)
  BY <1>1 DEF Undisturbed, TookEffect
<1>3. Drawn(q)' <=> Drawn(q)
  BY <1>1 DEF Undisturbed, Drawn
<1>4. Phase'[q] = Phase[q]
  BY <1>1, <1>2, <1>3 DEF Phase, Undisturbed
<1>5. AnswerOf'[q] = AnswerOf[q]
  BY <1>1, <1>2 DEF AnswerOf, Undisturbed
<1>6. Drawn(q) => own[q] # Nil
  BY DEF Drawn, IInv, LocalInv
<1>7. Draft'[q] = Draft[q]
  BY <1>1, <1>3, <1>6 DEF Draft, Undisturbed, View
<1>8. Items'[q] = Items[q]
  <2>1. \A o : Matches(q, o)' <=> Matches(q, o)
    BY <1>1 DEF Undisturbed, Matches
  <2>2. \A r \in out[q] \cup snap[q] : heap'[r] = heap[r]
    BY <1>1 DEF Undisturbed
  <2>3. snap'[q] = snap[q] /\ out'[q] = out[q] /\ req'[q] = req[q]
    BY <1>1 DEF Undisturbed
  <2> QED
    BY <2>2, <2>3 DEF Items, View, Matches
<1> QED
  BY <1>4, <1>5, <1>7, <1>8

\* So a step changes the abstract state of its own goroutine.
LEMMA Frame ==
  ASSUME IInv, NEW p \in Procs, Acts(p), NEW f, NEW d, NEW s, NEW S,
         Phase'[p] = f, Draft'[p] = d, AnswerOf'[p] = s, Items'[p] = S
  PROVE  /\ Phase' = [Phase EXCEPT ![p] = f] /\ Draft' = [Draft EXCEPT ![p] = d]
         /\ AnswerOf' = [AnswerOf EXCEPT ![p] = s] /\ Items' = [Items EXCEPT ![p] = S]
         /\ Phase[p] = f => Phase' = Phase
         /\ Draft[p] = d => Draft' = Draft
         /\ AnswerOf[p] = s => AnswerOf' = AnswerOf
         /\ Items[p] = S => Items' = Items
<1>1. \A q \in Procs \ {p} : /\ Phase'[q] = Phase[q] /\ Draft'[q] = Draft[q]
                             /\ AnswerOf'[q] = AnswerOf[q] /\ Items'[q] = Items[q]
  BY SameOthers
<1>2. Phase' = [Phase EXCEPT ![p] = f] /\ (Phase[p] = f => Phase' = Phase)
  BY <1>1 DEF Phase
<1>3. Draft' = [Draft EXCEPT ![p] = d] /\ (Draft[p] = d => Draft' = Draft)
  BY <1>1 DEF Draft
<1>4. AnswerOf' = [AnswerOf EXCEPT ![p] = s] /\ (AnswerOf[p] = s => AnswerOf' = AnswerOf)
  BY <1>1 DEF AnswerOf
<1>5. Items' = [Items EXCEPT ![p] = S] /\ (Items[p] = S => Items' = Items)
  BY <1>1 DEF Items
<1> QED
  BY <1>2, <1>3, <1>4, <1>5

\* A step that nobody sees.
LEMMA Unseen ==
  ASSUME IInv, NEW p \in Procs, Acts(p), UNCHANGED <<clock, resources, issued, req>>,
         Phase'[p] = Phase[p], Draft'[p] = Draft[p], AnswerOf'[p] = AnswerOf[p], Items'[p] = Items[p]
  PROVE  UNCHANGED Atomic!vars
<1>1. PICK f, d, s, S : f = Phase[p] /\ d = Draft[p] /\ s = AnswerOf[p] /\ S = Items[p]
  OBVIOUS
<1>2. UNCHANGED <<Phase, Draft, AnswerOf, Items>>
  BY <1>1, Frame
<1>3. UNCHANGED Table
  BY SameTable DEF Acts, Next
<1> QED
  BY <1>2, <1>3 DEF Atomic!vars

\* A step by which a call takes effect or is refused.
LEMMA Ends ==
  ASSUME IInv, NEW p \in Procs, Acts(p), UNCHANGED <<clock, issued, req>>, NEW s, NEW S,
         Phase'[p] = "done", Draft'[p] = Nil, AnswerOf'[p] = s, Items'[p] = S
  PROVE  Atomic!Done(p, s, S) /\ (UNCHANGED resources => UNCHANGED Table)
<1>1. /\ Phase' = [Phase EXCEPT ![p] = "done"] /\ Draft' = [Draft EXCEPT ![p] = Nil]
      /\ AnswerOf' = [AnswerOf EXCEPT ![p] = s] /\ Items' = [Items EXCEPT ![p] = S]
  BY Frame
<1>2. UNCHANGED resources => UNCHANGED Table
  BY SameTable DEF Acts, Next
<1> QED
  BY <1>1, <1>2 DEF Atomic!Done

\* The response of a goroutine that has no snapshot.
LEMMA Response ==
  ASSUME NEW p \in Procs
  PROVE  /\ snap[p] = {} => Items[p] = {View(heap[r]) : r \in out[p]}
         /\ snap'[p] = {} => Items'[p] = {View(heap'[r]) : r \in out'[p]}
BY DEF Items, View

-----------------------------------------------------------------------------
(* The actions, one by one.                                                 *)

\* A call arrives, draws its identifier, is refused, or returns.
LEMMA CallMaps ==
  ASSUME IInv, NEW p \in Procs, Call(p)
  PROVE  Atomic!Call(p)
<1>1. PICK r \in Requests : req' = [req EXCEPT ![p] = r]
  BY DEF Call
<1>2. /\ pc[p] = "idle" /\ pc'[p] = "called" /\ own[p] = Nil /\ out[p] = {} /\ snap[p] = {}
      /\ UNCHANGED <<clock, heap, resources, issued, own, out, snap>>
  BY DEF Call, storeVars, IInv, TypeOK, LocalInv
<1>3. Acts(p) /\ [Next]_vars
  BY DEF Acts, Next
<1>4. /\ Phase[p] = "idle" /\ Phase'[p] = "called" /\ Draft[p] = Nil /\ Draft'[p] = Nil
      /\ AnswerOf[p] = "none" /\ AnswerOf'[p] = "none" /\ Items[p] = {} /\ Items'[p] = {}
  BY <1>2 DEF Phase, TookEffect, Drawn, Draft, AnswerOf, Items
<1>5. /\ Phase' = [Phase EXCEPT ![p] = "called"]
      /\ UNCHANGED <<Table, Draft, AnswerOf, Items>>
  BY <1>2, <1>3, <1>4, Frame, SameTable
<1> QED
  BY <1>1, <1>2, <1>4, <1>5 DEF Atomic!Call

LEMMA PrepareMaps ==
  ASSUME IInv, NEW p \in Procs, Prepare(p)
  PROVE  Atomic!Draw(p)
<1>1. PICK i \in NewIds :
        /\ issued' = issued \cup {i}
        /\ heap' = [heap EXCEPT ![Cell1] =
             [Clone(Body(req[p])) EXCEPT !.key = i, !.id = i, !.created = clock, !.modified = clock]]
  BY DEF Prepare
<1>2. /\ pc[p] = "called" /\ req[p].op = "Create" /\ pc'[p] = "wwait" /\ own'[p] = Cell1
      /\ out'[p] = {} /\ snap'[p] = {} /\ out[p] = {} /\ snap[p] = {} /\ own[p] = Nil
      /\ UNCHANGED <<clock, resources, req>> /\ Cell1 \in Refs
  BY CellsFresh DEF Prepare, IInv, TypeOK, LocalInv
<1>3. Acts(p) /\ [Next]_vars
  BY DEF Acts, Step, Next
<1> DEFINE d == [key |-> i, id |-> i, name |-> req[p].name, created |-> clock \div PerSecond,
                 modified |-> clock \div PerSecond, otherIds |-> {}, otherMetas |-> {}]
<1>4. View(heap'[Cell1]) = d
  BY <1>1, <1>2 DEF View, Clone, Copy, Body, IInv, TypeOK
<1>5. /\ Phase[p] = "called" /\ Phase'[p] = "drawn" /\ Draft'[p] = d
      /\ AnswerOf[p] = "none" /\ AnswerOf'[p] = "none" /\ Items[p] = {} /\ Items'[p] = {}
  BY <1>2, <1>4 DEF Phase, TookEffect, Drawn, Draft, AnswerOf, Items, View
<1>6. /\ Phase' = [Phase EXCEPT ![p] = "drawn"] /\ Draft' = [Draft EXCEPT ![p] = d]
      /\ UNCHANGED <<Table, AnswerOf, Items>>
  BY <1>2, <1>3, <1>5, Frame, SameTable
<1> QED
  BY <1>1, <1>2, <1>5, <1>6 DEF Atomic!Draw, NewIds

LEMMA RefuseMaps ==
  ASSUME IInv, NEW p \in Procs, Refuse(p)
  PROVE  Atomic!Refuse(p)
<1>1. PICK s \in {"internal", "rejected", "panic"} : status' = [status EXCEPT ![p] = s]
  BY DEF Refuse, Answer
<1>2. /\ pc[p] = "called" /\ pc'[p] = "done" /\ status'[p] = s
      /\ out'[p] = {} /\ snap'[p] = {} /\ UNCHANGED <<clock, resources, issued, req>>
  BY <1>1 DEF Refuse, storeVars, IInv, TypeOK, LocalInv
<1>3. Acts(p)
  BY DEF Acts, Step
<1>4. /\ Phase[p] = "called" /\ Phase'[p] = "done" /\ Draft'[p] = Nil /\ AnswerOf'[p] = s /\ Items'[p] = {}
  BY <1>2 DEF Phase, TookEffect, Drawn, Draft, AnswerOf, Items
<1>5. Atomic!Done(p, s, {}) /\ UNCHANGED Table
  BY <1>2, <1>3, <1>4, Ends
<1> QED
  BY <1>4, <1>5 DEF Atomic!Refuse, Atomic!Fail

LEMMA ReturnMaps ==
  ASSUME IInv, NEW p \in Procs, Return(p)
  PROVE  Atomic!Return(p)
<1>1. /\ pc[p] = "done" /\ pc'[p] = "idle" /\ out'[p] = {} /\ snap'[p] = {}
      /\ req' = [req EXCEPT ![p] = Nil] /\ UNCHANGED <<clock, resources, issued>>
  BY DEF Return, storeVars, IInv, TypeOK, LocalInv
<1>2. Acts(p) /\ [Next]_vars
  BY DEF Acts, Step, Next
<1>3. /\ Phase[p] = "done" /\ Phase'[p] = "idle" /\ Draft[p] = Nil /\ Draft'[p] = Nil
      /\ AnswerOf'[p] = "none" /\ Items'[p] = {}
  BY <1>1 DEF Phase, TookEffect, Drawn, Draft, AnswerOf, Items
<1>4. /\ Phase' = [Phase EXCEPT ![p] = "idle"] /\ UNCHANGED <<Table, Draft>>
      /\ AnswerOf' = [AnswerOf EXCEPT ![p] = "none"] /\ Items' = [Items EXCEPT ![p] = {}]
  BY <1>1, <1>2, <1>3, Frame, SameTable
<1> QED
  BY <1>1, <1>3, <1>4 DEF Atomic!Return

\* An error under the write lock.
LEMMA FailMaps ==
  ASSUME IInv, NEW p \in Procs, pc[p] \in {"write", "prehook", "patch"}, NEW s, Fail(p, s),
         Acts(p)
  PROVE  Atomic!Fail(p, s)
<1>1. /\ pc'[p] = "done" /\ status'[p] = s /\ out'[p] = {} /\ snap'[p] = {}
      /\ UNCHANGED <<clock, resources, issued, req>>
  BY DEF Fail, Answer, Unlock, storeVars, IInv, TypeOK, LocalInv
<1>2. Phase'[p] = "done" /\ Draft'[p] = Nil /\ AnswerOf'[p] = s /\ Items'[p] = {}
  BY <1>1 DEF Phase, TookEffect, Drawn, Draft, AnswerOf, Items
<1>3. Atomic!Done(p, s, {}) /\ UNCHANGED Table
  BY <1>1, <1>2, Ends
<1> QED
  BY <1>3 DEF Atomic!Fail

\* In a write section a call other than a Create has not begun, as far as its
\* caller can tell, and its resource is the one in the table.
LEMMA Current ==
  ASSUME IInv, Provenance, NEW p \in Procs, pc[p] \in {"read", "write", "prehook", "patch"},
         req[p].op \in {"Get", "Replace", "Patch", "Delete"}
  PROVE  /\ Phase[p] = "called" /\ req[p].type \in Types /\ req[p].id \in Ids
         /\ Atomic!Current(p) # Nil <=> Target(p) # Nil
         /\ Target(p) # Nil =>
              /\ Atomic!Current(p) = View(heap[Target(p)]) /\ Atomic!Current(p).key = req[p].id
              /\ heap[Target(p)] \in Known /\ heap[Target(p)] = At(req[p].type, req[p].id)
              /\ heap[Target(p)].key = req[p].id
<1>1. req[p].type \in Types /\ req[p].id \in Ids
  BY Requested
<1>2. Phase[p] = "called"
  BY DEF Phase, TookEffect, Drawn
<1>3. PICK t \in Types, i \in Ids : t = req[p].type /\ i = req[p].id
  BY <1>1
<1>4. Atomic!Current(p) = Table[t][i] /\ Target(p) = resources[t][i]
  BY <1>3 DEF Atomic!Current, Target
<1>5. Present(t, i) => At(t, i).key = i
  BY DEF Provenance
<1> QED
  BY <1>1, <1>2, <1>3, <1>4, <1>5, Entries DEF Present, At

LEMMA NotFoundMaps ==
  ASSUME IInv, Provenance, NEW p \in Procs,
         NotFound(p) \/ (Get(p) /\ Target(p) = Nil)
  PROVE  Atomic!NotFound(p)
<1>1. /\ pc[p] \in {"write", "read"} /\ req[p].op \in {"Get", "Replace", "Patch", "Delete"}
      /\ Target(p) = Nil
  BY DEF NotFound, Get, IInv, LocalInv
<1>2. Acts(p)
  BY DEF Acts, Step
<1>3. Atomic!Fail(p, "notFound")
  <2>1. CASE NotFound(p)
    BY <1>2, <2>1, FailMaps DEF NotFound
  <2>2. CASE Get(p)
    <3>1. /\ pc'[p] = "done" /\ status'[p] = "notFound" /\ out'[p] = {} /\ snap'[p] = {}
          /\ UNCHANGED <<clock, resources, issued, req>>
      BY <1>1, <2>2 DEF Get, Answer, RUnlock, storeVars, IInv, TypeOK, LocalInv
    <3>2. Phase'[p] = "done" /\ Draft'[p] = Nil /\ AnswerOf'[p] = "notFound" /\ Items'[p] = {}
      BY <3>1 DEF Phase, TookEffect, Drawn, Draft, AnswerOf, Items
    <3>3. Atomic!Done(p, "notFound", {}) /\ UNCHANGED Table
      BY <1>2, <3>1, <3>2, Ends
    <3> QED
      BY <3>3 DEF Atomic!Fail
  <2> QED
    BY <2>1, <2>2
<1>4. Phase[p] = "called" /\ Atomic!Current(p) = Nil
  BY <1>1, Current
<1> QED
  BY <1>1, <1>3, <1>4 DEF Atomic!NotFound, Atomic!On

LEMMA GetMaps ==
  ASSUME IInv, Provenance, NEW p \in Procs, Get(p), Target(p) # Nil
  PROVE  Atomic!Get(p)
<1>1. /\ pc[p] = "read" /\ req[p].op = "Get" /\ Room
      /\ \E c \in Clones(heap[Target(p)]) : heap' = [heap EXCEPT ![Cell1] = c]
      /\ pc'[p] = "done" /\ status'[p] = "ok" /\ out'[p] = {Cell1} /\ snap'[p] = {}
      /\ UNCHANGED <<clock, resources, issued, req>>
  BY DEF Get, CloneCell, Answer, RUnlock, storeVars, IInv, TypeOK, LocalInv
<1>2. Cell1 \in Refs
  BY <1>1, CellsFresh
<1>3. /\ Phase[p] = "called" /\ Atomic!Current(p) # Nil
      /\ Atomic!Current(p) = View(heap[Target(p)]) /\ heap[Target(p)] \in Known
  BY <1>1, Current
<1>4. PICK c \in Clones(heap[Target(p)]) : heap' = [heap EXCEPT ![Cell1] = c]
  BY <1>1
<1>5. PICK v : v = View(heap'[Cell1]) /\ v \in Atomic!Copies(Atomic!Current(p))
  <2>1. heap'[Cell1] = c
    BY <1>2, <1>4 DEF IInv, TypeOK
  <2> QED
    BY <1>3, <1>4, <2>1, ClonesShown
<1>6. /\ Phase'[p] = "done" /\ Draft'[p] = Nil /\ AnswerOf'[p] = "ok" /\ Items'[p] = {v}
  BY <1>1, <1>5, Response DEF Phase, TookEffect, Drawn, Draft, AnswerOf
<1>7. Atomic!Done(p, "ok", {v}) /\ UNCHANGED Table
  <2>1. Acts(p)
    BY DEF Acts, Step
  <2> QED
    BY <1>1, <1>6, <2>1, Ends
<1> QED
  BY <1>1, <1>3, <1>5, <1>7 DEF Atomic!Get, Atomic!On

LEMMA DeleteMaps ==
  ASSUME IInv, Provenance, NEW p \in Procs, Delete(p)
  PROVE  Atomic!Delete(p)
<1>1. /\ pc[p] = "write" /\ req[p].op = "Delete" /\ Target(p) # Nil /\ pc'[p] = "post"
      /\ resources' = [resources EXCEPT ![req[p].type][req[p].id] = Nil]
      /\ own'[p] = Nil /\ out'[p] = {} /\ snap'[p] = {}
      /\ UNCHANGED <<clock, heap, issued, req>>
  BY DEF Delete, IInv, TypeOK, LocalInv
<1>2. Acts(p)
  BY DEF Acts, Step
<1>3. /\ Phase'[p] = "done" /\ Draft'[p] = Nil /\ AnswerOf'[p] = "ok" /\ Items'[p] = {}
  BY <1>1 DEF Phase, TookEffect, Drawn, Draft, AnswerOf, Items
<1>4. Atomic!Done(p, "ok", {})
  BY <1>1, <1>2, <1>3, Ends
<1>5. Phase[p] = "called" /\ Atomic!Current(p) # Nil /\ req[p].type \in Types /\ req[p].id \in Ids
  BY <1>1, Current
<1>6. Table' = [Table EXCEPT ![req[p].type][req[p].id] = Nil]
  <2>1. PICK t \in Types, i \in Ids : t = req[p].type /\ i = req[p].id
    BY <1>5
  <2>2. \A u \in Types, j \in Ids :
          resources'[u][j] = IF u = t /\ j = i THEN Nil ELSE resources[u][j]
    BY <1>1, <2>1 DEF IInv, TypeOK
  <2>3. \A u \in Types, j \in Ids : Table'[u][j] = IF u = t /\ j = i THEN Nil ELSE Table[u][j]
    BY <1>1, <2>2 DEF Table, Present, At, View
  <2>4. /\ Table \in [Types -> [Ids -> Views \cup {Nil}]]
        /\ Table' = [u \in Types |-> [j \in Ids |-> Table'[u][j]]]
    BY Entries DEF Table
  <2> QED
    BY <2>1, <2>3, <2>4
<1> QED
  BY <1>1, <1>4, <1>5, <1>6 DEF Atomic!Delete, Atomic!On

\* A call stores the resource o and answers with a copy of it.
LEMMA PublishMaps ==
  ASSUME IInv, Provenance, NEW p \in Procs, Acts(p), pc[p] \in {"write", "patch"},
         NEW i \in Ids, NEW o \in Known, o.key = i, NEW r \in Refs, NEW copy \in Refs \ Live, r # copy,
         Publish(p, i, r, o, copy)
  PROVE  Atomic!Put(p, View(o))
<1>1. /\ resources' = [resources EXCEPT ![req[p].type][i] = r]
      /\ heap'[r] = o /\ heap'[copy] \in Clones(o)
      /\ pc'[p] = "post" /\ own'[p] = Nil /\ out'[p] = {copy} /\ snap'[p] = {}
      /\ UNCHANGED <<clock, issued, req>>
  BY DEF Publish, IInv, TypeOK, LocalInv
<1>2. req[p].type \in Types
  BY Requested
<1>3. PICK v, w : v = View(o) /\ v.key = i /\ w = View(heap'[copy]) /\ w \in Atomic!Copies(v)
  BY <1>1, Shown, ClonesShown
<1>4. /\ Phase'[p] = "done" /\ Draft'[p] = Nil /\ AnswerOf'[p] = "ok" /\ Items'[p] = {w}
  BY <1>1, <1>3, Response DEF Phase, TookEffect, Drawn, Draft, AnswerOf
<1>5. Atomic!Done(p, "ok", {w})
  BY <1>1, <1>4, Ends
<1>6. Table' = [Table EXCEPT ![req[p].type][i] = v]
  <2>1. Table'[req[p].type][i] = v
    <3>1. resources'[req[p].type][i] = r /\ r # Nil
      BY <1>1, <1>2, NilAssumption DEF IInv, TypeOK
    <3>2. PICK t \in Types : t = req[p].type
      BY <1>2
    <3>3. resources'[t][i] = r /\ r # Nil
      BY <3>1, <3>2
    <3>4. Table'[t][i] = View(o)
      BY <1>1, <3>3 DEF Table, Present, At, View
    <3> QED
      BY <1>3, <3>2, <3>4
  <2>2. ASSUME NEW t \in Types, NEW j \in Ids, t # req[p].type \/ j # i
        PROVE  Table'[t][j] = Table[t][j]
    <3>1. resources'[t][j] = resources[t][j]
      BY <1>1, <2>2 DEF IInv, TypeOK
    <3>2. Present(t, j) => heap'[resources[t][j]] = heap[resources[t][j]]
      BY StoredKept DEF Acts, Next
    <3> QED
      BY <3>1, <3>2 DEF Table, Present, At, View
  <2>3. /\ Table \in [Types -> [Ids -> Views \cup {Nil}]]
        /\ Table' = [t \in Types |-> [j \in Ids |-> Table'[t][j]]]
    BY Entries DEF Table
  <2> QED
    BY <1>2, <2>1, <2>2, <2>3
<1> QED
  BY <1>3, <1>5, <1>6 DEF Atomic!Put

\* The names in the table are those the store compares.
LEMMA SameTaken ==
  ASSUME IInv, Provenance, NEW t \in Types, NEW n
  PROVE  Atomic!Taken(t, n) <=> Taken(t, n)
<1>1. \A m : Atomic!EqualFold(m, n) <=> EqualFold(m, n)
  BY DEF Atomic!EqualFold, EqualFold
<1>2. \A i \in Ids : /\ Table[t][i] # Nil <=> resources[t][i] # Nil
                     /\ resources[t][i] # Nil => Table[t][i].name = heap[resources[t][i]].name
  BY Entries DEF Present, At
<1> QED
  BY <1>1, <1>2 DEF Atomic!Taken, Taken

LEMMA CreateMaps ==
  ASSUME IInv, Provenance, Course, NEW p \in Procs, Create(p) \/ Conflict(p)
  PROVE  Atomic!Create(p)
<1>1. pc[p] = "write" /\ req[p].op = "Create" /\ Acts(p)
  BY DEF Create, Conflict, Acts, Step
<1>2. own[p] \in Refs /\ heap[own[p]] \in Known /\ heap[own[p]].name = req[p].name
  BY <1>1 DEF Course, Underway, IInv, TypeOK, LocalInv, HeapInv
<1>3. Phase[p] = "drawn" /\ Draft[p] = View(heap[own[p]])
  BY <1>1 DEF Phase, TookEffect, Drawn, Draft
<1>4. Atomic!Taken(req[p].type, req[p].name) <=> Taken(req[p].type, heap[own[p]].name)
  <2>1. PICK t, n : t = req[p].type /\ n = req[p].name /\ t \in Types
    BY <1>1, Requested
  <2> QED
    BY <1>2, <2>1, SameTaken
<1>5. CASE Conflict(p)
  <2>1. Atomic!Fail(p, "conflict")
    BY <1>1, <1>5, FailMaps DEF Conflict
  <2> QED
    BY <1>3, <1>4, <1>5, <2>1 DEF Conflict, Atomic!Create
<1>6. CASE Create(p)
  <2>1. Cell1 \in Refs \ Live /\ own[p] # Cell1
    BY <1>6, CellsFresh, NotLive DEF Create
  <2>2. PICK o, i, r, c : o = heap[own[p]] /\ i = o.key /\ r = own[p] /\ c = Cell1
    OBVIOUS
  <2>3. o \in Known /\ i \in Ids /\ r \in Refs /\ c \in Refs \ Live /\ r # c /\ Publish(p, i, r, o, c)
    BY <1>2, <1>6, <2>1, <2>2 DEF Create, Known
  <2>4. Atomic!Put(p, View(o))
    BY <1>1, <2>2, <2>3, PublishMaps
  <2> QED
    BY <1>3, <1>4, <1>6, <2>2, <2>4 DEF Create, Atomic!Create
<1> QED
  BY <1>5, <1>6

LEMMA ReplaceMaps ==
  ASSUME IInv, Provenance, NEW p \in Procs, Replace(p)
  PROVE  Atomic!Replace(p)
<1>1. /\ pc[p] = "write" /\ req[p].op = "Replace" /\ Target(p) # Nil /\ Acts(p)
      /\ Publish(p, req[p].id, Cell1, Replacement(p), Cell2)
      /\ Cell1 \in Refs \ Live /\ Cell2 \in Refs \ Live /\ Cell1 # Cell2
  BY CellsFresh DEF Replace, Acts, Step
<1>2. /\ Phase[p] = "called" /\ req[p].id \in Ids /\ Atomic!Current(p) # Nil
      /\ Atomic!Current(p) = View(heap[Target(p)]) /\ heap[Target(p)] \in Known
  BY <1>1, Current
<1>3. PICK o, e, i : o = Replacement(p) /\ e = heap[Target(p)] /\ i = req[p].id
  OBVIOUS
<1>4. o = [key |-> i, id |-> i, name |-> req[p].name, created |-> e.created, modified |-> clock,
           otherIds |-> {}, otherMetas |-> {}, edited |-> FALSE]
  BY <1>3 DEF Replacement, Clone, Copy, Body
<1>5. o \in Known /\ o.key = i
  <2>1. i \in Ids /\ req[p].name \in Attr /\ clock \in Times /\ e.created \in Times
    BY <1>1, <1>2, <1>3, Requested DEF IInv, TypeOK, Known, Objects
  <2> QED
    BY <1>4, <2>1 DEF Known, Objects
<1>6. View(o) = [key |-> i, id |-> i, name |-> req[p].name, created |-> Atomic!Current(p).created,
                 modified |-> clock \div PerSecond, otherIds |-> {}, otherMetas |-> {}]
  <2>1. Atomic!Current(p).created = e.created \div PerSecond
    BY <1>2, <1>3 DEF View
  <2> QED
    BY <1>4, <2>1 DEF View
<1>7. Atomic!Put(p, View(o))
  <2>1. PICK c1, c2 : c1 = Cell1 /\ c2 = Cell2
    OBVIOUS
  <2>2. c1 \in Refs /\ c2 \in Refs \ Live /\ c1 # c2 /\ i \in Ids /\ Publish(p, i, c1, o, c2)
    BY <1>1, <1>2, <1>3, <2>1
  <2> QED
    BY <1>1, <1>5, <2>2, PublishMaps
<1> QED
  BY <1>1, <1>2, <1>3, <1>6, <1>7 DEF Atomic!Replace, Atomic!On

\* The value after all operations, when o is what they made of the clone c.
LEMMA PatchedIs ==
  ASSUME NEW o \in Objects, NEW c, NEW ops, Edited(o, c, ops, Len(ops)), NEW t \in Times,
         NEW v \in Views, v.name = c.name, v.otherIds = c.otherIds, v.otherMetas = c.otherMetas
  PROVE  Atomic!Patched(v, ops, t)
           = [key |-> v.key, id |-> v.id, name |-> o.name, created |-> v.created, modified |-> t,
              otherIds |-> o.otherIds, otherMetas |-> o.otherMetas]
<1> DEFINE last(kind) == Atomic!Latest(ops, Len(ops), kind)
           op(kind) == ops[CHOOSE k \in last(kind) : TRUE]
<1>0. PICK n \in Attr, I \in SUBSET (Ids \cup {Nil}), M \in SUBSET Metas :
        n = o.name /\ I = o.otherIds /\ M = o.otherMetas
  BY DEF Objects
<1>1. n = IF last("userName") = {} THEN v.name ELSE op("userName").name
  BY <1>0 DEF Edited
<1>2. I = IF last("id") = {} THEN v.otherIds ELSE op("id").ids
  BY <1>0 DEF Edited
<1>3. M = IF last("meta") = {} THEN v.otherMetas ELSE op("meta").metas
  BY <1>0 DEF Edited
<1>4. Atomic!Patched(v, ops, t) =
        [v EXCEPT !.name = IF last("userName") = {} THEN v.name ELSE op("userName").name,
                  !.otherIds = IF last("id") = {} THEN v.otherIds ELSE op("id").ids,
                  !.otherMetas = IF last("meta") = {} THEN v.otherMetas ELSE op("meta").metas,
                  !.modified = t]
  BY DEF Atomic!Patched
<1>5. PICK r : /\ r = Atomic!Patched(v, ops, t)
               /\ r = [v EXCEPT !.name = n, !.otherIds = I, !.otherMetas = M, !.modified = t]
  BY <1>1, <1>2, <1>3, <1>4, Zenon
<1>6. r \in Views
  BY <1>5 DEF Views
<1>7. /\ r.key = v.key /\ r.id = v.id /\ r.name = n /\ r.created = v.created /\ r.modified = t
      /\ r.otherIds = I /\ r.otherMetas = M
  BY <1>5 DEF Views
<1>8. r = [key |-> r.key, id |-> r.id, name |-> r.name, created |-> r.created, modified |-> r.modified,
           otherIds |-> r.otherIds, otherMetas |-> r.otherMetas]
  BY <1>6 DEF Views
<1> QED
  BY <1>0, <1>5, <1>7, <1>8

\* All operations of a PATCH took effect, or the first that cannot has ended it.
LEMMA PatchMaps ==
  ASSUME IInv, Provenance, Course, NEW p \in Procs, Patch(p) \/ PatchFails(p)
  PROVE  Atomic!Patch(p)
<1>1. /\ pc[p] = "patch" /\ req[p].op = "Patch" /\ Target(p) # Nil /\ own[p] # Nil /\ Acts(p)
      /\ own[p] \in Refs /\ heap[own[p]] \in Known
  BY DEF Patch, PatchFails, Acts, Step, IInv, TypeOK, LocalInv, HeapInv
<1>2. PICK ops, k, a : ops = req[p].ops /\ k = step[p] /\ a = own[p]
  OBVIOUS
<1>3. /\ ops \in Seq(PatchOps) /\ Len(ops) \in Nat /\ k \in 1 .. Len(ops) + 1
      /\ \A j \in 1 .. k - 1 : ops[j].kind \in SetKinds
      /\ Applying(heap[a], heap[Target(p)], ops, k - 1)
      /\ \A j \in 1 .. Len(ops) : ops[j].kind \in SetKinds \cup {"noTarget", "badPatch"}
  <2>1. \A j \in 1 .. Len(ops) : ops[j] \in PatchOps
    BY <1>1, <1>2, Requested
  <2> QED
    BY <1>1, <1>2, <2>1, Requested DEF Course, Underway, PatchOps
<1>4. /\ Phase[p] = "called" /\ req[p].id \in Ids /\ Atomic!Current(p) # Nil
      /\ Atomic!Current(p) = View(heap[Target(p)]) /\ heap[Target(p)] \in Known
  BY <1>1, Current
<1>5. Atomic!On(p, "Patch", TRUE)
  BY <1>1, <1>4 DEF Atomic!On
<1>6. CASE PatchFails(p)
  <2>1. k \in Atomic!Failing(ops) /\ Fail(p, ops[k].kind)
    BY <1>2, <1>3, <1>6 DEF PatchFails, Atomic!Failing
  <2>2. \A j \in Atomic!Failing(ops) : k <= j
    BY <1>3 DEF Atomic!Failing, SetKinds
  <2>3. Atomic!Fail(p, ops[k].kind)
    BY <1>1, <2>1, FailMaps
  <2> QED
    BY <1>2, <1>5, <2>1, <2>2, <2>3 DEF Atomic!Patch
<1>7. CASE Patch(p)
  <2>1. k = Len(ops) + 1
    BY <1>2, <1>3, <1>7 DEF Patch
  <2>2. Atomic!Failing(ops) = {}
    BY <1>3, <2>1 DEF Atomic!Failing, SetKinds
  <2>3. PICK o, e, i, r : o = [heap[a] EXCEPT !.modified = clock] /\ e = heap[Target(p)] /\ i = req[p].id /\ r = Cell1
    OBVIOUS
  <2>4. /\ r \in Refs \ Live /\ a # r /\ a \in Refs /\ Publish(p, i, a, o, r)
    BY <1>1, <1>2, <1>7, <2>3, CellsFresh, NotLive DEF Patch
  <2>5. heap[a].key = i
    BY <1>1, <1>2, <2>3 DEF Provenance, Origin
  <2>6. heap[a] \in Objects /\ e \in Known /\ clock \in Times
    BY <1>1, <1>2, <1>4, <2>3 DEF Known, IInv, TypeOK
  <2>7. /\ o \in Objects
        /\ o.key = heap[a].key /\ o.id = heap[a].id /\ o.name = heap[a].name
        /\ o.created = heap[a].created /\ o.modified = clock
        /\ o.otherIds = heap[a].otherIds /\ o.otherMetas = heap[a].otherMetas
    BY <2>3, <2>6 DEF Objects
  <2>8. o \in Known /\ o.key = i
    BY <1>4, <2>3, <2>5, <2>7 DEF Known
  <2>9. PICK c \in Clones(e) : Edited(heap[a], c, ops, Len(ops))
    BY <1>3, <2>1, <2>3 DEF Applying
  <2>10. View(c) \in Atomic!Copies(View(e)) /\ c \in Known
    BY <2>6, <2>9, ClonesShown
  <2>11. PICK v \in Views : /\ v = View(c) /\ v.key = c.key /\ v.id = c.id /\ v.name = c.name
                            /\ v.created = c.created \div PerSecond
                            /\ v.otherIds = c.otherIds /\ v.otherMetas = c.otherMetas
    <3>1. View(c) \in Views
      BY <2>10, Shown
    <3> QED
      BY <3>1 DEF View
  <2>12. PICK t \in Times : t = clock \div PerSecond
    BY <2>6, InSeconds
  <2>13. Atomic!Patched(v, ops, t)
           = [key |-> v.key, id |-> v.id, name |-> heap[a].name, created |-> v.created, modified |-> t,
              otherIds |-> heap[a].otherIds, otherMetas |-> heap[a].otherMetas]
    BY <2>6, <2>9, <2>11, PatchedIs
  <2>14. View(o) = Atomic!Patched(v, ops, t)
    BY <2>7, <2>9, <2>11, <2>12, <2>13 DEF View, Edited
  <2>15. Atomic!Put(p, View(o))
    BY <1>1, <1>4, <2>3, <2>4, <2>8, PublishMaps
  <2>16. \E x \in Atomic!Copies(Atomic!Current(p)) : Atomic!Put(p, Atomic!Patched(x, ops, clock \div PerSecond))
    BY <1>4, <2>3, <2>10, <2>11, <2>12, <2>14, <2>15
  <2> QED
    BY <1>2, <1>5, <2>2, <2>16 DEF Atomic!Patch
<1> QED
  BY <1>6, <1>7

LEMMA HookRefusesMaps ==
  ASSUME IInv, NEW p \in Procs, HookRefuses(p)
  PROVE  Atomic!Refuse(p)
<1>1. PICK s \in {"rejected", "panic"} : Fail(p, s)
  BY DEF HookRefuses
<1>2. pc[p] = "prehook" /\ Acts(p)
  BY DEF HookRefuses, Acts, Step
<1>3. Phase[p] = "called"
  BY <1>2 DEF Phase, TookEffect, Drawn
<1>4. Atomic!Fail(p, s)
  BY <1>1, <1>2, FailMaps
<1> QED
  BY <1>3, <1>4 DEF Atomic!Refuse

\* A hook that ran after the effect returned, or panicked.
LEMMA PostHooksMaps ==
  ASSUME IInv, Course, NEW p \in Procs, PostHooks(p)
  PROVE  Atomic!Panic(p) \/ UNCHANGED Atomic!vars
<1>1. /\ pc[p] = "post" /\ pc'[p] = "done" /\ req[p].op \in Writes /\ Acts(p) /\ [Next]_vars
      /\ own[p] = Nil /\ own'[p] = Nil /\ snap[p] = {} /\ snap'[p] = {}
      /\ UNCHANGED <<clock, heap, resources, issued, req>>
  BY DEF PostHooks, Unlock, storeVars, Acts, Step, Next, Course, Underway, IInv, LocalInv
<1>2. /\ Phase[p] = "done" /\ Phase'[p] = "done" /\ Draft[p] = Nil /\ Draft'[p] = Nil
      /\ AnswerOf[p] = "ok" /\ AnswerOf'[p] = status'[p]
  BY <1>1 DEF Phase, TookEffect, Drawn, Draft, AnswerOf
<1>3. CASE status'[p] = "ok" /\ out'[p] = out[p]
  <2>1. Items'[p] = Items[p]
    BY <1>1, <1>3, Response
  <2> QED
    BY <1>1, <1>2, <1>3, <2>1, Unseen
<1>4. CASE status'[p] = "panic" /\ out'[p] = {}
  <2>1. Items'[p] = {}
    BY <1>1, <1>4, Response
  <2>2. /\ AnswerOf' = [AnswerOf EXCEPT ![p] = "panic"] /\ Items' = [Items EXCEPT ![p] = {}]
        /\ UNCHANGED <<Phase, Draft, Table>>
    BY <1>1, <1>2, <1>4, <2>1, Frame, SameTable
  <2> QED
    BY <1>1, <1>2, <2>2 DEF Atomic!Panic, Writes
<1>5. \/ status'[p] = "ok" /\ out'[p] = out[p]
      \/ status'[p] = "panic" /\ out'[p] = {}
  BY DEF PostHooks, Answer, IInv, TypeOK
<1> QED
  BY <1>3, <1>4, <1>5

-----------------------------------------------------------------------------
(* List.                                                                    *)

\* The snapshot, filtered, is what matched when it was taken.
LEMMA SnapshotMaps ==
  ASSUME IInv, Provenance, NEW p \in Procs, Snapshot(p)
  PROVE  Atomic!List(p)
<1>1. /\ pc[p] = "read" /\ req[p].op = "List" /\ pc'[p] = "scan" /\ Acts(p) /\ [Next]_vars
      /\ own[p] = Nil /\ own'[p] = Nil /\ out[p] = {} /\ out'[p] = {} /\ snap[p] = {}
      /\ snap'[p] = {resources[req[p].type][i] : i \in Ids} \ {Nil}
      /\ UNCHANGED <<clock, heap, resources, issued, req>>
  BY DEF Snapshot, RUnlock, storeVars, Acts, Step, Next, IInv, TypeOK, LocalInv
<1>2. PICK t, n : t = req[p].type /\ n = req[p].name /\ t \in Types
  BY <1>1, Requested
<1>3. Items'[p] = Atomic!Matching(p)
  <2>1. Items'[p] = {View(heap[r]) : r \in {s \in snap'[p] : n = Nil \/ EqualFold(heap[s].name, n)}}
    BY <1>1, <1>2 DEF Items, Matches, View
  <2>2. Atomic!Matching(p) = {v \in {Table[t][i] : i \in Ids} \ {Nil} : n = Nil \/ EqualFold(v.name, n)}
    BY <1>2 DEF Atomic!Matching, Atomic!EqualFold, EqualFold
  <2>3. \A i \in Ids : /\ Table[t][i] # Nil <=> resources[t][i] # Nil
                       /\ resources[t][i] # Nil => /\ Table[t][i] = View(heap[resources[t][i]])
                                                   /\ Table[t][i].name = heap[resources[t][i]].name
    BY <1>2, Entries DEF Present, At
  <2>4. ASSUME NEW v \in Items'[p] PROVE v \in Atomic!Matching(p)
    <3>1. PICK r \in snap'[p] : v = View(heap[r]) /\ (n = Nil \/ EqualFold(heap[r].name, n))
      BY <2>1, <2>4
    <3>2. PICK i \in Ids : r = resources[t][i] /\ r # Nil
      BY <1>1, <1>2, <3>1
    <3> QED
      BY <2>2, <2>3, <3>1, <3>2
  <2>5. ASSUME NEW v \in Atomic!Matching(p) PROVE v \in Items'[p]
    <3>1. PICK i \in Ids : v = Table[t][i] /\ v # Nil /\ (n = Nil \/ EqualFold(v.name, n))
      BY <2>2, <2>5
    <3>2. PICK r : r = resources[t][i]
      OBVIOUS
    <3>3. r \in snap'[p] /\ v = View(heap[r]) /\ (n = Nil \/ EqualFold(heap[r].name, n))
      BY <1>1, <1>2, <2>3, <3>1, <3>2
    <3> QED
      BY <2>1, <3>3
  <2> QED
    BY <2>4, <2>5
<1>4. /\ Phase[p] = "called" /\ Phase'[p] = "matched" /\ Draft[p] = Nil /\ Draft'[p] = Nil
      /\ AnswerOf[p] = "none" /\ AnswerOf'[p] = "none"
  BY <1>1 DEF Phase, TookEffect, Drawn, Draft, AnswerOf
<1>5. /\ Phase' = [Phase EXCEPT ![p] = "matched"] /\ UNCHANGED <<Table, Draft, AnswerOf>>
      /\ Items' = [Items EXCEPT ![p] = Atomic!Matching(p)]
  BY <1>1, <1>3, <1>4, Frame, SameTable
<1> QED
  BY <1>1, <1>4, <1>5 DEF Atomic!List

\* The code's arithmetic with start and end is the number of places on the page,
\* whatever startIndex and count are.
LEMMA PageLength ==
  ASSUME NEW n \in Nat, NEW start \in Int, NEW count \in Int
  PROVE  PageLen(n, start, count) = Cardinality(Atomic!Places(n, start, count))
<1>1. PICK lo \in Int : lo = IF start < 1 THEN 1 ELSE start
  OBVIOUS
<1>2. PICK hi \in Int : hi = IF count >= 0 /\ lo + count - 1 < n THEN lo + count - 1 ELSE n
  OBVIOUS
<1>3. Atomic!Places(n, start, count) = lo .. hi
  BY <1>1, <1>2 DEF Atomic!Places
<1>4. Cardinality(lo .. hi) = IF lo > hi THEN 0 ELSE hi - lo + 1
  BY FS_Interval
<1>5. PageLen(n, start, count) = IF lo > hi THEN 0 ELSE hi - lo + 1
  BY <1>1, <1>2 DEF PageLen, Offset
<1> QED
  BY <1>3, <1>4, <1>5

\* The copies List has made are of different resources.
LEMMA Different ==
  ASSUME IInv, Course, NEW p \in Procs, pc[p] = "scan", NEW S \in SUBSET out[p]
  PROVE  /\ IsFiniteSet(S)
         /\ Cardinality({View(heap[r]) : r \in S}) = Cardinality(S)
<1> DEFINE T == {View(heap[r]) : r \in S}
           f == [r \in S |-> View(heap[r])]
<1>1. IsFiniteSet(S)
  BY MemoryAssumption, FS_Subset DEF IInv, TypeOK
<1>2. \A r, s \in S : View(heap[r]) = View(heap[s]) => r = s
  BY DEF Course, Underway, View
<1>3. f \in Bijection(S, T)
  <2>1. f \in [S -> T]
    OBVIOUS
  <2>2. \A v \in T : \E r \in S : f[r] = v
    OBVIOUS
  <2>3. \A r, s \in S : f[r] = f[s] => r = s
    BY <1>2
  <2> QED
    <3>1. f \in Injection(S, T)
      BY <2>1, <2>3 DEF Injection, IsInjective
    <3>2. f \in Surjection(S, T)
      BY <2>1, <2>2 DEF Surjection
    <3> QED
      BY <3>1, <3>2 DEF Bijection
<1>4. Cardinality(T) = Cardinality(S)
  <2>1. ExistsBijection(S, T)
    BY <1>3 DEF ExistsBijection
  <2> QED
    BY <1>1, <2>1, FS_Bijection
<1> QED
  BY <1>1, <1>4

LEMMA ListPageMaps ==
  ASSUME IInv, Course, NEW p \in Procs, ListPage(p)
  PROVE  Atomic!Cut(p)
<1>1. PICK page \in SUBSET out[p] :
        /\ Cardinality(page) = PageLen(Cardinality(out[p]), req[p].start, req[p].count)
        /\ out' = [out EXCEPT ![p] = page]
  BY DEF ListPage
<1>2. /\ pc[p] = "scan" /\ pc'[p] = "done" /\ status'[p] = "ok" /\ Acts(p)
      /\ own[p] = Nil /\ own'[p] = Nil /\ snap[p] = {} /\ snap'[p] = {} /\ out'[p] = page
      /\ UNCHANGED <<clock, heap, resources, issued, req>>
  BY <1>1 DEF ListPage, Answer, storeVars, Acts, Step, IInv, TypeOK, LocalInv
<1>3. PICK S, T : S = {View(heap[r]) : r \in out[p]} /\ T = {View(heap[r]) : r \in page}
  OBVIOUS
<1>4. Items[p] = S /\ Items'[p] = T /\ T \in SUBSET S
  BY <1>2, <1>3, Response
<1>5. Cardinality(S) = Cardinality(out[p]) /\ Cardinality(T) = Cardinality(page) /\ Cardinality(S) \in Nat
  <2>1. out[p] \in SUBSET out[p]
    OBVIOUS
  <2>2. Cardinality(out[p]) \in Nat
    BY <1>2, <2>1, Different, FS_CardinalityType
  <2> QED
    BY <1>2, <1>3, <2>1, <2>2, Different
<1>6. Cardinality(T) = Cardinality(Atomic!Places(Cardinality(S), req[p].start, req[p].count))
  BY <1>1, <1>2, <1>5, PageLength, Requested
<1>7. \A X : Atomic!Cardinality(X) = Cardinality(X)
  BY DEF Atomic!Cardinality, Cardinality
<1>8. /\ Phase[p] = "matched" /\ Phase'[p] = "done" /\ Draft'[p] = Nil /\ AnswerOf'[p] = "ok"
  BY <1>2 DEF Phase, TookEffect, Drawn, Draft, AnswerOf
<1>9. Atomic!Done(p, "ok", T) /\ UNCHANGED Table
  BY <1>2, <1>4, <1>8, Ends
<1>10. T \in SUBSET Items[p] /\ Cardinality(T) = Cardinality(Atomic!Places(Cardinality(Items[p]), req[p].start, req[p].count))
  BY <1>4, <1>6
<1>11. \A v \in Items[p] : Atomic!Plain(v)
  BY <1>2, <1>3, <1>4 DEF Atomic!Plain, Course, Underway, Single, View
<1> QED
  BY <1>7, <1>8, <1>9, <1>10, <1>11 DEF Atomic!Cut

\* Filtering a resource of the snapshot makes the copy of one of the matches: it
\* was not written to since.
LEMMA ListFilterMaps ==
  ASSUME IInv, Course, NEW p \in Procs, ListFilter(p)
  PROVE  Atomic!Copy(p) \/ UNCHANGED Atomic!vars
<1>1. PICK r \in snap[p] :
        /\ snap' = [snap EXCEPT ![p] = @ \ {r}]
        /\ IF Matches(p, heap[r])
           THEN /\ Room
                /\ \E c \in Clones(heap[r]) : heap' = [heap EXCEPT ![Cell1] = c]
                /\ out' = [out EXCEPT ![p] = @ \cup {Cell1}]
           ELSE UNCHANGED <<heap, out>>
  BY DEF ListFilter
<1>2. /\ pc[p] = "scan" /\ pc'[p] = "scan" /\ own[p] = Nil /\ own'[p] = Nil /\ Acts(p) /\ [Next]_vars
      /\ snap'[p] = snap[p] \ {r} /\ heap[r] \in Known
      /\ UNCHANGED <<clock, resources, issued, req>>
  BY <1>1 DEF ListFilter, storeVars, Acts, Step, Next, IInv, TypeOK, LocalInv, HeapInv
<1>3. /\ Phase[p] = "matched" /\ Phase'[p] = Phase[p] /\ Draft'[p] = Draft[p]
      /\ AnswerOf'[p] = AnswerOf[p]
  BY <1>2 DEF Phase, TookEffect, Drawn, Draft, AnswerOf
<1>4. /\ Items[p] = {View(heap[s]) : s \in out[p] \cup {x \in snap[p] : Matches(p, heap[x])}}
      /\ Items'[p] = {View(heap'[s]) : s \in out'[p] \cup {x \in snap'[p] : Matches(p, heap'[x])}}
  BY <1>2 DEF Items, View, Matches
<1>5. CASE ~ Matches(p, heap[r])
  <2>1. heap' = heap /\ out'[p] = out[p]
    BY <1>1, <1>5
  <2>2. {x \in snap'[p] : Matches(p, heap'[x])} = {x \in snap[p] : Matches(p, heap[x])}
    BY <1>2, <1>5, <2>1
  <2>3. Items'[p] = Items[p]
    BY <1>4, <2>1, <2>2
  <2> QED
    BY <1>2, <1>3, <2>3, Unseen
<1>6. CASE Matches(p, heap[r])
  <2>1. PICK c \in Clones(heap[r]) : heap' = [heap EXCEPT ![Cell1] = c]
    BY <1>1, <1>6
  <2>2. PICK n : n = Cell1
    OBVIOUS
  <2>3. /\ n \in Refs /\ n \notin snap[p] /\ n \notin out[p]
        /\ out'[p] = out[p] \cup {n} /\ heap'[n] = c
        /\ \A s \in snap[p] \cup out[p] : heap'[s] = heap[s]
    BY <1>1, <1>6, <2>1, <2>2, CellsFresh, NotLive DEF IInv, TypeOK
  <2>4. \A s \in snap[p] \cup out[p] : s # r => View(heap[s]) # View(heap[r])
    <3>1. \A s \in snap[p] \cup out[p] : heap[r].key = heap[s].key => r = s
      BY <1>2 DEF Course, Underway
    <3> QED
      BY <3>1 DEF View
  <2>5. r \notin out[p]
    BY DEF IInv, Separation
  <2>6. PICK v, w : v = View(heap[r]) /\ w = View(heap'[n])
    OBVIOUS
  <2>7. v \in Items[p] /\ w \in Atomic!Copies(v)
    BY <1>2, <1>4, <1>6, <2>1, <2>3, <2>6, ClonesShown
  <2>8. ASSUME NEW x \in (Items[p] \ {v}) \cup {w} PROVE x \in Items'[p]
    <3>1. CASE x = w
      BY <1>4, <2>3, <2>6, <3>1
    <3>2. CASE x \in Items[p] \ {v}
      <4>1. PICK s \in out[p] \cup {y \in snap[p] : Matches(p, heap[y])} : x = View(heap[s])
        BY <1>4, <3>2
      <4>2. s # r
        BY <2>6, <3>2, <4>1
      <4> QED
        BY <1>2, <1>4, <2>3, <4>1, <4>2
    <3> QED
      BY <2>8, <3>1, <3>2
  <2>9. ASSUME NEW x \in Items'[p] PROVE x \in (Items[p] \ {v}) \cup {w}
    <3>1. PICK s \in out'[p] \cup {y \in snap'[p] : Matches(p, heap'[y])} : x = View(heap'[s])
      BY <1>4, <2>9
    <3>2. CASE s = n
      BY <2>6, <3>1, <3>2
    <3>3. CASE s # n
      <4>1. s \in out[p] \cup {y \in snap[p] : Matches(p, heap[y])} /\ s # r
        BY <1>2, <2>3, <2>5, <3>1, <3>3
      <4>2. x = View(heap[s])
        BY <2>3, <3>1, <4>1
      <4> QED
        BY <1>4, <2>4, <2>6, <4>1, <4>2
    <3> QED
      BY <3>2, <3>3
  <2>10. Items'[p] = (Items[p] \ {v}) \cup {w}
    BY <2>8, <2>9
  <2>11. PICK f, d, s, S, T : /\ f = Phase[p] /\ d = Draft[p] /\ s = AnswerOf[p] /\ T = Items[p]
                              /\ S = (T \ {v}) \cup {w}
    OBVIOUS
  <2>12. /\ Items' = [Items EXCEPT ![p] = S] /\ UNCHANGED <<Phase, Draft, AnswerOf, Table>>
    BY <1>2, <1>3, <2>10, <2>11, Frame, SameTable
  <2> QED
    BY <1>2, <1>3, <2>7, <2>11, <2>12 DEF Atomic!Copy
<1> QED
  BY <1>5, <1>6

-----------------------------------------------------------------------------
(* What nobody sees: waiting for the lock, working on a clone, edits of the  *)
(* resources that were handed out, a hook that re-enters.                   *)

LEMMA WaitingMaps ==
  ASSUME IInv, NEW p \in Procs, Lock(p) \/ Acquire(p) \/ RLock(p) \/ HookReenters(p)
  PROVE  UNCHANGED Atomic!vars
<1>1. /\ Acts(p) /\ UNCHANGED <<clock, heap, resources, issued, req, own, out, snap, status>>
  BY DEF Lock, Acquire, RLock, HookReenters, storeVars, Acts, Step
<1>2. /\ Phase'[p] = Phase[p] /\ Draft'[p] = Draft[p] /\ AnswerOf'[p] = AnswerOf[p]
  <2>1. CASE Lock(p)
    <3>1. pc[p] = "called" /\ pc'[p] = "wwait" /\ req[p].op # "Create"
      BY <2>1 DEF Lock, IInv, TypeOK
    <3> QED
      BY <1>1, <3>1 DEF Phase, TookEffect, Drawn, Draft, AnswerOf
  <2>2. CASE Acquire(p)
    <3>1. pc[p] = "wwait" /\ pc'[p] = "write"
      BY <2>2 DEF Acquire, IInv, TypeOK
    <3> QED
      BY <1>1, <3>1 DEF Phase, TookEffect, Drawn, Draft, AnswerOf, View
  <2>3. CASE RLock(p)
    <3>1. pc[p] = "called" /\ pc'[p] \in {"read", "rwait"}
      BY <2>3 DEF RLock, IInv, TypeOK
    <3> QED
      BY <1>1, <3>1 DEF Phase, TookEffect, Drawn, Draft, AnswerOf
  <2>4. CASE HookReenters(p)
    <3>1. /\ pc[p] \in {"prehook", "post"} /\ pc'[p] = "stuck"
          /\ pc[p] = "prehook" <=> own[p] # Nil
      BY <2>4 DEF HookReenters, IInv, TypeOK, LocalInv
    <3> QED
      BY <1>1, <3>1 DEF Phase, TookEffect, Drawn, Draft, AnswerOf
  <2> QED
    BY <2>1, <2>2, <2>3, <2>4
<1>3. Items'[p] = Items[p]
  BY <1>1 DEF Items, View, Matches
<1> QED
  BY <1>1, <1>2, <1>3, Unseen

LEMMA CloneMaps ==
  ASSUME IInv, NEW p \in Procs, CloneForHook(p) \/ ApplyPatch(p) \/ ApplyOp(p)
  PROVE  UNCHANGED Atomic!vars
<1>1. /\ Acts(p) /\ UNCHANGED <<clock, resources, issued, req, out, snap, status>>
      /\ pc[p] \in {"write", "prehook", "patch"} /\ pc'[p] \in {"prehook", "patch"}
      /\ req[p].op = "Patch" /\ out[p] = {} /\ snap[p] = {}
  BY DEF CloneForHook, ApplyPatch, OwnClone, ApplyOp, storeVars, Acts, Step, IInv, TypeOK, LocalInv
<1>2. /\ Phase'[p] = Phase[p] /\ Draft'[p] = Draft[p] /\ AnswerOf'[p] = AnswerOf[p]
      /\ Items'[p] = Items[p]
  BY <1>1 DEF Phase, TookEffect, Drawn, Draft, AnswerOf, Items
<1> QED
  BY <1>1, <1>2, Unseen

LEMMA EditsMaps ==
  ASSUME IInv, NEW p \in Procs, HookEdits(p) \/ CallerEdits(p)
  PROVE  UNCHANGED Atomic!vars
<1>1. /\ Acts(p) /\ UNCHANGED <<clock, resources, issued, pc, req, own, out, snap, status>>
      /\ pc[p] \in {"prehook", "post", "done"} /\ snap[p] = {}
  BY DEF HookEdits, CallerEdits, storeVars, Acts, IInv, LocalInv
<1>2. PICK r \in Refs : heap[r] \in Known /\ heap' = [heap EXCEPT ![r] = [heap[r] EXCEPT !.edited = TRUE]]
  BY NilAssumption DEF HookEdits, CallerEdits, Private, IInv, TypeOK, HeapInv
<1>3. \A s \in Refs : View(heap'[s]) = View(heap[s])
  BY <1>2, Shown DEF IInv, TypeOK
<1>4. Items'[p] = Items[p]
  <2>1. \A s \in out[p] : s \in Refs
    BY DEF IInv, TypeOK
  <2>2. Items[p] = {View(heap[s]) : s \in out[p]}
    BY <1>1, Response
  <2>3. Items'[p] = {View(heap'[s]) : s \in out[p]}
    BY <1>1, Response
  <2> QED
    BY <1>3, <2>1, <2>2, <2>3
<1>5. /\ Phase'[p] = Phase[p] /\ Draft'[p] = Draft[p] /\ AnswerOf'[p] = AnswerOf[p]
  BY <1>1 DEF Phase, TookEffect, Drawn, Draft, AnswerOf
<1> QED
  BY <1>1, <1>4, <1>5, Unseen

-----------------------------------------------------------------------------

\* The in-memory store is linearizable: for any number of goroutines, each of
\* its six methods takes effect at one instant between call and response, on a
\* table of values, although they share pointers, hooks and callers write to what
\* they are given, Patch works through its operations one by one, and List reads
\* after RUnlock.
THEOREM Linear == Spec => Linearizable
<1>1. Init => Atomic!Init
  <2> SUFFICES ASSUME Init PROVE Atomic!Init
    OBVIOUS
  <2>1. clock \div PerSecond \in Nat
    BY ClockAssumption, InSeconds DEF Init, Times
  <2>2. Table = [t \in Types |-> [i \in Ids |-> Nil]]
    BY DEF Init, Table, Present
  <2>3. /\ Phase = [p \in Procs |-> "idle"] /\ Draft = [p \in Procs |-> Nil]
        /\ AnswerOf = [p \in Procs |-> "none"] /\ Items = [p \in Procs |-> {}]
    BY DEF Init, Phase, TookEffect, Drawn, Draft, AnswerOf, Items
  <2> QED
    BY <2>1, <2>2, <2>3 DEF Init, Atomic!Init
<1>2. IInv /\ Provenance /\ Course /\ [Next]_vars => [Atomic!Next]_(Atomic!vars)
  <2> SUFFICES ASSUME IInv, Provenance, Course, [Next]_vars PROVE Atomic!Next \/ UNCHANGED Atomic!vars
    OBVIOUS
  <2>1. CASE Tick \/ UNCHANGED vars
    <3>1. UNCHANGED <<heap, resources, issued, pc, req, own, out, snap, status>>
      BY <2>1 DEF Tick, vars, storeVars
    <3>2. UNCHANGED <<Table, Phase, Draft, AnswerOf, Items>>
      BY <3>1 DEF Table, Present, At, View, Phase, TookEffect, Drawn, Draft, AnswerOf, Items, Matches
    <3>3. \/ clock' \div PerSecond = (clock \div PerSecond) + 1
          \/ clock' \div PerSecond = clock \div PerSecond
      BY <2>1, NextSecond DEF Tick, vars, IInv, TypeOK
    <3> QED
      BY <3>1, <3>2, <3>3 DEF Atomic!Next, Atomic!Tick, Atomic!vars
  <2>2. ASSUME NEW p \in Procs, Acts(p) PROVE Atomic!Next \/ UNCHANGED Atomic!vars
    <3>1. CASE Call(p) \/ Prepare(p) \/ Refuse(p) \/ Return(p)
      BY <3>1, CallMaps, PrepareMaps, RefuseMaps, ReturnMaps DEF Atomic!Next
    <3>2. CASE NotFound(p) \/ Get(p) \/ Delete(p)
      BY <3>2, NotFoundMaps, GetMaps, DeleteMaps DEF Atomic!Next
    <3>3. CASE Create(p) \/ Conflict(p) \/ Replace(p) \/ Patch(p) \/ PatchFails(p)
      BY <3>3, CreateMaps, ReplaceMaps, PatchMaps DEF Atomic!Next
    <3>4. CASE HookRefuses(p) \/ PostHooks(p)
      BY <3>4, HookRefusesMaps, PostHooksMaps DEF Atomic!Next
    <3>5. CASE Snapshot(p) \/ ListFilter(p) \/ ListPage(p)
      BY <3>5, SnapshotMaps, ListFilterMaps, ListPageMaps DEF Atomic!Next
    <3>6. CASE \/ Lock(p) \/ Acquire(p) \/ RLock(p) \/ HookReenters(p) \/ CloneForHook(p)
               \/ ApplyPatch(p) \/ ApplyOp(p) \/ HookEdits(p) \/ CallerEdits(p)
      BY <3>6, WaitingMaps, CloneMaps, EditsMaps
    <3> QED
      BY <2>2, <3>1, <3>2, <3>3, <3>4, <3>5, <3>6 DEF Acts, Step
  <2> QED
    BY <2>1, <2>2 DEF Next, Acts
<1> QED
  BY <1>1, <1>2, CourseInv, PTL DEF Spec, Linearizable, Atomic!Spec

=============================================================================
