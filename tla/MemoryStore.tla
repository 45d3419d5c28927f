----------------------------- MODULE MemoryStore -----------------------------
(***************************************************************************)
(* store/memory.go: the in-memory SCIM store, called by the goroutines of  *)
(* net/http through server/handler.go.  The store, its callers, its hooks  *)
(* and List's snapshot hold POINTERS to resources; heap is what they lead  *)
(* to, so a missing Clone is an aliasing bug here as it is in Go.          *)
(* pc[p], the point goroutine p has reached:                               *)
(*   idle    no call                  called  arguments received           *)
(*   wwait   Lock() announced         rwait   RLock() blocked              *)
(*   write   holds mu for writing     read    holds mu for reading         *)
(*   prehook Patch's PreUpdate hooks  patch   ApplyPatch, both under mu    *)
(*   post    post hooks, under mu     stuck   a hook re-entered the store  *)
(*   scan    List filters, unlocked   done    the caller has the result    *)
(***************************************************************************)
EXTENDS Integers, Sequences, FiniteSets

CONSTANTS
  Procs,        \* goroutines
  Types,        \* resource types
  UserTypes,    \* those strings.EqualFold(resourceType, "User") accepts
  Ids,          \* 128-bit random identifiers
  Names,        \* userName values, Nil being the absent or empty one
  Fold,         \* Fold[m] = Fold[n] iff strings.EqualFold(m, n)
  Refs,         \* memory cells that can hold a resource
  Requests,     \* the calls the goroutines make
  HookOutcomes, \* what hooks may do: "return" "reject" "panic" "reenter"
  PerSecond,    \* clock readings in a second
  FirstClock,   \* first clock reading
  MaxClock,     \* bound on the clock
  Nil

Attr == Names \cup {Nil}

Times == 0 .. MaxClock

\* Times as their RFC 3339 text gives them, which ends at the second.
Seconds == 0 .. MaxClock \div PerSecond

Metas == [created : Seconds, modified : Seconds]

\* A resource in memory.  otherIds and otherMetas hold what a PATCH has stored in
\* Attributes under another spelling of "id" and "meta": at most one string, Nil
\* being the empty one, and at most one object.  key is auxiliary, the key under
\* which the resource or what it was copied from is stored.
Objects == [key : Ids \cup {Nil}, id : Ids \cup {Nil}, name : Attr, created : Times,
            modified : Times, otherIds : SUBSET (Ids \cup {Nil}),
            otherMetas : SUBSET Metas, edited : BOOLEAN]

\* The attributes an operation can set: userName, other spellings of id and meta.
SetKinds == {"userName", "id", "meta"}

PatchOps == [kind : SetKinds \cup {"noTarget", "badPatch"}, name : Attr,
             ids : SUBSET (Ids \cup {Nil}), metas : SUBSET Metas]

\* bodyId is an id the request body carries; name is List's filter as well.
RequestType ==
  [op : {"Create", "Get", "List", "Replace", "Patch", "Delete"},
   type : Types, id : Ids \cup {Nil}, name : Attr, bodyId : Ids \cup {Nil},
   ops : Seq(PatchOps), start : Int, count : Int]

ASSUME TypesAssumption == UserTypes \subseteq Types
ASSUME FoldAssumption == Fold \in [Names -> Names]
ASSUME RequestsAssumption ==
  /\ Requests \subseteq RequestType
  /\ \A r \in Requests : r.op \in {"Get", "Replace", "Patch", "Delete"} => r.id # Nil
ASSUME ClockAssumption ==
  PerSecond \in Nat \ {0} /\ MaxClock \in Nat /\ FirstClock \in Times
\* Memory is finite; the length of a list is a number.
ASSUME MemoryAssumption == IsFiniteSet(Refs)
ASSUME NilAssumption ==
  /\ Nil \notin Procs /\ Nil \notin Ids /\ Nil \notin Names
  /\ Nil \notin Refs /\ Nil \notin Requests /\ Nil \notin Objects

VARIABLES
  clock,      \* time.Now()
  heap,       \* ref -> resource
  resources,  \* type -> id -> ref: MemoryStore.resources
  issued,     \* ids generateID has returned
  writer,     \* goroutine holding mu for writing
  readers,    \* goroutines holding mu for reading
  pc,
  req,        \* arguments of the call
  own,        \* clone a writer is working on
  step,       \* index of the next PATCH operation
  snap,       \* List's snapshot, as yet unfiltered
  out,        \* resources for the caller
  status      \* outcome of the call

lockVars  == <<writer, readers>>
storeVars == <<resources, issued>>
vars == <<clock, heap, storeVars, lockVars, pc, req, own, step, snap, out, status>>

Init ==
  /\ clock = FirstClock
  /\ heap = [r \in Refs |-> Nil]
  /\ resources = [t \in Types |-> [i \in Ids |-> Nil]]
  /\ issued = {}
  /\ writer = Nil
  /\ readers = {}
  /\ pc = [p \in Procs |-> "idle"]
  /\ req = [p \in Procs |-> Nil]
  /\ own = [p \in Procs |-> Nil]
  /\ step = [p \in Procs |-> 1]
  /\ snap = [p \in Procs |-> {}]
  /\ out = [p \in Procs |-> {}]
  /\ status = [p \in Procs |-> "none"]

-----------------------------------------------------------------------------
(* Memory.  Go hands out cells nobody can reach and collects the others.    *)

Stored == {resources[t][i] : t \in Types, i \in Ids} \ {Nil}

Live == Stored \cup UNION {snap[p] \cup out[p] \cup ({own[p]} \ {Nil}) : p \in Procs}

\* Cells p may write to: its clone and what it was given.
Private(p) == out[p] \cup ({own[p]} \ {Nil})

\* Bound: a step allocates at most two cells, and waits while there are fewer.
Room == \E a, b \in Refs \ Live : a # b

Cell1 == CHOOSE r \in Refs : r \notin Live

Cell2 == CHOOSE r \in Refs : r \notin Live /\ r # Cell1

Target(p) == resources[req[p].type][req[p].id]

\* Mutant: Clone returns its receiver.
Uncloned(p) == Target(p)

\* Where Clone puts the copy of the stored resource p asked for.
CloneCell(p) == Cell1

Truncate(t) == PerSecond * (t \div PerSecond)

OwnMeta(o) == [created |-> o.created \div PerSecond, modified |-> o.modified \div PerSecond]

Copy(o, i, m) == [o EXCEPT !.id = i, !.created = PerSecond * m.created,
                           !.modified = PerSecond * m.modified,
                           !.otherIds = {}, !.otherMetas = {}]

\* The copy of a resource that holds no second spelling.
Clone(o) == Copy(o, o.id, OwnMeta(o))

\* ToMap writes an empty ID not at all.
IdsRead(o) == IF o.id = Nil /\ o.otherIds # {} THEN o.otherIds ELSE {o.id} \cup o.otherIds

\* Clone writes the resource to a map of its attributes, its id and its meta, and
\* FromMap reads that map in no particular order, letter case ignored: of two
\* spellings it keeps the one it meets last.
Clones(o) == {Copy(o, i, m) : i \in IdsRead(o), m \in {OwnMeta(o)} \cup o.otherMetas}

-----------------------------------------------------------------------------
(* sync.RWMutex: a goroutine that announced Lock() keeps new readers out; a *)
(* writer's Unlock lets every blocked reader in.                            *)

Announced == {p \in Procs : pc[p] = "wwait"}

Blocked == {p \in Procs : pc[p] = "rwait"}

Acquire(p) ==
  /\ pc[p] = "wwait"
  /\ writer = Nil /\ readers = {}
  /\ writer' = p
  /\ pc' = [pc EXCEPT ![p] = "write"]
  /\ UNCHANGED <<clock, heap, storeVars, readers, req, own, step, snap, out, status>>

RLock(p) ==
  /\ pc[p] = "called"
  /\ req[p].op \in {"Get", "List"}
  /\ IF writer = Nil /\ Announced = {}
     THEN readers' = readers \cup {p} /\ pc' = [pc EXCEPT ![p] = "read"]
     ELSE UNCHANGED readers /\ pc' = [pc EXCEPT ![p] = "rwait"]
  /\ UNCHANGED <<clock, heap, storeVars, writer, req, own, step, snap, out, status>>

\* Mutants: a return that no deferred Unlock or RUnlock follows.
UnlockForgotten(p, next) == pc' = [pc EXCEPT ![p] = next] /\ UNCHANGED lockVars

RUnlockForgotten(p, next) == pc' = [pc EXCEPT ![p] = next] /\ UNCHANGED lockVars

Unlock(p, next) ==
  /\ writer' = Nil
  /\ readers' = readers \cup Blocked
  /\ pc' = [q \in Procs |-> IF q = p THEN next
                            ELSE IF q \in Blocked THEN "read" ELSE pc[q]]

RUnlock(p, next) ==
  /\ readers' = readers \ {p}
  /\ pc' = [pc EXCEPT ![p] = next]
  /\ UNCHANGED writer

Answer(p, s) == status' = [status EXCEPT ![p] = s]

-----------------------------------------------------------------------------
(* Entering an operation.                                                   *)

Call(p) ==
  /\ pc[p] = "idle"
  /\ \E r \in Requests : req' = [req EXCEPT ![p] = r]
  /\ pc' = [pc EXCEPT ![p] = "called"]
  /\ UNCHANGED <<clock, heap, storeVars, lockVars, own, step, snap, out, status>>

\* checkContext finds the request cancelled, generateID gets no randomness, or
\* a hook that runs before Lock() refuses or panics.
Refuse(p) ==
  /\ pc[p] = "called"
  /\ \/ Answer(p, "internal")
     \/ /\ req[p].op \in {"Create", "Replace", "Delete"}
        /\ \/ "reject" \in HookOutcomes /\ Answer(p, "rejected")
           \/ "panic" \in HookOutcomes /\ Answer(p, "panic")
  /\ pc' = [pc EXCEPT ![p] = "done"]
  /\ UNCHANGED <<clock, heap, storeVars, lockVars, req, own, step, snap, out>>

\* The resource decoded from the request body, the caller's alone.
Body(r) == [key |-> Nil, id |-> r.bodyId, name |-> r.name, created |-> 0, modified |-> 0,
            otherIds |-> {}, otherMetas |-> {}, edited |-> FALSE]

\* Mutant: an identifier is free again once its resource is deleted.
UnusedIds == {i \in Ids : \A t \in Types : resources[t][i] = Nil}

\* 128 random bits never repeat.
NewIds == Ids \ issued

\* The part of Create that precedes Lock(): its time stamps are older than its
\* place among the writers.
Prepare(p) ==
  /\ pc[p] = "called"
  /\ req[p].op = "Create"
  /\ Room
  /\ \E i \in NewIds :
       /\ issued' = issued \cup {i}
       /\ heap' = [heap EXCEPT ![Cell1] =
            [Clone(Body(req[p])) EXCEPT !.key = i, !.id = i, !.created = clock, !.modified = clock]]
  /\ own' = [own EXCEPT ![p] = Cell1]
  /\ pc' = [pc EXCEPT ![p] = "wwait"]
  /\ UNCHANGED <<clock, resources, lockVars, req, step, snap, out, status>>

Lock(p) ==
  /\ pc[p] = "called"
  /\ req[p].op \in {"Replace", "Patch", "Delete"}
  /\ pc' = [pc EXCEPT ![p] = "wwait"]
  /\ UNCHANGED <<clock, heap, storeVars, lockVars, req, own, step, snap, out, status>>

-----------------------------------------------------------------------------
(* The write sections.                                                      *)

\* Leaving a write section with an error.
Fail(p, s) ==
  /\ Answer(p, s)
  /\ own' = [own EXCEPT ![p] = Nil]
  /\ Unlock(p, "done")
  /\ UNCHANGED <<clock, heap, storeVars, req, step, snap, out>>

NotFound(p) ==
  /\ pc[p] = "write"
  /\ req[p].op # "Create"
  /\ Target(p) = Nil
  /\ Fail(p, "notFound")

EqualFold(m, n) == m # Nil /\ n # Nil /\ Fold[m] = Fold[n]

\* Mutant: userNames compared with == instead of EqualFold.
TakenExactly(t, n) ==
  t \in UserTypes /\ \E i \in Ids : resources[t][i] # Nil /\ heap[resources[t][i]].name = n

Taken(t, n) ==
  /\ t \in UserTypes
  /\ \E i \in Ids : resources[t][i] # Nil /\ EqualFold(heap[resources[t][i]].name, n)

Conflict(p) ==
  /\ pc[p] = "write"
  /\ req[p].op = "Create"
  /\ Taken(req[p].type, heap[own[p]].name)
  /\ Fail(p, "conflict")

\* m[id] = clone; result := clone.Clone(); the resource o is in cell r.
Publish(p, i, r, o, copy) ==
  /\ resources' = [resources EXCEPT ![req[p].type][i] = r]
  /\ \E c \in Clones(o) : heap' = [heap EXCEPT ![r] = o, ![copy] = c]
  /\ out' = [out EXCEPT ![p] = {copy}]
  /\ own' = [own EXCEPT ![p] = Nil]
  /\ pc' = [pc EXCEPT ![p] = "post"]
  /\ UNCHANGED <<clock, issued, lockVars, req, step, snap, status>>

Create(p) ==
  /\ pc[p] = "write"
  /\ req[p].op = "Create"
  /\ ~ Taken(req[p].type, heap[own[p]].name)
  /\ Room
  /\ Publish(p, heap[own[p]].key, own[p], heap[own[p]], Cell1)

\* Mutants: the creation time is reset; the body's id is kept; the modification
\* time is rounded up to the next second.
Recreated(p) ==
  [Clone(Body(req[p])) EXCEPT !.key = req[p].id, !.id = req[p].id, !.created = clock, !.modified = clock]

WithBodyId(p) ==
  [Clone(Body(req[p])) EXCEPT !.key = req[p].id, !.created = heap[Target(p)].created,
                              !.modified = clock]

RoundedUp(p) ==
  [Clone(Body(req[p])) EXCEPT !.key = req[p].id, !.id = req[p].id,
                              !.created = heap[Target(p)].created,
                              !.modified = Truncate(clock) + PerSecond]

Replacement(p) ==
  [Clone(Body(req[p])) EXCEPT !.key = req[p].id, !.id = req[p].id,
                              !.created = heap[Target(p)].created, !.modified = clock]

Replace(p) ==
  /\ pc[p] = "write"
  /\ req[p].op = "Replace"
  /\ Target(p) # Nil
  /\ Room
  /\ Publish(p, req[p].id, Cell1, Replacement(p), Cell2)

Delete(p) ==
  /\ pc[p] = "write"
  /\ req[p].op = "Delete"
  /\ Target(p) # Nil
  /\ resources' = [resources EXCEPT ![req[p].type][req[p].id] = Nil]
  /\ pc' = [pc EXCEPT ![p] = "post"]
  /\ UNCHANGED <<clock, heap, issued, lockVars, req, own, step, snap, out, status>>

\* p clones the resource it asked for, for a hook or to patch it.
OwnClone(p, next) ==
  /\ Room
  /\ \E c \in Clones(heap[Target(p)]) : heap' = [heap EXCEPT ![CloneCell(p)] = c]
  /\ own' = [own EXCEPT ![p] = CloneCell(p)]
  /\ pc' = [pc EXCEPT ![p] = next]
  /\ UNCHANGED <<clock, storeVars, lockVars, req, step, snap, out, status>>

CloneForHook(p) ==
  /\ pc[p] = "write"
  /\ req[p].op = "Patch"
  /\ Target(p) # Nil
  /\ OwnClone(p, "prehook")

\* Hooks are application code: they may write to what they are given, Patch's
\* clone before the update and the result after it.
HookEdits(p) ==
  /\ pc[p] \in {"prehook", "post"}
  /\ \E r \in Private(p) :
       /\ ~ heap[r].edited
       /\ heap' = [heap EXCEPT ![r].edited = TRUE]
  /\ UNCHANGED <<clock, storeVars, lockVars, pc, req, own, step, snap, out, status>>

HookRefuses(p) ==
  /\ pc[p] = "prehook"
  /\ \/ "reject" \in HookOutcomes /\ Fail(p, "rejected")
     \/ "panic" \in HookOutcomes /\ Fail(p, "panic")

\* Mutant: mu is released before the hooks run.
HookReentersUnlocked(p) ==
  /\ pc[p] \in {"prehook", "post"} /\ "reenter" \in HookOutcomes
  /\ Unlock(p, "stuck")
  /\ UNCHANGED <<clock, heap, storeVars, req, own, step, snap, out, status>>

\* A hook that calls the store waits for a lock its own goroutine holds.
HookReenters(p) ==
  /\ pc[p] \in {"prehook", "post"} /\ "reenter" \in HookOutcomes
  /\ pc' = [pc EXCEPT ![p] = "stuck"]
  /\ UNCHANGED <<clock, heap, storeVars, lockVars, req, own, step, snap, out, status>>

ApplyPatch(p) ==
  /\ pc[p] = "prehook" /\ "return" \in HookOutcomes
  /\ OwnClone(p, "patch")

\* setAttr writes to the attributes; the fields ID and Meta are out of its reach.
Applied(o, op) ==
  [o EXCEPT !.name = IF op.kind = "userName" THEN op.name ELSE @,
            !.otherIds = IF op.kind = "id" THEN op.ids ELSE @,
            !.otherMetas = IF op.kind = "meta" THEN op.metas ELSE @]

ApplyOp(p) ==
  /\ pc[p] = "patch"
  /\ step[p] <= Len(req[p].ops)
  /\ req[p].ops[step[p]].kind \in SetKinds
  /\ heap' = [heap EXCEPT ![own[p]] = Applied(@, req[p].ops[step[p]])]
  /\ step' = [step EXCEPT ![p] = @ + 1]
  /\ UNCHANGED <<clock, storeVars, lockVars, pc, req, own, snap, out, status>>

PatchFails(p) ==
  /\ pc[p] = "patch"
  /\ step[p] <= Len(req[p].ops)
  /\ req[p].ops[step[p]].kind \notin SetKinds
  /\ Fail(p, req[p].ops[step[p]].kind)

Patch(p) ==
  /\ pc[p] = "patch"
  /\ step[p] > Len(req[p].ops)
  /\ Room
  /\ Publish(p, req[p].id, own[p], [heap[own[p]] EXCEPT !.modified = clock], Cell1)

\* The deferred Unlock runs when a hook panics, too.
PostHooks(p) ==
  /\ pc[p] = "post"
  /\ \/ "return" \in HookOutcomes /\ Answer(p, "ok") /\ UNCHANGED out
     \/ "panic" \in HookOutcomes /\ Answer(p, "panic") /\ out' = [out EXCEPT ![p] = {}]
  /\ Unlock(p, "done")
  /\ UNCHANGED <<clock, heap, storeVars, req, own, step, snap>>

-----------------------------------------------------------------------------
(* The read sections.                                                       *)

Get(p) ==
  /\ pc[p] = "read"
  /\ req[p].op = "Get"
  /\ IF Target(p) = Nil
     THEN Answer(p, "notFound") /\ UNCHANGED <<heap, out>>
     ELSE /\ Room
          /\ \E c \in Clones(heap[Target(p)]) : heap' = [heap EXCEPT ![CloneCell(p)] = c]
          /\ out' = [out EXCEPT ![p] = {CloneCell(p)}]
          /\ Answer(p, "ok")
  /\ RUnlock(p, "done")
  /\ UNCHANGED <<clock, storeVars, req, own, step, snap>>

\* List copies the pointers of one type and lets go of the lock.
Snapshot(p) ==
  /\ pc[p] = "read"
  /\ req[p].op = "List"
  /\ snap' = [snap EXCEPT ![p] = {resources[req[p].type][i] : i \in Ids} \ {Nil}]
  /\ RUnlock(p, "scan")
  /\ UNCHANGED <<clock, heap, storeVars, req, own, step, out, status>>

\* The filter is none, or userName eq req.name.
Matches(p, o) == req[p].name = Nil \/ EqualFold(o.name, req[p].name)

ListFilter(p) ==
  /\ pc[p] = "scan"
  /\ \E r \in snap[p] :
       /\ snap' = [snap EXCEPT ![p] = @ \ {r}]
       /\ IF Matches(p, heap[r])
          THEN /\ Room
               /\ \E c \in Clones(heap[r]) : heap' = [heap EXCEPT ![Cell1] = c]
               /\ out' = [out EXCEPT ![p] = @ \cup {Cell1}]
          ELSE UNCHANGED <<heap, out>>
  /\ UNCHANGED <<clock, storeVars, lockVars, pc, req, own, step, status>>

\* Mutant: startIndex counts from zero.
OffsetFromZero(n, startIndex) ==
  IF startIndex > n THEN n ELSE IF startIndex < 0 THEN 0 ELSE startIndex

Offset(n, startIndex) == IF startIndex - 1 > n THEN n ELSE IF startIndex < 1 THEN 0 ELSE startIndex - 1

\* len(filtered[start:end]) for n matches.
PageLen(n, startIndex, count) ==
  LET start == Offset(n, startIndex)
      size  == IF count < 0 THEN n ELSE count
  IN  IF start + size > n THEN n - start ELSE size

\* The order of an unsorted list is that of a Go map: any page of the length.
ListPage(p) ==
  /\ pc[p] = "scan"
  /\ snap[p] = {}
  /\ \E page \in SUBSET out[p] :
       /\ Cardinality(page) = PageLen(Cardinality(out[p]), req[p].start, req[p].count)
       /\ out' = [out EXCEPT ![p] = page]
  /\ Answer(p, "ok")
  /\ pc' = [pc EXCEPT ![p] = "done"]
  /\ UNCHANGED <<clock, heap, storeVars, lockVars, req, own, step, snap>>

-----------------------------------------------------------------------------
(* The caller, server/handler.go: it sets Meta.Location on what it received *)
(* and writes the response.                                                 *)

CallerEdits(p) ==
  /\ pc[p] = "done"
  /\ \E r \in out[p] :
       /\ ~ heap[r].edited
       /\ heap' = [heap EXCEPT ![r].edited = TRUE]
  /\ UNCHANGED <<clock, storeVars, lockVars, pc, req, own, step, snap, out, status>>

\* What only p could reach is collected.
Return(p) ==
  /\ pc[p] = "done"
  /\ pc' = [pc EXCEPT ![p] = "idle"]
  /\ req' = [req EXCEPT ![p] = Nil]
  /\ out' = [out EXCEPT ![p] = {}]
  /\ step' = [step EXCEPT ![p] = 1]
  /\ status' = [status EXCEPT ![p] = "none"]
  /\ UNCHANGED <<clock, storeVars, lockVars, own, snap>>
  /\ heap' = [r \in Refs |-> IF r \in Live' THEN heap[r] ELSE Nil]

Tick ==
  /\ clock < MaxClock
  /\ clock' = clock + 1
  /\ UNCHANGED <<heap, storeVars, lockVars, pc, req, own, step, snap, out, status>>

\* What a goroutine does once called.
Step(p) ==
  \/ Refuse(p) \/ Prepare(p) \/ Lock(p) \/ Acquire(p) \/ RLock(p) \/ NotFound(p)
  \/ Conflict(p) \/ Create(p) \/ Replace(p) \/ Delete(p) \/ CloneForHook(p)
  \/ HookRefuses(p) \/ HookReenters(p) \/ ApplyPatch(p) \/ ApplyOp(p) \/ PatchFails(p)
  \/ Patch(p) \/ PostHooks(p) \/ Get(p) \/ Snapshot(p) \/ ListFilter(p) \/ ListPage(p)
  \/ Return(p)

Next == Tick \/ \E p \in Procs : Call(p) \/ Step(p) \/ HookEdits(p) \/ CallerEdits(p)

Spec == Init /\ [][Next]_vars

\* Goroutines are scheduled, hooks end, and the starvation mode of Go's mutex
\* hands the lock to a writer that waited long enough.
Fairness == \A p \in Procs : WF_vars(Step(p)) /\ SF_vars(Acquire(p))

FairSpec == Spec /\ Fairness

-----------------------------------------------------------------------------
(* Properties.                                                              *)

\* Type invariant of the store, its lock and its callers (the MemoryStore
\* struct and the locals of its methods).
TypeOK ==
  /\ clock \in Times
  /\ heap \in [Refs -> Objects \cup {Nil}]
  /\ resources \in [Types -> [Ids -> Refs \cup {Nil}]]
  /\ issued \subseteq Ids
  /\ writer \in Procs \cup {Nil}
  /\ readers \subseteq Procs
  /\ pc \in [Procs -> {"idle", "called", "wwait", "rwait", "write", "read", "prehook",
                       "patch", "post", "stuck", "scan", "done"}]
  /\ req \in [Procs -> Requests \cup {Nil}]
  /\ own \in [Procs -> Refs \cup {Nil}]
  /\ step \in [Procs -> Nat \ {0}]
  /\ snap \in [Procs -> SUBSET Refs]
  /\ out \in [Procs -> SUBSET Refs]
  /\ status \in [Procs -> {"none", "ok", "internal", "rejected", "panic", "notFound",
                           "conflict", "noTarget", "badPatch"}]

WriteSection == {"write", "prehook", "patch", "post", "stuck"}

\* mu excludes: the goroutine inside a write section (hooks included) is the
\* writer, those in a read section are the readers, never both kinds at once,
\* and every way out of a section gives the lock back.
LockInv ==
  /\ \A p \in Procs : pc[p] \in WriteSection <=> writer = p
  /\ \A p \in Procs : pc[p] = "read" <=> p \in readers
  /\ writer # Nil => readers = {}

\* Cells the store or a List in progress reads from.
Published == Stored \cup UNION {snap[p] : p \in Procs}

\* Nothing handed to a caller or a hook, and no clone being patched, is a
\* resource the store or a List in progress reads, nor another goroutine's:
\* every way out of the store goes through Clone.
NoAliasing ==
  /\ \A p \in Procs : Private(p) \cap Published = {}
  /\ \A p, q \in Procs : p # q => Private(p) \cap Private(q) = {}

\* A published resource is never written to: List may filter its snapshot
\* after RUnlock because updates replace pointers (m[id] = clone).
PublishedImmutable == [][\A r \in Published : heap'[r] = heap[r]]_vars

Present(t, i) == resources[t][i] # Nil

At(t, i) == heap[resources[t][i]]

\* While a resource exists its last modification never goes back, and its
\* creation time stays in the same second and its identifier the one it has or
\* the key it is stored under, however Create, Replace and Patch of several
\* goroutines interleave.  One thing alone can change them: what an earlier PATCH
\* has stored in it under another spelling of meta and of id.
MetaHistory ==
  [][\A t \in Types, i \in Ids :
       Present(t, i) /\ Present(t, i)' =>
         /\ At(t, i)'.modified >= At(t, i).modified
         /\ \/ Truncate(At(t, i)'.created) = Truncate(At(t, i).created)
            \/ \E m \in At(t, i).otherMetas : At(t, i)'.created = PerSecond * m.created
         /\ At(t, i)'.id \in {At(t, i).id, i} \cup At(t, i).otherIds]_vars

\* Create never adds a User whose userName equals, up to case, that of a User
\* in the store at that moment: the check and m[id] = clone are one section.
CreateChecksUserName ==
  [][\A t \in UserTypes, i, j \in Ids :
       ~ Present(t, i) /\ Present(t, i)' /\ Present(t, j) =>
         ~ EqualFold(At(t, i)'.name, At(t, j).name)]_vars

\* An identifier that was issued, is not stored and is not about to be.
Gone(i) ==
  /\ i \in issued
  /\ \A t \in Types : ~ Present(t, i)
  /\ \A p \in Procs : own[p] # Nil /\ req[p].op = "Create" => heap[own[p]].key # i

\* A deleted resource stays deleted: a Replace or Patch that raced the Delete
\* reports notFound instead of putting it back.
GoneForGood == [][\A i \in Ids : Gone(i) => Gone(i)']_vars

\* A hook has called back into the store from under its lock.
Wedged == \E p \in Procs : pc[p] = "stuck"

\* After that the store is lost for good: no goroutine enters a section again,
\* hence no resource changes and no call on the store is answered.
WedgeIsFinal == [][Wedged => Wedged' /\ UNCHANGED <<resources, writer, readers>>]_vars

\* Nothing else stops a call: in spite of the other callers, and without a
\* re-entrant hook, it comes back.
OnlyReentryBlocks == \A p \in Procs : pc[p] # "idle" ~> (pc[p] = "idle" \/ Wedged)

=============================================================================
