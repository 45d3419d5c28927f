-------------------------- MODULE MemoryStoreProofs --------------------------
(***************************************************************************)
(* Proofs about MemoryStore for every set of goroutines, types, ids, names *)
(* and requests, every size of the memory and every bound on the clock:    *)
(* its invariant, and what its steps never do.                             *)
(***************************************************************************)
EXTENDS MemoryStore, TLAPS

-----------------------------------------------------------------------------
(* Lemmas about the operators of the model.                                 *)

\* A formatted and parsed time is not later than the time itself.
LEMMA TruncateType ==
  ASSUME NEW t \in Times
  PROVE  Truncate(t) \in Times /\ Truncate(t) <= t
<1>1. t \in Nat /\ PerSecond \in Nat /\ PerSecond > 0 /\ MaxClock \in Nat
  BY ClockAssumption DEF Times
<1> DEFINE q == t \div PerSecond
<1>2. q \in Int /\ PerSecond * q <= t /\ t < PerSecond * (q + 1)
  BY <1>1
<1>3. q >= 0
  BY <1>1, <1>2
<1>4. PerSecond * q >= 0
  BY <1>1, <1>2, <1>3
<1>5. PerSecond * q \in Int
  BY <1>1, <1>2
<1> QED
  BY <1>1, <1>2, <1>4, <1>5 DEF Truncate, Times

\* A time in seconds is a clock reading, and the second it came from.
LEMMA SecondsType ==
  ASSUME NEW s \in Seconds
  PROVE  PerSecond * s \in Times /\ (PerSecond * s) \div PerSecond = s
<1>1. /\ s \in Nat /\ PerSecond \in Nat /\ PerSecond > 0 /\ MaxClock \in Nat
      /\ s <= MaxClock \div PerSecond
  BY ClockAssumption DEF Seconds
<1> DEFINE q == MaxClock \div PerSecond
<1>2. q \in Int /\ PerSecond * q <= MaxClock
  BY <1>1
<1>3. PerSecond * s <= PerSecond * q
  BY <1>1, <1>2
<1>4. PerSecond * s \in Nat /\ PerSecond * q \in Int
  BY <1>1, <1>2
<1>5. (PerSecond * s) \div PerSecond = s
  BY <1>1
<1> QED
  BY <1>1, <1>2, <1>3, <1>4, <1>5 DEF Times

\* The second of a clock reading.
LEMMA SecondOf ==
  ASSUME NEW t \in Times
  PROVE  t \div PerSecond \in Seconds
<1>1. t \in Nat /\ PerSecond \in Nat /\ PerSecond > 0 /\ MaxClock \in Nat /\ t <= MaxClock
  BY ClockAssumption DEF Times
<1> DEFINE q == t \div PerSecond
           k == MaxClock \div PerSecond
<1>2. q \in Int /\ PerSecond * q <= t /\ t < PerSecond * (q + 1)
  BY <1>1
<1>3. k \in Int /\ MaxClock < PerSecond * (k + 1)
  BY <1>1
<1>4. q >= 0
  BY <1>1, <1>2
<1>5. PerSecond * q < PerSecond * (k + 1)
  BY <1>1, <1>2, <1>3
<1>6. q < k + 1
  BY <1>1, <1>2, <1>3, <1>5
<1> QED
  BY <1>1, <1>2, <1>3, <1>4, <1>6 DEF Seconds

\* The metadata ToMap writes.
LEMMA OwnMetaType ==
  ASSUME NEW o \in Objects
  PROVE  /\ OwnMeta(o) \in Metas
         /\ PerSecond * OwnMeta(o).created = Truncate(o.created)
         /\ PerSecond * OwnMeta(o).modified = Truncate(o.modified)
<1>1. o.created \in Times /\ o.modified \in Times
  BY DEF Objects
<1>2. o.created \div PerSecond \in Seconds /\ o.modified \div PerSecond \in Seconds
  BY <1>1, SecondOf
<1> QED
  BY <1>2 DEF OwnMeta, Metas, Truncate

\* A copy, field by field.
LEMMA CopyIs ==
  ASSUME NEW o \in Objects, NEW i \in Ids \cup {Nil}, NEW m \in Metas
  PROVE  /\ Copy(o, i, m) \in Objects
         /\ Copy(o, i, m) = [key |-> o.key, id |-> i, name |-> o.name,
                             created |-> PerSecond * m.created,
                             modified |-> PerSecond * m.modified,
                             otherIds |-> {}, otherMetas |-> {}, edited |-> o.edited]
<1>1. m.created \in Seconds /\ m.modified \in Seconds
  BY DEF Metas
<1> DEFINE c == PerSecond * m.created
           d == PerSecond * m.modified
<1>2. c \in Times /\ d \in Times
  BY <1>1, SecondsType
<1>3. Copy(o, i, m) = [o EXCEPT !.id = i, !.created = c, !.modified = d,
                               !.otherIds = {}, !.otherMetas = {}]
  BY DEF Copy
<1>4. Copy(o, i, m) = [key |-> o.key, id |-> i, name |-> o.name, created |-> c, modified |-> d,
                       otherIds |-> {}, otherMetas |-> {}, edited |-> o.edited]
  <2> HIDE DEF c, d
  <2> QED
    BY <1>3 DEF Objects
<1>5. Copy(o, i, m) \in Objects
  <2> HIDE DEF c, d
  <2> QED
    BY <1>2, <1>4 DEF Objects
<1> QED
  BY <1>4, <1>5

\* The copy of a body is a resource with the same key.
LEMMA CloneType ==
  ASSUME NEW o \in Objects
  PROVE  Clone(o) \in Objects /\ Clone(o).key = o.key
<1>1. o.id \in Ids \cup {Nil} /\ OwnMeta(o) \in Metas
  BY OwnMetaType DEF Objects
<1> QED
  BY <1>1, CopyIs DEF Clone

\* Where the identifier and the metadata of a copy come from.
LEMMA ClonesFrom ==
  ASSUME NEW o \in Objects, NEW c \in Clones(o)
  PROVE  \E i \in IdsRead(o), m \in {OwnMeta(o)} \cup o.otherMetas :
           /\ i \in Ids \cup {Nil} /\ i \in {o.id} \cup o.otherIds
           /\ m \in Metas /\ c = Copy(o, i, m)
<1>1. PICK i \in IdsRead(o), m \in {OwnMeta(o)} \cup o.otherMetas : c = Copy(o, i, m)
  BY DEF Clones
<1>2. i \in {o.id} \cup o.otherIds
  BY DEF IdsRead
<1>3. i \in Ids \cup {Nil}
  BY <1>2 DEF Objects
<1>4. m \in Metas
  BY OwnMetaType DEF Objects
<1> QED
  BY <1>1, <1>2, <1>3, <1>4

\* Clone returns a resource with the key, the name and, up to what a PATCH has
\* stored, the identifier and the second of creation of its receiver.
LEMMA ClonesKeep ==
  ASSUME NEW o \in Objects, NEW c \in Clones(o)
  PROVE  /\ c \in Objects
         /\ c.key = o.key /\ c.name = o.name /\ c.otherIds = {} /\ c.otherMetas = {}
         /\ c.id \in {o.id} \cup o.otherIds
         /\ \/ c.created = Truncate(o.created)
            \/ \E m \in o.otherMetas : c.created = PerSecond * m.created
<1>1. PICK i \in IdsRead(o), m \in {OwnMeta(o)} \cup o.otherMetas :
           /\ i \in Ids \cup {Nil} /\ i \in {o.id} \cup o.otherIds
           /\ m \in Metas /\ c = Copy(o, i, m)
  BY ClonesFrom
<1>2. c \in Objects /\ c.created = PerSecond * m.created /\ c.id = i /\ c.key = o.key
      /\ c.name = o.name /\ c.otherIds = {} /\ c.otherMetas = {}
  BY <1>1, CopyIs
<1>3. m = OwnMeta(o) => c.created = Truncate(o.created)
  BY <1>2, OwnMetaType
<1> QED
  BY <1>1, <1>2, <1>3

\* New cells are cells nobody can reach.
LEMMA CellsFresh ==
  ASSUME Room
  PROVE  /\ Cell1 \in Refs \ Live
         /\ Cell2 \in Refs \ Live
         /\ Cell1 # Cell2
<1>1. Cell1 \in Refs \ Live
  BY DEF Room, Cell1
<1>2. \E r \in Refs : r \notin Live /\ r # Cell1
  BY <1>1 DEF Room
<1>3. Cell2 \in Refs /\ Cell2 \notin Live /\ Cell2 # Cell1
  BY <1>2 DEF Cell2
<1> QED
  BY <1>1, <1>3

\* What it means that nobody can reach a cell.
LEMMA NotLive ==
  ASSUME NEW r \in Refs \ Live
  PROVE  /\ \A t \in Types, i \in Ids : resources[t][i] # r
         /\ \A p \in Procs : own[p] # r /\ r \notin snap[p] /\ r \notin out[p]
<1>1. r # Nil
  BY NilAssumption
<1>2. ASSUME NEW t \in Types, NEW i \in Ids PROVE resources[t][i] # r
  BY <1>1 DEF Live, Stored
<1>3. ASSUME NEW p \in Procs PROVE own[p] # r /\ r \notin snap[p] /\ r \notin out[p]
  BY <1>1 DEF Live
<1> QED
  BY <1>2, <1>3

-----------------------------------------------------------------------------
(* The inductive invariant.                                                 *)

\* What the locals of a goroutine hold at each point it can be at.
LocalInv ==
  \A p \in Procs :
    /\ pc[p] # "idle" => req[p] \in Requests
    /\ pc[p] \in {"idle", "called", "rwait", "read"} => own[p] = Nil /\ out[p] = {} /\ snap[p] = {}
    /\ pc[p] \in {"rwait", "read"} => req[p].op \in {"Get", "List"}
    /\ pc[p] \in {"wwait", "write"} =>
         /\ out[p] = {} /\ snap[p] = {}
         /\ req[p].op \in {"Create", "Replace", "Patch", "Delete"}
         /\ own[p] # Nil <=> req[p].op = "Create"
    /\ pc[p] \in {"prehook", "patch"} =>
         own[p] # Nil /\ out[p] = {} /\ snap[p] = {} /\ req[p].op = "Patch" /\ Target(p) # Nil
    /\ pc[p] \in {"post", "done"} => own[p] = Nil /\ snap[p] = {}
    /\ pc[p] = "scan" => own[p] = Nil
    /\ pc[p] = "stuck" => snap[p] = {}

\* Resources in memory have a key.
Known == {o \in Objects : o.key \in Ids}

\* Every pointer leads to a resource.
HeapInv ==
  /\ \A t \in Types, i \in Ids : Present(t, i) => At(t, i) \in Known
  /\ \A p \in Procs : /\ own[p] # Nil => heap[own[p]] \in Known
                      /\ \A r \in snap[p] \cup out[p] : heap[r] \in Known

\* NoAliasing, pointer by pointer.
Separation ==
  \A p \in Procs :
    /\ own[p] # Nil =>
         /\ \A t \in Types, i \in Ids : resources[t][i] # own[p]
         /\ \A q \in Procs : /\ own[p] \notin snap[q] /\ own[p] \notin out[q]
                             /\ p # q => own[p] # own[q]
    /\ \A r \in out[p] :
         /\ \A t \in Types, i \in Ids : resources[t][i] # r
         /\ \A q \in Procs : r \notin snap[q] /\ (p # q => r \notin out[q])

IInv == TypeOK /\ LockInv /\ LocalInv /\ HeapInv /\ Separation

-----------------------------------------------------------------------------
(* The steps several actions are made of.                                   *)

\* Writing a resource to one cell, which the store or a goroutine may have just
\* begun to point to, leaves every pointer leading to a resource.
LEMMA HeapWrite ==
  ASSUME TypeOK, HeapInv, NEW r \in Refs, NEW o \in Known,
         heap' = [heap EXCEPT ![r] = o], resources' = resources,
         \A q \in Procs : /\ own'[q] \in {own[q], r}
                          /\ snap'[q] \subseteq snap[q]
                          /\ out'[q] \subseteq out[q] \cup {r}
  PROVE  HeapInv'
<1>1. \A x \in Refs : heap[x] \in Known \/ x = r => heap'[x] \in Known
  BY DEF TypeOK
<1>2. ASSUME NEW t \in Types, NEW i \in Ids, Present(t, i)'
      PROVE  At(t, i)' \in Known
  BY <1>1, <1>2 DEF TypeOK, HeapInv, Present, At
<1>3. ASSUME NEW q \in Procs, own'[q] # Nil
      PROVE  heap'[own'[q]] \in Known
  BY <1>1, <1>3 DEF TypeOK, HeapInv
<1>4. ASSUME NEW q \in Procs, NEW x \in snap'[q] \cup out'[q]
      PROVE  heap'[x] \in Known
  <2>1. x \in snap[q] \cup out[q] \cup {r}
    BY <1>4
  <2>2. x \in Refs /\ (heap[x] \in Known \/ x = r)
    BY <2>1 DEF TypeOK, HeapInv
  <2> QED
    BY <1>1, <2>2
<1> QED
  BY <1>2, <1>3, <1>4 DEF HeapInv

\* An error under the write lock keeps the invariant.
LEMMA FailStep ==
  ASSUME IInv, NEW p \in Procs, pc[p] \in {"write", "prehook", "patch"},
         NEW s \in {"notFound", "conflict", "rejected", "panic", "noTarget", "badPatch"},
         Fail(p, s)
  PROVE  IInv'
<1> USE DEF IInv, Fail, Answer, storeVars
<1>1. TypeOK'
  BY DEF TypeOK, Unlock, Blocked
<1>2. LockInv'
  BY NilAssumption DEF TypeOK, LockInv, Unlock, Blocked, WriteSection
<1>3. LocalInv'
  BY DEF TypeOK, LocalInv, Unlock, Blocked, Target
<1>4. HeapInv'
  BY DEF TypeOK, HeapInv, Present, At
<1>5. Separation'
  BY DEF TypeOK, Separation
<1> QED
  BY <1>1, <1>2, <1>3, <1>4, <1>5

\* Publishing a resource nobody else can reach keeps the invariant.
LEMMA PublishStep ==
  ASSUME IInv, NEW p \in Procs, pc[p] \in {"write", "patch"},
         req[p].op \in {"Create", "Replace", "Patch"},
         NEW i \in Ids, NEW o \in Known, NEW r \in Refs, NEW copy \in Refs \ Live,
         r # copy, r = own[p] \/ r \in Refs \ Live,
         Publish(p, i, r, o, copy)
  PROVE  IInv'
<1> USE DEF IInv
<1>1. req[p] \in Requests /\ req[p].type \in Types
  BY RequestsAssumption DEF LocalInv, RequestType
<1>2. PICK c \in Known : heap' = [heap EXCEPT ![r] = o, ![copy] = c]
  BY ClonesKeep DEF Known, Publish
<1>3. /\ \A t \in Types, j \in Ids : resources[t][j] # copy /\ resources[t][j] # r
      /\ \A q \in Procs : /\ copy # own[q] /\ copy \notin snap[q] /\ copy \notin out[q]
                          /\ r \notin snap[q] /\ r \notin out[q]
                          /\ p # q => r # own[q]
  BY NotLive, NilAssumption DEF Separation
<1>4. out[p] = {} /\ snap[p] = {}
  BY DEF LocalInv
<1>5. TypeOK'
  BY <1>1, <1>2 DEF TypeOK, Publish, lockVars, Known
<1>6. LockInv'
  BY DEF TypeOK, LockInv, Publish, lockVars, WriteSection
<1>7. LocalInv'
  BY <1>1 DEF TypeOK, LocalInv, LockInv, WriteSection, Publish, lockVars, Target
<1>8. HeapInv'
  BY <1>1, <1>2, <1>3, <1>4 DEF TypeOK, HeapInv, Publish, Present, At
<1>9. Separation'
  BY <1>1, <1>3, <1>4 DEF TypeOK, Separation, Publish
<1> QED
  BY <1>5, <1>6, <1>7, <1>8, <1>9

\* Cloning the stored resource for a hook or for ApplyPatch keeps the invariant.
LEMMA OwnCloneStep ==
  ASSUME IInv, NEW p \in Procs, pc[p] \in {"write", "prehook"}, req[p].op = "Patch",
         Target(p) # Nil, NEW next \in {"prehook", "patch"}, OwnClone(p, next)
  PROVE  IInv'
<1> USE DEF IInv
<1>1. req[p] \in Requests /\ req[p].type \in Types /\ req[p].id \in Ids
  BY RequestsAssumption DEF LocalInv, RequestType
<1>2. PICK c \in Known : heap' = [heap EXCEPT ![CloneCell(p)] = c]
  <2>1. heap[Target(p)] \in Known
    BY <1>1 DEF HeapInv, Present, At, Target
  <2>2. Clones(heap[Target(p)]) \subseteq Known
    BY <2>1, ClonesKeep DEF Known
  <2> QED
    BY <2>2 DEF OwnClone
<1>3. Cell1 \in Refs \ Live
  BY CellsFresh DEF OwnClone
<1>4. TypeOK'
  BY <1>2, <1>3 DEF TypeOK, OwnClone, CloneCell, lockVars, storeVars, Known
<1>5. LockInv'
  BY DEF TypeOK, LockInv, OwnClone, lockVars, WriteSection
<1>6. LocalInv'
  BY <1>3, NilAssumption DEF TypeOK, LocalInv, OwnClone, CloneCell, lockVars, storeVars, Target
<1>7. HeapInv'
  BY <1>2, <1>3, NotLive DEF TypeOK, HeapInv, OwnClone, CloneCell, storeVars, Present, At
<1>8. Separation'
  BY <1>3, NotLive DEF TypeOK, Separation, LocalInv, OwnClone, CloneCell, storeVars
<1> QED
  BY <1>4, <1>5, <1>6, <1>7, <1>8

-----------------------------------------------------------------------------
(* The actions, one by one.                                                 *)

\* The clock advances.
LEMMA TickStep ==
  ASSUME IInv, Tick
  PROVE  IInv'
<1> USE DEF IInv, Tick, storeVars, lockVars
<1>1. TypeOK'
  BY ClockAssumption DEF TypeOK, Times
<1>2. LockInv'
  BY DEF TypeOK, LockInv, WriteSection
<1>3. LocalInv'
  BY DEF TypeOK, LocalInv, LockInv, WriteSection, Target
<1>4. HeapInv'
  BY DEF TypeOK, LocalInv, HeapInv, Present, At
<1>5. Separation'
  BY DEF TypeOK, LocalInv, Separation
<1> QED
  BY <1>1, <1>2, <1>3, <1>4, <1>5

\* A call arrives.
LEMMA CallStep ==
  ASSUME IInv, NEW p \in Procs, Call(p)
  PROVE  IInv'
<1> USE DEF IInv, Call, storeVars, lockVars
<1>1. TypeOK'
  BY NilAssumption DEF TypeOK
<1>2. LockInv'
  BY NilAssumption DEF TypeOK, LockInv, WriteSection
<1>3. LocalInv'
  BY NilAssumption DEF TypeOK, LocalInv, LockInv, WriteSection, Target
<1>4. HeapInv'
  BY NilAssumption DEF TypeOK, LocalInv, HeapInv, Present, At
<1>5. Separation'
  BY NilAssumption DEF TypeOK, LocalInv, Separation
<1> QED
  BY <1>1, <1>2, <1>3, <1>4, <1>5

\* A call is refused before it takes the lock.
LEMMA RefuseStep ==
  ASSUME IInv, NEW p \in Procs, Refuse(p)
  PROVE  IInv'
<1> USE DEF IInv, Refuse, storeVars, lockVars
<1>1. TypeOK'
  BY DEF TypeOK, Answer
<1>2. LockInv'
  BY DEF TypeOK, LockInv, WriteSection
<1>3. LocalInv'
  BY DEF TypeOK, LocalInv, LockInv, WriteSection, Target
<1>4. HeapInv'
  BY DEF TypeOK, LocalInv, HeapInv, Present, At
<1>5. Separation'
  BY DEF TypeOK, LocalInv, Separation
<1> QED
  BY <1>1, <1>2, <1>3, <1>4, <1>5

\* Create builds its resource before it takes the lock.
LEMMA PrepareStep ==
  ASSUME IInv, NEW p \in Procs, Prepare(p)
  PROVE  IInv'
<1> USE DEF IInv, Prepare, storeVars, lockVars
<1>1. req[p] \in Requests /\ Body(req[p]) \in Objects
  BY RequestsAssumption, ClockAssumption DEF LocalInv, RequestType, Body, Objects, Times
<1>2. Cell1 \in Refs \ Live
  BY CellsFresh
<1>3. \A t \in Types, i \in Ids : resources[t][i] # Cell1
  BY <1>2, NotLive
<1>4. \A q \in Procs : own[q] # Cell1 /\ Cell1 \notin snap[q] /\ Cell1 \notin out[q]
  BY <1>2, NotLive
<1>5. ASSUME NEW i \in Ids
      PROVE  [Clone(Body(req[p])) EXCEPT !.key = i, !.id = i, !.created = clock, !.modified = clock] \in Known
  BY <1>1, CloneType DEF TypeOK, Objects, Known
<1>6. TypeOK'
  <2>1. PICK i \in NewIds :
          /\ issued' = issued \cup {i}
          /\ heap' = [heap EXCEPT ![Cell1] =
               [Clone(Body(req[p])) EXCEPT !.key = i, !.id = i, !.created = clock, !.modified = clock]]
    OBVIOUS
  <2> QED
    BY <1>2, <1>5, <2>1 DEF TypeOK, NewIds, Known
<1>7. LockInv'
  BY <1>1, <1>2, <1>3, NilAssumption DEF TypeOK, LockInv, WriteSection
<1>8. LocalInv'
  BY <1>1, <1>2, <1>3, NilAssumption DEF TypeOK, LocalInv, LockInv, WriteSection, Target, NewIds
<1>9. HeapInv'
  BY <1>2, <1>5, HeapWrite DEF TypeOK, NewIds
<1>10. Separation'
  BY <1>1, <1>2, <1>3, NilAssumption, <1>4 DEF TypeOK, LocalInv, Separation, NewIds
<1> QED
  BY <1>6, <1>7, <1>8, <1>9, <1>10

\* A writer announces itself.
LEMMA LockStep ==
  ASSUME IInv, NEW p \in Procs, Lock(p)
  PROVE  IInv'
<1> USE DEF IInv, Lock, storeVars, lockVars
<1>1. TypeOK'
  BY DEF TypeOK
<1>2. LockInv'
  BY DEF TypeOK, LockInv, WriteSection
<1>3. LocalInv'
  BY DEF TypeOK, LocalInv, LockInv, WriteSection, Target
<1>4. HeapInv'
  BY DEF TypeOK, LocalInv, HeapInv, Present, At
<1>5. Separation'
  BY DEF TypeOK, LocalInv, Separation
<1> QED
  BY <1>1, <1>2, <1>3, <1>4, <1>5

\* A writer enters.
LEMMA AcquireStep ==
  ASSUME IInv, NEW p \in Procs, Acquire(p)
  PROVE  IInv'
<1> USE DEF IInv, Acquire, storeVars, lockVars
<1>1. TypeOK'
  BY NilAssumption DEF TypeOK
<1>2. LockInv'
  BY NilAssumption DEF TypeOK, LockInv, WriteSection
<1>3. LocalInv'
  BY NilAssumption DEF TypeOK, LocalInv, LockInv, WriteSection, Target
<1>4. HeapInv'
  BY NilAssumption DEF TypeOK, LocalInv, HeapInv, Present, At
<1>5. Separation'
  BY NilAssumption DEF TypeOK, LocalInv, Separation
<1> QED
  BY <1>1, <1>2, <1>3, <1>4, <1>5

\* A reader enters or is blocked.
LEMMA RLockStep ==
  ASSUME IInv, NEW p \in Procs, RLock(p)
  PROVE  IInv'
<1> USE DEF IInv, RLock, storeVars, lockVars
<1>1. TypeOK'
  BY NilAssumption DEF TypeOK, Announced
<1>2. LockInv'
  BY NilAssumption DEF TypeOK, LockInv, WriteSection, Announced
<1>3. LocalInv'
  BY NilAssumption DEF TypeOK, LocalInv, LockInv, WriteSection, Target, Announced
<1>4. HeapInv'
  BY NilAssumption DEF TypeOK, LocalInv, HeapInv, Present, At
<1>5. Separation'
  BY NilAssumption DEF TypeOK, LocalInv, Separation
<1> QED
  BY <1>1, <1>2, <1>3, <1>4, <1>5

\* Delete removes the pointer.
LEMMA DeleteStep ==
  ASSUME IInv, NEW p \in Procs, Delete(p)
  PROVE  IInv'
<1> USE DEF IInv, Delete, storeVars, lockVars
<1>1. req[p] \in Requests /\ req[p].type \in Types /\ req[p].id \in Ids
  BY RequestsAssumption DEF LocalInv, RequestType
<1>2. TypeOK'
  BY <1>1, NilAssumption DEF TypeOK
<1>3. LockInv'
  BY <1>1, NilAssumption DEF TypeOK, LockInv, WriteSection
<1>4. LocalInv'
  BY <1>1, NilAssumption DEF TypeOK, LocalInv, LockInv, WriteSection, Target
<1>5. HeapInv'
  BY <1>1, NilAssumption DEF TypeOK, LocalInv, HeapInv, Present, At
<1>6. Separation'
  BY <1>1, NilAssumption DEF TypeOK, LocalInv, Separation
<1> QED
  BY <1>2, <1>3, <1>4, <1>5, <1>6

\* A hook blocks on the lock.
LEMMA HookReentersStep ==
  ASSUME IInv, NEW p \in Procs, HookReenters(p)
  PROVE  IInv'
<1> USE DEF IInv, HookReenters, storeVars, lockVars
<1>1. TypeOK'
  BY DEF TypeOK
<1>2. LockInv'
  BY DEF TypeOK, LockInv, WriteSection
<1>3. LocalInv'
  BY DEF TypeOK, LocalInv, LockInv, WriteSection, Target
<1>4. HeapInv'
  BY DEF TypeOK, LocalInv, HeapInv, Present, At
<1>5. Separation'
  BY DEF TypeOK, LocalInv, Separation
<1> QED
  BY <1>1, <1>2, <1>3, <1>4, <1>5

\* A hook writes to its clone.
LEMMA HookEditsStep ==
  ASSUME IInv, NEW p \in Procs, HookEdits(p)
  PROVE  IInv'
<1> USE DEF IInv, HookEdits, storeVars, lockVars
<1>1. PICK r \in Private(p) : heap' = [heap EXCEPT ![r].edited = TRUE]
  OBVIOUS
<1>2. r \in Refs /\ heap[r] \in Known
  BY NilAssumption DEF TypeOK, HeapInv, Private
<1>3. [heap[r] EXCEPT !.edited = TRUE] \in Known
  BY <1>2 DEF Objects, Known
<1>4. heap' = [heap EXCEPT ![r] = [heap[r] EXCEPT !.edited = TRUE]]
  BY <1>1, <1>2 DEF TypeOK
<1>5. TypeOK'
  BY <1>2, <1>3, <1>4 DEF TypeOK, Known
<1>6. LockInv'
  BY DEF TypeOK, LockInv, WriteSection
<1>7. LocalInv'
  BY DEF TypeOK, LocalInv, LockInv, WriteSection, Target
<1>8. HeapInv'
  BY <1>2, <1>3, <1>4, HeapWrite
<1>9. Separation'
  BY DEF TypeOK, LocalInv, Separation
<1> QED
  BY <1>5, <1>6, <1>7, <1>8, <1>9

\* An operation writes to the attributes only, and to one of them.
LEMMA AppliedKeeps ==
  ASSUME NEW o \in Objects, NEW op \in PatchOps
  PROVE  /\ Applied(o, op) \in Objects
         /\ Applied(o, op).key = o.key /\ Applied(o, op).id = o.id
         /\ Applied(o, op).created = o.created /\ Applied(o, op).modified = o.modified
         /\ Applied(o, op).name = IF op.kind = "userName" THEN op.name ELSE o.name
         /\ Applied(o, op).otherIds = IF op.kind = "id" THEN op.ids ELSE o.otherIds
         /\ Applied(o, op).otherMetas = IF op.kind = "meta" THEN op.metas ELSE o.otherMetas
<1> DEFINE name == IF op.kind = "userName" THEN op.name ELSE o.name
           ids == IF op.kind = "id" THEN op.ids ELSE o.otherIds
           metas == IF op.kind = "meta" THEN op.metas ELSE o.otherMetas
<1>1. name \in Attr /\ ids \in SUBSET (Ids \cup {Nil}) /\ metas \in SUBSET Metas
  BY DEF Objects, PatchOps
<1>2. Applied(o, op) = [o EXCEPT !.name = name, !.otherIds = ids, !.otherMetas = metas]
  BY DEF Applied, Objects
<1>3. /\ Applied(o, op) \in Objects
      /\ Applied(o, op).key = o.key /\ Applied(o, op).id = o.id
      /\ Applied(o, op).created = o.created /\ Applied(o, op).modified = o.modified
      /\ Applied(o, op).name = name
      /\ Applied(o, op).otherIds = ids
      /\ Applied(o, op).otherMetas = metas
  <2> HIDE DEF name, ids, metas
  <2> QED
    BY <1>1, <1>2 DEF Objects
<1> QED
  BY <1>3

\* An operation is applied to the clone.
LEMMA ApplyOpStep ==
  ASSUME IInv, NEW p \in Procs, ApplyOp(p)
  PROVE  IInv'
<1> USE DEF IInv, ApplyOp, storeVars, lockVars
<1>1. own[p] \in Refs /\ heap[own[p]] \in Known
  BY DEF TypeOK, LocalInv, HeapInv
<1>2. req[p].ops[step[p]] \in PatchOps
  <2>1. req[p].ops \in Seq(PatchOps)
    BY RequestsAssumption DEF LocalInv, RequestType
  <2>2. step[p] \in 1 .. Len(req[p].ops)
    BY <2>1 DEF TypeOK
  <2> QED
    BY <2>1, <2>2
<1>3. Applied(heap[own[p]], req[p].ops[step[p]]) \in Known
  BY <1>1, <1>2, AppliedKeeps DEF Known
<1>4. TypeOK'
  BY <1>1, <1>2, <1>3 DEF TypeOK, Known
<1>5. LockInv'
  BY <1>1, <1>2, <1>3 DEF TypeOK, LockInv, WriteSection
<1>6. LocalInv'
  BY <1>1, <1>2, <1>3 DEF TypeOK, LocalInv, LockInv, WriteSection, Target
<1>7. HeapInv'
  <2>1. heap' = [heap EXCEPT ![own[p]] = Applied(heap[own[p]], req[p].ops[step[p]])]
    BY DEF TypeOK
  <2> QED
    BY <1>1, <1>3, <2>1, HeapWrite
<1>8. Separation'
  BY <1>1, <1>2, <1>3 DEF TypeOK, LocalInv, Separation
<1> QED
  BY <1>4, <1>5, <1>6, <1>7, <1>8

\* The post hooks end and the lock is released.
LEMMA PostHooksStep ==
  ASSUME IInv, NEW p \in Procs, PostHooks(p)
  PROVE  IInv'
<1> USE DEF IInv, PostHooks, storeVars, lockVars
<1>1. TypeOK'
  BY NilAssumption DEF TypeOK, Unlock, Blocked, Answer
<1>2. LockInv'
  BY NilAssumption DEF TypeOK, LockInv, WriteSection, Unlock, Blocked, Answer
<1>3. LocalInv'
  BY NilAssumption DEF TypeOK, LocalInv, LockInv, WriteSection, Target, Unlock, Blocked, Answer
<1>4. HeapInv'
  BY NilAssumption DEF TypeOK, LocalInv, HeapInv, Present, At, Unlock, Blocked, Answer
<1>5. Separation'
  BY NilAssumption DEF TypeOK, LocalInv, Separation, Unlock, Blocked, Answer
<1> QED
  BY <1>1, <1>2, <1>3, <1>4, <1>5

\* Get clones the resource and releases the lock.
LEMMA GetStep ==
  ASSUME IInv, NEW p \in Procs, Get(p)
  PROVE  IInv'
<1> USE DEF IInv, Get, storeVars, lockVars
<1>1. CASE Target(p) = Nil
  BY <1>1 DEF TypeOK, LockInv, LocalInv, HeapInv, Separation, WriteSection, Target, Present, At,
              RUnlock, Answer
<1>2. CASE Target(p) # Nil
  <2>1. req[p] \in Requests /\ req[p].type \in Types /\ req[p].id \in Ids
    BY RequestsAssumption DEF LocalInv, RequestType
  <2>2. heap[Target(p)] \in Known
    BY <1>2, <2>1 DEF HeapInv, Present, At, Target
  <2>3. Cell1 \in Refs \ Live /\ out' = [out EXCEPT ![p] = {Cell1}]
    BY <1>2, CellsFresh DEF CloneCell
  <2>4. PICK c \in Known : heap' = [heap EXCEPT ![Cell1] = c]
    BY <1>2, <2>2, ClonesKeep DEF Known, CloneCell
  <2>5. TypeOK'
    BY <2>3, <2>4 DEF TypeOK, RUnlock, Answer, Known
  <2>6. LockInv'
    BY DEF TypeOK, LockInv, WriteSection, RUnlock
  <2>7. LocalInv'
    BY <2>3 DEF TypeOK, LocalInv, LockInv, WriteSection, Target, RUnlock
  <2>8. HeapInv'
    BY <2>3, <2>4, HeapWrite DEF TypeOK
  <2>9. Separation'
    BY <2>3, NotLive DEF TypeOK, LocalInv, Separation, RUnlock
  <2> QED
    BY <2>5, <2>6, <2>7, <2>8, <2>9
<1> QED
  BY <1>1, <1>2

\* List copies the pointers and releases the lock.
LEMMA SnapshotStep ==
  ASSUME IInv, NEW p \in Procs, Snapshot(p)
  PROVE  IInv'
<1> USE DEF IInv, Snapshot, storeVars, lockVars
<1>1. req[p].type \in Types
  BY RequestsAssumption DEF LocalInv, RequestType
<1>2. TypeOK'
  BY <1>1, NilAssumption DEF TypeOK, RUnlock
<1>3. LockInv'
  BY <1>1, NilAssumption DEF TypeOK, LockInv, WriteSection, RUnlock
<1>4. LocalInv'
  BY <1>1, NilAssumption DEF TypeOK, LocalInv, LockInv, WriteSection, Target, RUnlock
<1>5. HeapInv'
  BY <1>1, NilAssumption DEF TypeOK, LocalInv, HeapInv, Present, At, RUnlock
<1>6. Separation'
  BY <1>1, NilAssumption DEF TypeOK, LocalInv, Separation, RUnlock
<1> QED
  BY <1>2, <1>3, <1>4, <1>5, <1>6

\* List clones a resource of its snapshot or skips it.
LEMMA ListFilterStep ==
  ASSUME IInv, NEW p \in Procs, ListFilter(p)
  PROVE  IInv'
<1> USE DEF IInv, ListFilter, storeVars, lockVars
<1>1. ASSUME Room PROVE Cell1 \in Refs \ Live
  BY <1>1, CellsFresh
<1>2. ASSUME NEW r \in snap[p] PROVE heap[r] \in Known /\ Clones(heap[r]) \subseteq Known
  BY ClonesKeep DEF HeapInv, Known
<1>3. TypeOK'
  BY <1>1, <1>2 DEF TypeOK, Known
<1>4. LockInv'
  BY <1>1 DEF TypeOK, LockInv, WriteSection
<1>5. LocalInv'
  BY <1>1 DEF TypeOK, LocalInv, LockInv, WriteSection, Target
<1>6. HeapInv'
  <2>1. PICK r \in snap[p] :
          /\ snap' = [snap EXCEPT ![p] = @ \ {r}]
          /\ IF Matches(p, heap[r])
             THEN /\ Room
                  /\ \E c \in Clones(heap[r]) : heap' = [heap EXCEPT ![Cell1] = c]
                  /\ out' = [out EXCEPT ![p] = @ \cup {Cell1}]
             ELSE UNCHANGED <<heap, out>>
    OBVIOUS
  <2>2. CASE Matches(p, heap[r])
    <3>1. PICK c \in Known : heap' = [heap EXCEPT ![Cell1] = c]
      BY <1>2, <2>1, <2>2
    <3>2. Cell1 \in Refs /\ out' = [out EXCEPT ![p] = @ \cup {Cell1}]
      BY <1>1, <2>1, <2>2
    <3> QED
      BY <2>1, <3>1, <3>2, HeapWrite DEF TypeOK
  <2>3. CASE ~ Matches(p, heap[r])
    BY <2>1, <2>3 DEF TypeOK, HeapInv, Present, At
  <2> QED
    BY <2>2, <2>3
<1>7. Separation'
  BY <1>1, NotLive DEF TypeOK, LocalInv, Separation
<1> QED
  BY <1>3, <1>4, <1>5, <1>6, <1>7

\* List keeps one page.
LEMMA ListPageStep ==
  ASSUME IInv, NEW p \in Procs, ListPage(p)
  PROVE  IInv'
<1> USE DEF IInv, ListPage, storeVars, lockVars
<1>1. TypeOK'
  BY DEF TypeOK, Answer
<1>2. LockInv'
  BY DEF TypeOK, LockInv, WriteSection, Answer
<1>3. LocalInv'
  BY DEF TypeOK, LocalInv, LockInv, WriteSection, Target, Answer
<1>4. HeapInv'
  BY DEF TypeOK, LocalInv, HeapInv, Present, At
<1>5. Separation'
  BY DEF TypeOK, LocalInv, Separation
<1> QED
  BY <1>1, <1>2, <1>3, <1>4, <1>5

\* A caller writes to what it was given.
LEMMA CallerEditsStep ==
  ASSUME IInv, NEW p \in Procs, CallerEdits(p)
  PROVE  IInv'
<1> USE DEF IInv, CallerEdits, storeVars, lockVars
<1>1. ASSUME NEW r \in out[p]
      PROVE  r \in Refs /\ [heap[r] EXCEPT !.edited = TRUE] \in Known
  <2>1. r \in Refs /\ heap[r] \in Known
    BY DEF TypeOK, HeapInv
  <2> QED
    BY <2>1 DEF Objects, Known
<1>2. TypeOK'
  BY <1>1 DEF TypeOK, Known
<1>3. LockInv'
  BY DEF TypeOK, LockInv, WriteSection
<1>4. LocalInv'
  BY DEF TypeOK, LocalInv, LockInv, WriteSection, Target
<1>5. HeapInv'
  <2>1. PICK r \in out[p] : heap' = [heap EXCEPT ![r].edited = TRUE]
    OBVIOUS
  <2>2. heap' = [heap EXCEPT ![r] = [heap[r] EXCEPT !.edited = TRUE]]
    BY <1>1, <2>1 DEF TypeOK
  <2> QED
    BY <1>1, <2>2, HeapWrite
<1>6. Separation'
  BY DEF TypeOK, LocalInv, Separation
<1> QED
  BY <1>2, <1>3, <1>4, <1>5, <1>6

\* A call ends and its garbage is collected.
LEMMA ReturnStep ==
  ASSUME IInv, NEW p \in Procs, Return(p)
  PROVE  IInv'
<1> USE DEF IInv, Return, storeVars, lockVars
<1>1. heap' \in [Refs -> Objects \cup {Nil}]
  BY DEF TypeOK
<1>2. ASSUME NEW r \in Live', r \in Refs PROVE heap'[r] = heap[r]
  BY <1>2
<1>3. \A t \in Types, i \in Ids : resources'[t][i] # Nil => resources'[t][i] \in Live'
  BY DEF Live, Stored
<1>4. ASSUME NEW q \in Procs
      PROVE  /\ own'[q] # Nil => own'[q] \in Live'
             /\ \A r \in snap'[q] \cup out'[q] : r \in Live'
  BY DEF Live
<1>5. TypeOK'
  BY NilAssumption, <1>1 DEF TypeOK
<1>6. LockInv'
  BY NilAssumption DEF TypeOK, LockInv, WriteSection
<1>7. LocalInv'
  BY NilAssumption DEF TypeOK, LocalInv, LockInv, WriteSection, Target
<1>8. HeapInv'
  <2>1. ASSUME NEW t \in Types, NEW i \in Ids, Present(t, i)'
        PROVE  At(t, i)' \in Known
    BY <1>2, <1>3, <2>1 DEF TypeOK, HeapInv, Present, At
  <2>2. ASSUME NEW q \in Procs, own'[q] # Nil
        PROVE  heap'[own'[q]] \in Known
    BY <1>2, <1>4, <2>2 DEF TypeOK, HeapInv
  <2>3. ASSUME NEW q \in Procs, NEW r \in snap'[q] \cup out'[q]
        PROVE  heap'[r] \in Known
    <3>1. r \in snap[q] \cup out[q]
      BY DEF TypeOK
    <3>2. r \in Refs
      BY <3>1 DEF TypeOK
    <3>3. r \in Live'
      BY <1>4
    <3> QED
      BY <1>2, <3>1, <3>2, <3>3 DEF HeapInv
  <2> QED
    BY <2>1, <2>2, <2>3 DEF HeapInv
<1>9. Separation'
  BY NilAssumption DEF TypeOK, LocalInv, Separation
<1> QED
  BY <1>5, <1>6, <1>7, <1>8, <1>9

\* Each way a write section fails.
LEMMA FailedStep ==
  ASSUME IInv, NEW p \in Procs,
         NotFound(p) \/ Conflict(p) \/ HookRefuses(p) \/ PatchFails(p)
  PROVE  IInv'
<1>1. CASE NotFound(p)
  BY <1>1, FailStep DEF NotFound
<1>2. CASE Conflict(p)
  BY <1>2, FailStep DEF Conflict
<1>3. CASE HookRefuses(p)
  BY <1>3, FailStep DEF HookRefuses
<1>4. CASE PatchFails(p)
  <2>1. req[p].ops \in Seq(PatchOps)
    BY <1>4, RequestsAssumption DEF IInv, LocalInv, RequestType, PatchFails
  <2>2. step[p] \in 1 .. Len(req[p].ops)
    BY <1>4, <2>1 DEF IInv, TypeOK, PatchFails
  <2>3. req[p].ops[step[p]] \in PatchOps
    BY <2>1, <2>2
  <2>4. req[p].ops[step[p]].kind \in {"noTarget", "badPatch"}
    BY <1>4, <2>3 DEF PatchOps, SetKinds, PatchFails
  <2> QED
    BY <1>4, <2>4, FailStep DEF PatchFails
<1> QED
  BY <1>1, <1>2, <1>3, <1>4

\* Create publishes what Prepare built.
LEMMA CreateStep ==
  ASSUME IInv, NEW p \in Procs, Create(p)
  PROVE  IInv'
<1>1. own[p] \in Refs /\ heap[own[p]] \in Known
  BY DEF IInv, TypeOK, LocalInv, HeapInv, Create
<1>2. Cell1 \in Refs \ Live /\ own[p] # Cell1
  BY CellsFresh, NotLive DEF Create
<1> QED
  BY <1>1, <1>2, PublishStep DEF Create, Known

\* Replace publishes a new resource made from the request and the stored one.
LEMMA ReplaceStep ==
  ASSUME IInv, NEW p \in Procs, Replace(p)
  PROVE  IInv'
<1>1. req[p] \in Requests /\ req[p] \in RequestType /\ req[p].id \in Ids
  BY RequestsAssumption DEF IInv, LocalInv, Replace, RequestType
<1>2. Body(req[p]) \in Objects
  BY <1>1, ClockAssumption DEF RequestType, Body, Objects, Times
<1>3. heap[Target(p)] \in Known
  BY <1>1 DEF IInv, HeapInv, Present, At, Target, Replace, RequestType
<1>4. Clone(Body(req[p])) \in Objects
  BY <1>2, CloneType
<1>5. Replacement(p) \in Known
  BY <1>1, <1>3, <1>4 DEF Replacement, Objects, Known, IInv, TypeOK
<1>6. Cell1 \in Refs \ Live /\ Cell2 \in Refs \ Live /\ Cell1 # Cell2
  BY CellsFresh DEF Replace
<1> QED
  BY <1>1, <1>5, <1>6, PublishStep DEF Replace

\* Patch publishes the clone it has edited.
LEMMA PatchStep ==
  ASSUME IInv, NEW p \in Procs, Patch(p)
  PROVE  IInv'
<1>1. req[p].op = "Patch" /\ req[p].id \in Ids
  BY RequestsAssumption DEF IInv, LocalInv, Patch, RequestType
<1>2. own[p] \in Refs /\ heap[own[p]] \in Known
  BY DEF IInv, TypeOK, LocalInv, HeapInv, Patch
<1>3. [heap[own[p]] EXCEPT !.modified = clock] \in Known
  BY <1>2 DEF Objects, Known, IInv, TypeOK
<1>4. Cell1 \in Refs \ Live /\ own[p] # Cell1
  BY CellsFresh, NotLive DEF Patch
<1> QED
  BY <1>1, <1>2, <1>3, <1>4, PublishStep DEF Patch

\* The two clones Patch makes on its way.
LEMMA CloningStep ==
  ASSUME IInv, NEW p \in Procs, CloneForHook(p) \/ ApplyPatch(p)
  PROVE  IInv'
<1>1. CASE CloneForHook(p)
  BY <1>1, OwnCloneStep DEF CloneForHook
<1>2. CASE ApplyPatch(p)
  BY <1>2, OwnCloneStep DEF ApplyPatch, IInv, LocalInv
<1> QED
  BY <1>1, <1>2

-----------------------------------------------------------------------------
(* The invariant holds in every reachable state.                            *)

\* Nothing is stored, held or locked at first.
LEMMA InitInv == Init => IInv
<1> SUFFICES ASSUME Init PROVE IInv
  OBVIOUS
<1> USE DEF Init
<1>1. TypeOK
  BY ClockAssumption DEF TypeOK, Times
<1>2. LockInv
  BY NilAssumption DEF LockInv, WriteSection
<1>3. LocalInv
  BY DEF LocalInv
<1>4. HeapInv /\ Separation
  BY DEF HeapInv, Separation, Present
<1> QED
  BY <1>1, <1>2, <1>3, <1>4 DEF IInv

\* Every step of every goroutine keeps the invariant.
LEMMA NextInv == IInv /\ [Next]_vars => IInv'
<1> SUFFICES ASSUME IInv, [Next]_vars PROVE IInv'
  OBVIOUS
<1>1. CASE Tick
  BY <1>1, TickStep
<1>2. ASSUME NEW p \in Procs, Call(p) PROVE IInv'
  BY <1>2, CallStep
<1>3. ASSUME NEW p \in Procs, HookEdits(p) PROVE IInv'
  BY <1>3, HookEditsStep
<1>4. ASSUME NEW p \in Procs, CallerEdits(p) PROVE IInv'
  BY <1>4, CallerEditsStep
<1>5. ASSUME NEW p \in Procs, Step(p) PROVE IInv'
  <2>1. CASE Refuse(p) \/ Prepare(p) \/ Lock(p) \/ Acquire(p) \/ RLock(p)
    BY <2>1, RefuseStep, PrepareStep, LockStep, AcquireStep, RLockStep
  <2>2. CASE NotFound(p) \/ Conflict(p) \/ HookRefuses(p) \/ PatchFails(p)
    BY <2>2, FailedStep
  <2>3. CASE Create(p) \/ Replace(p) \/ Delete(p) \/ Patch(p)
    BY <2>3, CreateStep, ReplaceStep, DeleteStep, PatchStep
  <2>4. CASE CloneForHook(p) \/ ApplyPatch(p)
    BY <2>4, CloningStep
  <2>5. CASE HookReenters(p) \/ ApplyOp(p) \/ PostHooks(p) \/ Return(p)
    BY <2>5, HookReentersStep, ApplyOpStep, PostHooksStep, ReturnStep
  <2>6. CASE Get(p) \/ Snapshot(p) \/ ListFilter(p) \/ ListPage(p)
    BY <2>6, GetStep, SnapshotStep, ListFilterStep, ListPageStep
  <2> QED
    BY <1>5, <2>1, <2>2, <2>3, <2>4, <2>5, <2>6 DEF Step
<1>6. CASE UNCHANGED vars
  BY <1>6 DEF vars, storeVars, lockVars, IInv, TypeOK, LockInv, LocalInv, HeapInv,
              Separation, Target, Present, At
<1> QED
  BY <1>1, <1>2, <1>3, <1>4, <1>5, <1>6 DEF Next

\* The inductive invariant is an invariant.
THEOREM Inductive == Spec => []IInv
<1> QED
  BY InitInv, NextInv, PTL DEF Spec

-----------------------------------------------------------------------------
(* What follows from it.                                                    *)

\* Every variable of the store, its lock and its callers keeps its type: in
\* particular no operation of store/memory.go follows a nil pointer.
THEOREM TypeCorrect == Spec => []TypeOK
<1>1. IInv => TypeOK
  BY DEF IInv
<1> QED
  BY <1>1, Inductive, PTL

\* mu excludes, and every path out of a section gives it back: one writer, hooks
\* and failures included, or any number of readers.
THEOREM MutualExclusion == Spec => []LockInv
<1>1. IInv => LockInv
  BY DEF IInv
<1> QED
  BY <1>1, Inductive, PTL

\* What the store hands out, and what it works on, is a copy: no caller or hook
\* ever holds a stored resource, one a List still reads, or another goroutine's.
THEOREM ClonesApart == Spec => []NoAliasing
<1>1. ASSUME IInv PROVE NoAliasing
  <2>1. ASSUME NEW p \in Procs, NEW r \in Private(p) PROVE r \notin Published
    <3>1. r # Nil
      BY <1>1, <2>1, NilAssumption DEF IInv, TypeOK, Private
    <3>2. CASE r = own[p]
      BY <1>1, <3>1, <3>2 DEF IInv, Separation, Published, Stored
    <3>3. CASE r \in out[p]
      BY <1>1, <3>1, <3>3 DEF IInv, Separation, Published, Stored
    <3> QED
      BY <2>1, <3>2, <3>3 DEF Private
  <2>2. ASSUME NEW p \in Procs, NEW q \in Procs, p # q, NEW r \in Private(p)
        PROVE  r \notin Private(q)
    BY <1>1, <2>2 DEF IInv, Separation, Private
  <2> QED
    BY <2>1, <2>2 DEF NoAliasing
<1> QED
  BY <1>1, Inductive, PTL

-----------------------------------------------------------------------------
(* Steps: what none ever does to a resource that is in use, to its metadata, *)
(* to a deleted resource and to the users' names.                           *)

-----------------------------------------------------------------------------
(* Resources in use are not written to.                                     *)

\* A published cell is reachable, not new, and no goroutine's own.
LEMMA PublishedCell ==
  ASSUME IInv, NEW r \in Published
  PROVE  /\ r \in Refs /\ r \in Live
         /\ Room => r # Cell1 /\ r # Cell2
         /\ \A p \in Procs : r # own[p] /\ r \notin out[p]
<1>1. r \in Refs /\ r \in Live /\ r # Nil
  <2>1. CASE r \in Stored
    BY <2>1 DEF Stored, Live, IInv, TypeOK
  <2>2. CASE \E p \in Procs : r \in snap[p]
    BY <2>2, NilAssumption DEF Live, IInv, TypeOK
  <2> QED
    BY <2>1, <2>2 DEF Published
<1>2. \A p \in Procs : r # own[p] /\ r \notin out[p]
  BY <1>1 DEF Published, Stored, IInv, Separation
<1>3. Room => r # Cell1 /\ r # Cell2
  BY <1>1, CellsFresh
<1> QED
  BY <1>1, <1>2, <1>3

\* No step writes to a published cell.
LEMMA PublishedKept ==
  ASSUME IInv, [Next]_vars, NEW r \in Published
  PROVE  heap'[r] = heap[r]
<1>1. /\ r \in Refs /\ r \in Live
      /\ Room => r # Cell1 /\ r # Cell2
      /\ \A p \in Procs : r # own[p] /\ r \notin out[p]
  BY PublishedCell
<1> USE <1>1 DEF storeVars
<1>2. CASE Tick \/ UNCHANGED vars
  BY <1>2 DEF Tick, vars
<1>3. ASSUME NEW p \in Procs, Call(p) \/ HookEdits(p) \/ CallerEdits(p)
      PROVE  heap'[r] = heap[r]
  BY <1>3, NilAssumption DEF Call, HookEdits, Private, CallerEdits, IInv, TypeOK
<1>4. ASSUME NEW p \in Procs, Step(p)
      PROVE  heap'[r] = heap[r]
  <2>1. CASE Refuse(p) \/ Lock(p) \/ Acquire(p) \/ RLock(p) \/ Delete(p)
    BY <2>1 DEF Refuse, Lock, Acquire, RLock, Delete
  <2>2. CASE NotFound(p) \/ Conflict(p) \/ HookRefuses(p) \/ PatchFails(p)
    BY <2>2 DEF NotFound, Conflict, HookRefuses, PatchFails, Fail
  <2>3. CASE HookReenters(p) \/ PostHooks(p) \/ Snapshot(p) \/ ListPage(p)
    BY <2>3 DEF HookReenters, PostHooks, Snapshot, ListPage
  <2>4. CASE Prepare(p) \/ CloneForHook(p) \/ ApplyPatch(p) \/ Get(p)
    BY <2>4 DEF Prepare, CloneForHook, ApplyPatch, OwnClone, Get, CloneCell, IInv, TypeOK
  <2>5. CASE Create(p) \/ Replace(p) \/ Patch(p)
    BY <2>5 DEF Create, Replace, Patch, Publish, IInv, TypeOK
  <2>6. CASE ApplyOp(p) \/ ListFilter(p)
    BY <2>6 DEF ApplyOp, ListFilter, IInv, TypeOK
  <2>7. CASE Return(p)
    <3>1. Live' = (Stored \cup UNION {snap[q] \cup out'[q] \cup ({own[q]} \ {Nil}) : q \in Procs})
      BY <2>7 DEF Return, Live, Stored
    <3>2. r \in Live'
      BY <3>1 DEF Published
    <3> QED
      BY <2>7, <3>2 DEF Return
  <2> QED
    BY <1>4, <2>1, <2>2, <2>3, <2>4, <2>5, <2>6, <2>7 DEF Step
<1> QED
  BY <1>2, <1>3, <1>4 DEF Next

\* A stored resource is never written to, nor is one a List is still reading:
\* List may filter its snapshot after RUnlock.
THEOREM PublishedNeverWritten == Spec => PublishedImmutable
<1>1. IInv /\ [Next]_vars => [\A r \in Published : heap'[r] = heap[r]]_vars
  BY PublishedKept
<1> QED
  BY <1>1, Inductive, PTL DEF Spec, PublishedImmutable

-----------------------------------------------------------------------------
\* o has the identifier and the second of creation of v, or others that a PATCH has
\* stored in v.
CopyOf(o, v) ==
  /\ o.id \in {v.id} \cup v.otherIds
  /\ \/ o.created = Truncate(v.created)
     \/ \E m \in v.otherMetas : o.created = PerSecond * m.created

\* The clone a goroutine holds: one that Create is about to store has a key nobody
\* else uses; the one Patch works on is a copy of its target.
Origin(p) ==
  /\ req[p].op = "Create" =>
       /\ heap[own[p]].modified <= clock
       /\ heap[own[p]].key \in issued
       /\ \A t \in Types : ~ Present(t, heap[own[p]].key)
       /\ \A q \in Procs : p # q /\ own[q] # Nil /\ req[q].op = "Create" =>
            heap[own[p]].key # heap[own[q]].key
  /\ req[p].op = "Patch" =>
       /\ Present(req[p].type, req[p].id)
       /\ heap[own[p]].key = req[p].id
       /\ CopyOf(heap[own[p]], At(req[p].type, req[p].id))

\* Where keys and time stamps come from: a stored resource has the key it is stored
\* under and was not modified in the future.
Provenance ==
  /\ \A t \in Types, i \in Ids : Present(t, i) =>
       At(t, i).key = i /\ i \in issued /\ At(t, i).modified <= clock
  /\ \A p \in Procs : own[p] # Nil => Origin(p)

-----------------------------------------------------------------------------
(* Provenance is an invariant.                                              *)

\* Formatting and parsing a time twice changes no more than doing it once.
LEMMA TruncateTwice ==
  ASSUME NEW t \in Times
  PROVE  Truncate(Truncate(t)) = Truncate(t)
<1> DEFINE q == t \div PerSecond
<1>1. t \in Nat /\ PerSecond \in Nat /\ PerSecond > 0
  BY ClockAssumption DEF Times
<1>2. q \in Int
  BY <1>1
<1>3. (PerSecond * q) \div PerSecond = q
  BY <1>1, <1>2
<1> QED
  BY <1>3 DEF Truncate

\* Who holds a clone: Create before it stores it, Patch inside its section.
LEMMA OwnHolder ==
  ASSUME IInv, NEW p \in Procs, own[p] # Nil
  PROVE  \/ pc[p] \in {"wwait", "write"} /\ req[p].op = "Create"
         \/ pc[p] \in WriteSection /\ writer = p
  BY DEF IInv, TypeOK, LocalInv, LockInv, WriteSection

\* A step that stores nothing, takes no new clone and leaves the metadata of the
\* clones alone.
Untouched ==
  /\ UNCHANGED <<resources, issued>>
  /\ clock' \in Nat /\ clock' >= clock
  /\ \A q \in Procs : own'[q] # Nil =>
       /\ own'[q] = own[q] /\ req'[q] = req[q]
       /\ heap'[own[q]].key = heap[own[q]].key
       /\ heap'[own[q]].id = heap[own[q]].id
       /\ heap'[own[q]].created = heap[own[q]].created
       /\ heap'[own[q]].modified = heap[own[q]].modified

\* Such a step keeps Provenance.
LEMMA ProvenanceKept ==
  ASSUME IInv, Provenance, [Next]_vars, Untouched
  PROVE  Provenance'
<1> USE DEF Untouched
<1>1. \A t \in Types, i \in Ids : Present(t, i) => At(t, i)' = At(t, i)
  BY PublishedKept DEF Published, Stored, Present, At
<1>2. \A t \in Types, i \in Ids : Present(t, i)' = Present(t, i)
  BY DEF Present
<1>3. clock \in Nat
  BY DEF IInv, TypeOK, Times
<1>4. \A t \in Types, i \in Ids : Present(t, i) => At(t, i).modified \in Nat
  BY DEF IInv, HeapInv, Known, Objects, Times
<1>5. ASSUME NEW t \in Types, NEW i \in Ids, Present(t, i)'
      PROVE  At(t, i)'.key = i /\ i \in issued' /\ At(t, i)'.modified <= clock'
  BY <1>1, <1>2, <1>3, <1>4, <1>5 DEF Provenance, Origin
<1>6. ASSUME NEW p \in Procs, own'[p] # Nil
      PROVE  Origin(p)'
  <2>1. CASE req[p].op = "Create"
    <3>1. heap[own[p]].modified \in Nat /\ heap[own[p]].modified <= clock
      BY <1>6, <2>1 DEF Provenance, Origin, IInv, HeapInv, Known, Objects, Times
    <3>2. \A t \in Types : ~ Present(t, heap[own[p]].key)'
      BY <1>6, <2>1 DEF Provenance, Origin, Present
    <3>3. \A q \in Procs : p # q /\ own'[q] # Nil /\ req'[q].op = "Create" =>
            heap[own[p]].key # heap[own[q]].key
      BY <1>6, <2>1 DEF Provenance, Origin
    <3>4. heap[own[p]].key \in issued
      BY <1>6, <2>1 DEF Provenance, Origin
    <3>5. heap'[own'[p]].modified <= clock'
      BY <1>3, <1>6, <3>1
    <3> QED
      BY <1>6, <2>1, <3>2, <3>3, <3>4, <3>5 DEF Origin, Present
  <2>2. CASE req[p].op = "Patch"
    <3>1. req[p].type \in Types /\ req[p].id \in Ids
      BY <1>6, <2>2, RequestsAssumption DEF IInv, LocalInv, RequestType
    <3>2. /\ Present(req[p].type, req[p].id)
          /\ heap[own[p]].key = req[p].id
          /\ CopyOf(heap[own[p]], At(req[p].type, req[p].id))
      BY <1>6, <2>2 DEF Provenance, Origin
    <3>3. \A t \in Types, i \in Ids : t = req[p].type /\ i = req[p].id =>
            heap'[resources'[t][i]] = At(req[p].type, req[p].id)
      BY <1>1, <3>2 DEF At
    <3>4. CopyOf(heap'[own[p]], At(req[p].type, req[p].id))
      BY <1>6, <3>2 DEF CopyOf
    <3>5. Present(req[p].type, req[p].id)' /\ req'[p] = req[p] /\ own'[p] = own[p]
      BY <1>2, <1>6, <3>1, <3>2 DEF Present
    <3>6. heap'[resources'[req'[p].type][req'[p].id]] = At(req[p].type, req[p].id)
      BY <3>1, <3>3, <3>5
    <3> QED
      BY <1>6, <2>2, <3>2, <3>4, <3>5, <3>6 DEF Origin, Present, At
  <2> QED
    BY <1>6, <2>1, <2>2 DEF Origin
<1> QED
  BY <1>5, <1>6 DEF Provenance, Origin

\* The steps that leave the metadata alone.
LEMMA QuietStep ==
  ASSUME IInv, NEW p \in Procs,
         \/ Tick \/ UNCHANGED vars \/ Call(p) \/ HookEdits(p) \/ CallerEdits(p)
         \/ Refuse(p) \/ Lock(p) \/ Acquire(p) \/ RLock(p) \/ NotFound(p) \/ Conflict(p)
         \/ HookRefuses(p) \/ HookReenters(p) \/ ApplyOp(p) \/ PatchFails(p)
         \/ PostHooks(p) \/ Get(p) \/ Snapshot(p) \/ ListFilter(p) \/ ListPage(p) \/ Return(p)
  PROVE  Untouched
<1> USE DEF storeVars, Untouched
<1>1. clock \in Nat
  BY DEF IInv, TypeOK, Times
<1>2. CASE \/ Tick \/ UNCHANGED vars \/ Refuse(p) \/ Lock(p) \/ Acquire(p) \/ RLock(p)
           \/ HookReenters(p) \/ PostHooks(p) \/ Snapshot(p) \/ ListPage(p)
  BY <1>1, <1>2
  DEF Tick, vars, Refuse, Lock, Acquire, RLock, HookReenters, PostHooks, Snapshot, ListPage
<1>3. CASE NotFound(p) \/ Conflict(p) \/ HookRefuses(p) \/ PatchFails(p)
  <2>1. Fail(p, status'[p])
    BY <1>3 DEF NotFound, Conflict, HookRefuses, PatchFails, Fail, Answer, IInv, TypeOK
  <2> QED
    BY <1>1, <2>1 DEF Fail, IInv, TypeOK
<1>4. CASE Call(p)
  <2>1. own[p] = Nil /\ \A q \in Procs : q # p => req'[q] = req[q]
    BY <1>4 DEF Call, IInv, TypeOK, LocalInv
  <2> QED
    BY <1>1, <1>4, <2>1 DEF Call
<1>5. CASE HookEdits(p) \/ ApplyOp(p)
  <2>1. \E r \in Refs, o \in Objects :
          /\ heap[r] \in Objects
          /\ heap' = [heap EXCEPT ![r] = o]
          /\ o.key = heap[r].key /\ o.id = heap[r].id /\ o.created = heap[r].created /\ o.modified = heap[r].modified
    <3>1. CASE HookEdits(p)
      <4>1. PICK r \in Private(p) : heap' = [heap EXCEPT ![r].edited = TRUE]
        BY <3>1 DEF HookEdits
      <4>2. r \in Refs /\ heap[r] \in Objects
        BY NilAssumption DEF IInv, TypeOK, HeapInv, Known, Private
      <4>3. [heap[r] EXCEPT !.edited = TRUE] \in Objects
        BY <4>2 DEF Objects
      <4>4. heap' = [heap EXCEPT ![r] = [heap[r] EXCEPT !.edited = TRUE]]
        BY <4>1, <4>2 DEF IInv, TypeOK
      <4> QED
        BY <4>2, <4>3, <4>4 DEF Objects
    <3>2. CASE ApplyOp(p)
      <4>1. own[p] \in Refs /\ heap[own[p]] \in Objects
        BY <3>2 DEF ApplyOp, IInv, TypeOK, LocalInv, HeapInv, Known
      <4>2. heap' = [heap EXCEPT ![own[p]] = Applied(heap[own[p]], req[p].ops[step[p]])]
        BY <3>2, <4>1 DEF ApplyOp, IInv, TypeOK
      <4>3. req[p].ops[step[p]] \in PatchOps
        <5>1. req[p].ops \in Seq(PatchOps)
          BY <3>2, RequestsAssumption DEF ApplyOp, IInv, LocalInv, RequestType
        <5>2. step[p] \in 1 .. Len(req[p].ops)
          BY <3>2, <5>1 DEF ApplyOp, IInv, TypeOK
        <5> QED
          BY <5>1, <5>2
      <4> DEFINE o == Applied(heap[own[p]], req[p].ops[step[p]])
      <4>4. /\ o \in Objects /\ o.key = heap[own[p]].key /\ o.id = heap[own[p]].id
            /\ o.created = heap[own[p]].created /\ o.modified = heap[own[p]].modified
        BY <4>1, <4>3, AppliedKeeps
      <4> HIDE DEF o
      <4>5. heap' = [heap EXCEPT ![own[p]] = o]
        BY <4>2 DEF o
      <4> QED
        BY <4>1, <4>4, <4>5
    <3> QED
      BY <1>5, <3>1, <3>2
  <2>2. \A q \in Procs : own[q] # Nil =>
          /\ heap'[own[q]].key = heap[own[q]].key
          /\ heap'[own[q]].id = heap[own[q]].id
          /\ heap'[own[q]].created = heap[own[q]].created
          /\ heap'[own[q]].modified = heap[own[q]].modified
    BY <2>1 DEF IInv, TypeOK
  <2> QED
    BY <1>1, <1>5, <2>2 DEF HookEdits, ApplyOp
<1>6. CASE CallerEdits(p)
  BY <1>1, <1>6 DEF CallerEdits, IInv, TypeOK, Separation
<1>7. CASE Get(p) \/ ListFilter(p)
  <2>1. Room => \A q \in Procs : own[q] # Cell1
    BY CellsFresh, NotLive
  <2> QED
    BY <1>1, <1>7, <2>1 DEF Get, ListFilter, CloneCell, IInv, TypeOK
<1>8. CASE Return(p)
  <2>1. \A q \in Procs : own[q] # Nil => own[q] \in Live' /\ own[q] \in Refs
    BY <1>8 DEF Return, Live, IInv, TypeOK
  <2>2. \A q \in Procs : own[q] # Nil => heap'[own[q]] = heap[own[q]]
    BY <1>8, <2>1 DEF Return
  <2>3. \A q \in Procs : own[q] # Nil => req'[q] = req[q]
    BY <1>8 DEF Return, IInv, TypeOK, LocalInv
  <2> QED
    BY <1>1, <1>8, <2>2, <2>3 DEF Return
<1> QED
  BY <1>2, <1>3, <1>4, <1>5, <1>6, <1>7, <1>8

\* Create takes an identifier that was never issued.
LEMMA ProvenancePrepare ==
  ASSUME IInv, Provenance, [Next]_vars, NEW p \in Procs, Prepare(p)
  PROVE  Provenance'
<1>1. PICK i \in NewIds :
        /\ issued' = issued \cup {i}
        /\ heap' = [heap EXCEPT ![Cell1] =
             [Clone(Body(req[p])) EXCEPT !.key = i, !.id = i, !.created = clock, !.modified = clock]]
  BY DEF Prepare
<1>2. Cell1 \in Refs \ Live /\ \A q \in Procs : own[q] # Cell1
  BY CellsFresh, NotLive DEF Prepare
<1>3. Clone(Body(req[p])) \in Objects /\ clock \in Nat
  <2>1. Body(req[p]) \in Objects
    BY RequestsAssumption, ClockAssumption
    DEF Prepare, IInv, LocalInv, RequestType, Body, Objects, Times
  <2> QED
    BY <2>1, CloneType DEF IInv, TypeOK, Times
<1>4. heap'[Cell1].key = i /\ heap'[Cell1].modified = clock
  BY <1>1, <1>2, <1>3 DEF IInv, TypeOK, Objects
<1>5. \A q \in Procs : own[q] # Nil => heap'[own[q]] = heap[own[q]]
  BY <1>1, <1>2 DEF IInv, TypeOK
<1>6. /\ own' = [own EXCEPT ![p] = Cell1] /\ own[p] = Nil /\ req[p].op = "Create"
      /\ UNCHANGED <<clock, resources, req>>
  BY DEF Prepare, IInv, LocalInv
<1>7. \A t \in Types, j \in Ids :
        /\ Present(t, j)' = Present(t, j)
        /\ Present(t, j) => At(t, j)' = At(t, j)
  BY <1>6, PublishedKept DEF Published, Stored, Present, At
<1>8. \A t \in Types : ~ Present(t, i)
  BY <1>1 DEF Provenance, Origin, NewIds
<1>9. ASSUME NEW t \in Types, NEW j \in Ids, Present(t, j)'
      PROVE  At(t, j)'.key = j /\ j \in issued' /\ At(t, j)'.modified <= clock'
  BY <1>1, <1>6, <1>7, <1>9 DEF Provenance, Origin
<1>10. ASSUME NEW q \in Procs, own'[q] # Nil
       PROVE  Origin(q)'
  <2>1. \A s \in Procs : s # p => own'[s] = own[s]
    BY <1>6 DEF IInv, TypeOK
  <2>2. own'[p] = Cell1
    BY <1>6 DEF IInv, TypeOK
  <2>3. \A s \in Procs : own[s] # Nil /\ req[s].op = "Create" => heap[own[s]].key # i
    BY <1>1 DEF Provenance, Origin, NewIds
  <2>4. CASE q = p
    <3>1. \A s \in Procs : p # s /\ own'[s] # Nil /\ req'[s].op = "Create" =>
            heap'[own'[s]].key # i
      BY <1>5, <1>6, <2>1, <2>3
    <3>2. i \in issued' /\ req'[p].op = "Create"
      BY <1>1, <1>6
    <3>3. heap'[own'[p]].modified <= clock'
      BY <1>3, <1>4, <1>6, <2>2
    <3>4. \A t \in Types : ~ Present(t, i)'
      BY <1>6, <1>8 DEF Present
    <3> QED
      BY <1>4, <2>2, <2>4, <3>1, <3>2, <3>3, <3>4 DEF Origin
  <2>5. CASE q # p
    <3>1. own'[q] = own[q] /\ own[q] # Nil /\ heap'[own'[q]] = heap[own[q]]
      BY <1>5, <1>10, <2>1, <2>5
    <3>2. \A s \in Procs : q # s /\ own'[s] # Nil /\ req'[s].op = "Create" /\ req[q].op = "Create" =>
            heap'[own'[q]].key # heap'[own'[s]].key
      BY <1>4, <1>5, <1>6, <2>1, <2>2, <2>3, <3>1 DEF Provenance, Origin
    <3>3. req[q].op = "Patch" => req[q].type \in Types /\ req[q].id \in Ids
      BY <3>1, RequestsAssumption DEF IInv, LocalInv, RequestType
    <3>5. req[q].op = "Create" =>
            /\ heap[own[q]].modified <= clock
            /\ heap[own[q]].key \in issued
            /\ \A t \in Types : ~ Present(t, heap[own[q]].key)
      BY <3>1 DEF Provenance, Origin
    <3>6. req[q].op = "Patch" =>
            /\ Present(req[q].type, req[q].id)
            /\ heap[own[q]].key = req[q].id
            /\ CopyOf(heap[own[q]], At(req[q].type, req[q].id)')
      BY <1>6, <1>7, <3>1, <3>3 DEF Provenance, Origin, At
    <3>7. heap[own[q]].key \in issued => heap[own[q]].key \in issued'
      BY <1>1
    <3>8. clock' = clock /\ req' = req /\ resources' = resources
      BY <1>6
    <3>9. At(req[q].type, req[q].id)' = heap'[resources[req[q].type][req[q].id]]
      BY <3>8 DEF At
    <3> QED
      BY <3>1, <3>2, <3>5, <3>6, <3>7, <3>8, <3>9 DEF Origin, Present, At
  <2> QED
    BY <2>4, <2>5
<1> QED
  BY <1>6, <1>9, <1>10 DEF Provenance, Origin

\* Delete takes a resource away from nobody who is patching it.
LEMMA ProvenanceDelete ==
  ASSUME IInv, Provenance, [Next]_vars, NEW p \in Procs, Delete(p)
  PROVE  Provenance'
<1>1. UNCHANGED <<clock, heap, issued, req, own>>
  BY DEF Delete
<1>2. \A t \in Types, i \in Ids : resources'[t][i] = resources[t][i] \/ resources'[t][i] = Nil
  BY DEF Delete, IInv, TypeOK
<1>3. ASSUME NEW q \in Procs, own[q] # Nil
      PROVE  req[q].op # "Patch"
  <2>1. writer = p /\ pc[p] = "write" /\ own[p] = Nil
    BY DEF Delete, IInv, LocalInv, LockInv, WriteSection
  <2> QED
    BY <1>3, <2>1, OwnHolder
<1>4. ASSUME NEW q \in Procs, own[q] # Nil, req[q].op = "Create"
      PROVE  /\ heap[own[q]].key \in Ids
             /\ \A t \in Types : ~ Present(t, heap[own[q]].key)'
  <2>1. heap[own[q]].key \in Ids
    BY <1>4 DEF IInv, HeapInv, Known
  <2> QED
    BY <1>1, <1>2, <1>4, <2>1 DEF Provenance, Origin, Present
<1>5. ASSUME NEW q \in Procs, own'[q] # Nil
      PROVE  Origin(q)'
  BY <1>1, <1>3, <1>4, <1>5 DEF Provenance, Origin
<1>6. ASSUME NEW t \in Types, NEW i \in Ids, Present(t, i)'
      PROVE  At(t, i)'.key = i /\ i \in issued' /\ At(t, i)'.modified <= clock'
  BY <1>1, <1>2, <1>6 DEF Provenance, Present, At
<1> QED
  BY <1>5, <1>6 DEF Provenance

\* The clone Patch takes is a copy of its target.
LEMMA ProvenanceOwnClone ==
  ASSUME IInv, Provenance, [Next]_vars, NEW p \in Procs, NEW next,
         req[p].op = "Patch", pc[p] \in {"write", "prehook"}, Target(p) # Nil, OwnClone(p, next)
  PROVE  Provenance'
<1>1. /\ UNCHANGED <<clock, resources, issued, req>>
      /\ own' = [own EXCEPT ![p] = Cell1]
      /\ \E c \in Clones(heap[Target(p)]) : heap' = [heap EXCEPT ![Cell1] = c]
  BY DEF OwnClone, CloneCell, storeVars
<1>2. Cell1 \in Refs \ Live /\ \A q \in Procs : own[q] # Cell1
  BY CellsFresh, NotLive DEF OwnClone
<1>3. req[p].type \in Types /\ req[p].id \in Ids
  BY RequestsAssumption DEF IInv, LocalInv, RequestType
<1>4. Present(req[p].type, req[p].id) /\ At(req[p].type, req[p].id) = heap[Target(p)]
  BY DEF Present, At, Target
<1>5. \A t \in Types, i \in Ids :
        /\ Present(t, i)' = Present(t, i)
        /\ Present(t, i) => At(t, i)' = At(t, i)
  BY <1>1, PublishedKept DEF Published, Stored, Present, At
<1>6. heap[Target(p)] \in Objects
  BY <1>3, <1>4 DEF IInv, HeapInv, Known
<1>7. \A q \in Procs : own[q] # Nil => heap'[own[q]] = heap[own[q]]
  BY <1>1, <1>2 DEF IInv, TypeOK
<1>8. ASSUME NEW t \in Types, NEW i \in Ids, Present(t, i)'
      PROVE  At(t, i)'.key = i /\ i \in issued' /\ At(t, i)'.modified <= clock'
  BY <1>1, <1>5, <1>8 DEF Provenance
<1>9. Origin(p)'
  <2>1. own'[p] = Cell1 /\ heap'[Cell1] \in Clones(heap[Target(p)])
    BY <1>1, <1>2 DEF IInv, TypeOK
  <2>2. heap[Target(p)].key = req[p].id
    BY <1>3, <1>4 DEF Provenance
  <2>3. heap'[Cell1].key = req[p].id /\ CopyOf(heap'[Cell1], heap[Target(p)])
    BY <1>6, <2>1, <2>2, ClonesKeep DEF CopyOf
  <2>4. req' = req /\ resources' = resources
    BY <1>1
  <2>5. Present(req[p].type, req[p].id)'
    BY <1>4, <2>4 DEF Present
  <2>6. heap'[resources[req[p].type][req[p].id]] = heap[Target(p)]
    BY <1>3, <1>4, <1>5, <2>4 DEF At
  <2>7. own'[p] = Cell1 /\ req'[p] = req[p]
    BY <2>1, <2>4
  <2> QED
    BY <2>3, <2>4, <2>5, <2>6, <2>7 DEF Origin, Present, At
<1>10. ASSUME NEW q \in Procs, own'[q] # Nil, q # p
       PROVE  Origin(q)'
  <2>1. own'[q] = own[q] /\ own[q] # Nil /\ heap'[own[q]] = heap[own[q]]
    BY <1>1, <1>7, <1>10 DEF IInv, TypeOK
  <2>2. req[q].op # "Patch"
    <3>1. writer = p
      BY DEF IInv, LockInv, WriteSection
    <3> QED
      BY <1>10, <2>1, <3>1, OwnHolder
  <2>3. \A s \in Procs : own'[s] # Nil /\ req'[s].op = "Create" =>
          own'[s] = own[s] /\ own[s] # Nil /\ heap'[own'[s]] = heap[own[s]]
    BY <1>1, <1>7 DEF IInv, TypeOK
  <2>4. \A t \in Types : req[q].op = "Create" => ~ Present(t, heap[own[q]].key)'
    BY <1>1, <2>1 DEF Provenance, Origin, Present
  <2> QED
    BY <1>1, <2>1, <2>2, <2>3, <2>4 DEF Provenance, Origin
<1> QED
  BY <1>8, <1>9, <1>10 DEF Provenance

\* What the published resource must be for Provenance to go on holding.
LEMMA ProvenancePublish ==
  ASSUME IInv, Provenance, [Next]_vars, NEW p \in Procs, pc[p] \in WriteSection,
         req[p].type \in Types, NEW i \in Ids, NEW o, NEW r \in Refs,
         NEW copy \in Refs \ Live, r # copy, r = own[p] \/ r \in Refs \ Live,
         Publish(p, i, r, o, copy), o.key = i, i \in issued, o.modified <= clock,
         \A q \in Procs : p # q /\ own[q] # Nil /\ req[q].op = "Create" => heap[own[q]].key # i
  PROVE  Provenance'
<1>1. /\ UNCHANGED <<clock, issued, req>>
      /\ own' = [own EXCEPT ![p] = Nil]
      /\ resources' = [resources EXCEPT ![req[p].type][i] = r]
      /\ \E c \in Clones(o) : heap' = [heap EXCEPT ![r] = o, ![copy] = c]
  BY DEF Publish
<1>2. heap'[r] = o
  BY <1>1 DEF IInv, TypeOK
<1>3. ASSUME NEW t \in Types, NEW j \in Ids, Present(t, j)'
      PROVE  At(t, j)'.key = j /\ j \in issued' /\ At(t, j)'.modified <= clock'
  <2>1. CASE t = req[p].type /\ j = i
    <3>1. At(t, j)' = o
      BY <1>1, <1>2, <2>1 DEF At, IInv, TypeOK
    <3> QED
      BY <1>1, <2>1, <3>1
  <2>2. CASE ~ (t = req[p].type /\ j = i)
    <3>1. resources'[t][j] = resources[t][j] /\ Present(t, j)
      BY <1>1, <1>3, <2>2 DEF Present, IInv, TypeOK
    <3>2. At(t, j)' = At(t, j)
      BY <3>1, PublishedKept DEF Published, Stored, Present, At
    <3> QED
      BY <1>1, <3>1, <3>2 DEF Provenance
  <2> QED
    BY <2>1, <2>2
<1>4. \A q \in Procs : own'[q] # Nil => q # p /\ own'[q] = own[q]
  BY <1>1 DEF IInv, TypeOK
<1>5. ASSUME NEW q \in Procs, own'[q] # Nil
      PROVE  heap'[own'[q]] = heap[own[q]]
  <2>1. own[q] # r /\ own[q] # copy
    BY <1>4, <1>5, NotLive DEF IInv, Separation
  <2> QED
    BY <1>1, <1>4, <1>5, <2>1 DEF IInv, TypeOK
<1>6. ASSUME NEW q \in Procs, own'[q] # Nil
      PROVE  Origin(q)'
  <2>1. q # p /\ own'[q] = own[q] /\ own[q] # Nil /\ heap'[own'[q]] = heap[own[q]]
    BY <1>4, <1>5, <1>6
  <2>2. req[q].op # "Patch"
    <3>1. writer = p
      BY DEF IInv, LockInv
    <3> QED
      BY <2>1, <3>1, OwnHolder
  <2>3. \A s \in Procs : own'[s] # Nil /\ req'[s].op = "Create" =>
          own'[s] = own[s] /\ own[s] # Nil /\ heap'[own'[s]] = heap[own[s]]
    BY <1>4, <1>5
  <2>4. ASSUME NEW t \in Types, req[q].op = "Create"
        PROVE  ~ Present(t, heap[own[q]].key)'
    <3>1. heap[own[q]].key \in Ids /\ heap[own[q]].key # i /\ ~ Present(t, heap[own[q]].key)
      BY <2>1, <2>4 DEF Provenance, Origin, IInv, HeapInv, Known
    <3>2. resources'[t][heap[own[q]].key] = Nil
      BY <1>1, <3>1 DEF Present, IInv, TypeOK
    <3> QED
      BY <2>1, <3>2 DEF Present
  <2>5. clock' = clock /\ issued' = issued /\ req' = req
    BY <1>1
  <2>6. Origin(q)
    BY <2>1 DEF Provenance
  <2>7. \A s \in Procs : q # s /\ own'[s] # Nil /\ req'[s].op = "Create" /\ req[q].op = "Create" =>
          heap'[own'[q]].key # heap'[own'[s]].key
    BY <2>1, <2>3, <2>5, <2>6 DEF Origin
  <2>8. req[q].op = "Create" => \A t \in Types : ~ Present(t, heap[own[q]].key)'
    BY <2>4
  <2> QED
    BY <2>1, <2>2, <2>5, <2>6, <2>7, <2>8 DEF Origin
<1> QED
  BY <1>3, <1>6 DEF Provenance

\* The resources Create, Replace and Patch publish are such.
LEMMA ProvenanceUpdate ==
  ASSUME IInv, Provenance, [Next]_vars, NEW p \in Procs, Create(p) \/ Replace(p) \/ Patch(p)
  PROVE  Provenance'
<1>1. /\ pc[p] \in WriteSection /\ clock \in Nat
      /\ req[p] \in Requests /\ req[p] \in RequestType /\ req[p].type \in Types
  BY RequestsAssumption
  DEF Create, Replace, Patch, WriteSection, IInv, TypeOK, LocalInv, RequestType, Times
<1>2. /\ Cell1 \in Refs \ Live /\ Cell2 \in Refs \ Live /\ Cell1 # Cell2
      /\ \A q \in Procs : own[q] # Cell1
  BY CellsFresh, NotLive DEF Create, Replace, Patch
<1>3. CASE Create(p)
  <2>1. own[p] \in Refs /\ own[p] # Nil /\ heap[own[p]].key \in Ids
    BY <1>3 DEF Create, IInv, TypeOK, LocalInv, HeapInv, Known
  <2>2. /\ heap[own[p]].key \in issued /\ heap[own[p]].modified <= clock
        /\ \A q \in Procs : p # q /\ own[q] # Nil /\ req[q].op = "Create" =>
             heap[own[q]].key # heap[own[p]].key
    BY <1>3, <2>1 DEF Create, Provenance, Origin
  <2>3. Publish(p, heap[own[p]].key, own[p], heap[own[p]], Cell1)
    BY <1>3 DEF Create
  <2> QED
    BY <1>1, <1>2, <2>1, <2>2, <2>3, ProvenancePublish
<1>4. CASE Replace(p) \/ Patch(p)
  <2>1. req[p].id \in Ids /\ Present(req[p].type, req[p].id)
    <3>1. req[p].op \in {"Replace", "Patch"} /\ Target(p) # Nil
      BY <1>4 DEF Replace, Patch, IInv, LocalInv
    <3>2. req[p].id \in Ids
      BY <1>1, <3>1, RequestsAssumption DEF RequestType
    <3> QED
      BY <3>1, <3>2 DEF Present, Target
  <2>2. /\ req[p].id \in issued
        /\ \A q \in Procs : own[q] # Nil /\ req[q].op = "Create" => heap[own[q]].key # req[p].id
    BY <1>1, <2>1 DEF Provenance, Origin
  <2>3. CASE Replace(p)
    <3>1. Clone(Body(req[p])) \in Objects
      <4>1. Body(req[p]) \in Objects
        BY <1>1, ClockAssumption DEF RequestType, Body, Objects, Times
      <4> QED
        BY <4>1, CloneType
    <3>2. Replacement(p).key = req[p].id /\ Replacement(p).modified <= clock
      BY <1>1, <3>1 DEF Replacement, Objects
    <3>3. Publish(p, req[p].id, Cell1, Replacement(p), Cell2)
      BY <2>3 DEF Replace
    <3> QED
      BY <1>1, <1>2, <2>1, <2>2, <3>2, <3>3, ProvenancePublish
  <2>4. CASE Patch(p)
    <3>1. own[p] \in Refs /\ own[p] # Nil /\ heap[own[p]] \in Objects /\ req[p].op = "Patch"
      BY <2>4 DEF Patch, IInv, TypeOK, LocalInv, HeapInv, Known
    <3>2. heap[own[p]].key = req[p].id
      BY <3>1 DEF Provenance, Origin
    <3> DEFINE o == [heap[own[p]] EXCEPT !.modified = clock]
    <3>3. o.key = req[p].id /\ o.modified <= clock
      BY <1>1, <3>1, <3>2 DEF Objects
    <3>4. Publish(p, req[p].id, own[p], o, Cell1)
      BY <2>4 DEF Patch
    <3> HIDE DEF o
    <3> QED
      BY <1>1, <1>2, <2>1, <2>2, <3>1, <3>3, <3>4, ProvenancePublish
  <2> QED
    BY <1>4, <2>3, <2>4
<1> QED
  BY <1>3, <1>4

\* Provenance holds in every reachable state.
LEMMA ProvenanceInv == Spec => [](IInv /\ Provenance)
<1>1. Init => Provenance
  BY DEF Init, Provenance, Present
<1>2. ASSUME IInv, Provenance, [Next]_vars
      PROVE  Provenance'
  <2>1. CASE Tick \/ UNCHANGED vars
    <3>1. CASE Procs = {}
      BY <1>2, <2>1, <3>1, ProvenanceKept DEF Untouched, Tick, vars, storeVars, IInv, TypeOK, Times
    <3>2. CASE Procs # {}
      BY <1>2, <2>1, <3>2, QuietStep, ProvenanceKept
    <3> QED
      BY <3>1, <3>2
  <2>2. ASSUME NEW p \in Procs, Call(p) \/ Step(p) \/ HookEdits(p) \/ CallerEdits(p)
        PROVE  Provenance'
    <3>1. CASE Prepare(p)
      BY <1>2, <3>1, ProvenancePrepare
    <3>2. CASE Create(p) \/ Replace(p) \/ Patch(p)
      BY <1>2, <3>2, ProvenanceUpdate
    <3>3. CASE Delete(p)
      BY <1>2, <3>3, ProvenanceDelete
    <3>4. CASE CloneForHook(p) \/ ApplyPatch(p)
      BY <1>2, <3>4, ProvenanceOwnClone DEF CloneForHook, ApplyPatch, IInv, LocalInv
    <3>5. CASE \/ Call(p) \/ HookEdits(p) \/ CallerEdits(p)
               \/ Refuse(p) \/ Lock(p) \/ Acquire(p) \/ RLock(p) \/ NotFound(p) \/ Conflict(p)
               \/ HookRefuses(p) \/ HookReenters(p) \/ ApplyOp(p) \/ PatchFails(p) \/ PostHooks(p)
               \/ Get(p) \/ Snapshot(p) \/ ListFilter(p) \/ ListPage(p) \/ Return(p)
      BY <1>2, <3>5, QuietStep, ProvenanceKept
    <3> QED
      BY <2>2, <3>1, <3>2, <3>3, <3>4, <3>5 DEF Step
  <2> QED
    BY <1>2, <2>1, <2>2 DEF Next
<1> QED
  BY <1>1, <1>2, Inductive, PTL DEF Spec

-----------------------------------------------------------------------------
(* What a step does to the table of resources.                              *)

\* An entry changes in one of four ways.
LEMMA EntryChange ==
  ASSUME IInv, [Next]_vars, NEW t \in Types, NEW i \in Ids, resources'[t][i] # resources[t][i]
  PROVE  \E p \in Procs :
           /\ t = req[p].type
           /\ \/ Create(p) /\ i = heap[own[p]].key /\ At(t, i)' = heap[own[p]]
              \/ Replace(p) /\ i = req[p].id /\ At(t, i)' = Replacement(p)
              \/ Patch(p) /\ i = req[p].id /\ At(t, i)' = [heap[own[p]] EXCEPT !.modified = clock]
              \/ Delete(p) /\ i = req[p].id /\ ~ Present(t, i)'
<1>1. ASSUME NEW p \in Procs, NEW j \in Ids, NEW r \in Refs, NEW o, NEW copy, r # copy,
             Publish(p, j, r, o, copy)
      PROVE  t = req[p].type /\ i = j /\ At(t, i)' = o
  <2>1. resources' = [resources EXCEPT ![req[p].type][j] = r]
    BY <1>1 DEF Publish
  <2>2. t = req[p].type /\ i = j /\ resources'[t][i] = r
    BY <2>1 DEF IInv, TypeOK
  <2>3. heap'[r] = o
    BY <1>1 DEF Publish, IInv, TypeOK
  <2> QED
    BY <2>2, <2>3 DEF At
<1>2. PICK p \in Procs : Step(p)
  BY DEF Next, Tick, Call, HookEdits, CallerEdits, vars, storeVars
<1>3. Create(p) \/ Replace(p) \/ Patch(p) \/ Delete(p)
  BY <1>2
  DEF Step, Refuse, Prepare, Lock, Acquire, RLock, NotFound, Conflict, CloneForHook, HookRefuses,
      HookReenters, ApplyPatch, ApplyOp, PatchFails, PostHooks, Get, Snapshot, ListFilter,
      ListPage, Return, Fail, OwnClone, storeVars
<1>4. CASE Create(p)
  <2>1. own[p] \in Refs /\ heap[own[p]].key \in Ids
    BY <1>4 DEF Create, IInv, TypeOK, LocalInv, HeapInv, Known
  <2>2. own[p] # Cell1
    BY <1>4, CellsFresh, NotLive DEF Create
  <2>3. Publish(p, heap[own[p]].key, own[p], heap[own[p]], Cell1)
    BY <1>4 DEF Create
  <2> QED
    BY <1>1, <1>4, <2>1, <2>2, <2>3
<1>5. CASE Replace(p)
  <2>1. req[p].id \in Ids
    BY <1>5, RequestsAssumption DEF Replace, IInv, LocalInv, RequestType
  <2>2. Cell1 \in Refs /\ Cell1 # Cell2
    BY <1>5, CellsFresh DEF Replace
  <2>3. Publish(p, req[p].id, Cell1, Replacement(p), Cell2)
    BY <1>5 DEF Replace
  <2> QED
    BY <1>1, <1>5, <2>1, <2>2, <2>3
<1>6. CASE Patch(p)
  <2>1. own[p] \in Refs /\ req[p].id \in Ids
    BY <1>6, RequestsAssumption DEF Patch, IInv, TypeOK, LocalInv, RequestType
  <2>2. own[p] # Cell1
    BY <1>6, CellsFresh, NotLive DEF Patch
  <2>3. Publish(p, req[p].id, own[p], [heap[own[p]] EXCEPT !.modified = clock], Cell1)
    BY <1>6 DEF Patch
  <2> QED
    BY <1>1, <1>6, <2>1, <2>2, <2>3
<1>7. CASE Delete(p)
  <2>1. resources' = [resources EXCEPT ![req[p].type][req[p].id] = Nil]
    BY <1>7 DEF Delete
  <2> QED
    BY <1>7, <2>1 DEF Present, IInv, TypeOK
<1> QED
  BY <1>3, <1>4, <1>5, <1>6, <1>7

\* The metadata of a resource that stays in the store: its modification never goes
\* back, and its second of creation and identifier change only to what an earlier
\* PATCH has stored in it under another spelling of meta and id.
THEOREM MetaKept == Spec => MetaHistory
<1> DEFINE Kept(t, i) ==
      /\ At(t, i)'.modified >= At(t, i).modified
      /\ \/ Truncate(At(t, i)'.created) = Truncate(At(t, i).created)
         \/ \E m \in At(t, i).otherMetas : At(t, i)'.created = PerSecond * m.created
      /\ At(t, i)'.id \in {At(t, i).id, i} \cup At(t, i).otherIds
<1>1. ASSUME IInv, Provenance, Provenance', [Next]_vars, NEW t \in Types, NEW i \in Ids,
             Present(t, i), Present(t, i)'
      PROVE  Kept(t, i)
  <2>1. /\ At(t, i) \in Objects /\ At(t, i).modified \in Nat /\ clock \in Nat
        /\ At(t, i).modified <= clock
    BY <1>1 DEF IInv, TypeOK, HeapInv, Known, Objects, Times, Provenance
  <2>3. CASE resources'[t][i] = resources[t][i]
    <3>1. At(t, i)' = At(t, i)
      BY <1>1, <2>3, PublishedKept DEF Published, Stored, Present, At
    <3> QED
      BY <2>1, <3>1
  <2>4. ASSUME NEW p \in Procs, t = req[p].type, Create(p), i = heap[own[p]].key
        PROVE  FALSE
    BY <1>1, <2>4 DEF Create, Provenance, Origin, IInv, LocalInv
  <2>5. ASSUME NEW p \in Procs, t = req[p].type, i = req[p].id, Replace(p),
               At(t, i)' = Replacement(p)
        PROVE  Kept(t, i)
    <3>1. Clone(Body(req[p])) \in Objects
      <4>1. req[p] \in RequestType
        BY <1>1, <2>5, RequestsAssumption DEF Replace, IInv, LocalInv
      <4>2. Body(req[p]) \in Objects
        BY <4>1, ClockAssumption DEF RequestType, Body, Objects, Times
      <4> QED
        BY <4>2, CloneType
    <3>2. /\ Replacement(p).created = heap[Target(p)].created
          /\ Replacement(p).modified = clock /\ Replacement(p).id = i
      BY <2>5, <3>1 DEF Replacement, Objects
    <3>3. heap[Target(p)] = At(t, i)
      BY <2>5 DEF Target, At
    <3> QED
      BY <2>1, <2>5, <3>2, <3>3
  <2>6. ASSUME NEW p \in Procs, t = req[p].type, i = req[p].id, Patch(p),
               At(t, i)' = [heap[own[p]] EXCEPT !.modified = clock]
        PROVE  Kept(t, i)
    <3>1. own[p] # Nil /\ heap[own[p]] \in Objects /\ req[p].op = "Patch"
      BY <1>1, <2>6 DEF Patch, IInv, LocalInv, HeapInv, Known
    <3>2. CopyOf(heap[own[p]], At(t, i))
      BY <1>1, <2>6, <3>1 DEF Provenance, Origin
    <3>3. /\ At(t, i)'.created = heap[own[p]].created /\ At(t, i)'.id = heap[own[p]].id
          /\ At(t, i)'.modified = clock
      BY <2>6, <3>1 DEF Objects
    <3>4. Truncate(Truncate(At(t, i).created)) = Truncate(At(t, i).created)
      BY <2>1, TruncateTwice DEF Objects
    <3> QED
      BY <2>1, <3>2, <3>3, <3>4 DEF CopyOf
  <2> QED
    BY <1>1, <2>3, <2>4, <2>5, <2>6, EntryChange
<1>2. (IInv /\ Provenance) /\ (IInv /\ Provenance)' /\ [Next]_vars
        => [\A t \in Types, i \in Ids : Present(t, i) /\ Present(t, i)' => Kept(t, i)]_vars
  BY <1>1
<1> QED
  BY <1>2, ProvenanceInv, PTL DEF Spec, MetaHistory

\* A resource Create is about to store has the key it had before the step, or one
\* that was not issued before it.
LEMMA HoldsOrNew ==
  ASSUME IInv, [Next]_vars
  PROVE  /\ issued \subseteq issued'
         /\ \A q \in Procs : own'[q] # Nil /\ req'[q].op = "Create" =>
              \/ own[q] # Nil /\ req[q].op = "Create" /\ heap'[own'[q]].key = heap[own[q]].key
              \/ heap'[own'[q]].key \notin issued
<1> DEFINE Goal == /\ issued \subseteq issued'
                   /\ \A q \in Procs : own'[q] # Nil /\ req'[q].op = "Create" =>
                        \/ own[q] # Nil /\ req[q].op = "Create" /\ heap'[own'[q]].key = heap[own[q]].key
                        \/ heap'[own'[q]].key \notin issued
<1>1. CASE Untouched
  BY <1>1 DEF Untouched
<1>2. CASE Tick \/ UNCHANGED vars
  BY <1>2 DEF Tick, vars, storeVars
<1>3. ASSUME NEW p \in Procs, Prepare(p)
      PROVE  Goal
  <2>1. Cell1 \in Refs /\ \A q \in Procs : own[q] # Cell1
    BY <1>3, CellsFresh, NotLive DEF Prepare
  <2>2. PICK i \in NewIds :
          /\ issued' = issued \cup {i}
          /\ heap' = [heap EXCEPT ![Cell1] =
               [Clone(Body(req[p])) EXCEPT !.key = i, !.id = i, !.created = clock, !.modified = clock]]
    BY <1>3 DEF Prepare
  <2>3. Clone(Body(req[p])) \in Objects
    <3>1. Body(req[p]) \in Objects
      BY <1>3, RequestsAssumption, ClockAssumption
      DEF Prepare, IInv, LocalInv, RequestType, Body, Objects, Times
    <3> QED
      BY <3>1, CloneType
  <2>4. heap'[Cell1].key = i
    BY <2>1, <2>2, <2>3 DEF IInv, TypeOK, Objects
  <2>5. own' = [own EXCEPT ![p] = Cell1] /\ req' = req
    BY <1>3 DEF Prepare
  <2>6. \A q \in Procs : own[q] # Nil => heap'[own[q]] = heap[own[q]]
    BY <2>1, <2>2 DEF IInv, TypeOK
  <2> QED
    BY <2>2, <2>4, <2>5, <2>6 DEF NewIds, IInv, TypeOK
<1>4. ASSUME NEW p \in Procs, Delete(p)
      PROVE  Goal
  BY <1>4 DEF Delete
<1>5. ASSUME NEW p \in Procs, Create(p) \/ Replace(p) \/ Patch(p)
      PROVE  Goal
  <2>1. /\ Cell1 \in Refs \ Live /\ Cell2 \in Refs \ Live
        /\ \A q \in Procs : own[q] # Cell1 /\ own[q] # Cell2
    BY <1>5, CellsFresh, NotLive DEF Create, Replace, Patch
  <2>2. issued' = issued /\ req' = req /\ own' = [own EXCEPT ![p] = Nil]
    BY <1>5 DEF Create, Replace, Patch, Publish
  <2>3. ASSUME NEW q \in Procs, q # p, own[q] # Nil
        PROVE  heap'[own[q]] = heap[own[q]]
    <3>1. own[q] # own[p]
      BY <2>3 DEF IInv, Separation
    <3> QED
      BY <1>5, <2>1, <2>3, <3>1 DEF Create, Replace, Patch, Publish, IInv, TypeOK
  <2> QED
    BY <2>2, <2>3 DEF IInv, TypeOK
<1>6. ASSUME NEW p \in Procs, CloneForHook(p) \/ ApplyPatch(p)
      PROVE  Goal
  <2>1. Cell1 \in Refs \ Live /\ \A q \in Procs : own[q] # Cell1
    BY <1>6, CellsFresh, NotLive DEF CloneForHook, ApplyPatch, OwnClone
  <2>2. req[p].op = "Patch"
    BY <1>6 DEF CloneForHook, ApplyPatch, IInv, LocalInv
  <2> QED
    BY <1>6, <2>1, <2>2 DEF CloneForHook, ApplyPatch, OwnClone, CloneCell, storeVars, IInv, TypeOK
<1>7. ASSUME NEW p \in Procs, Call(p) \/ Step(p) \/ HookEdits(p) \/ CallerEdits(p)
      PROVE  Goal
  <2>1. CASE \/ Call(p) \/ HookEdits(p) \/ CallerEdits(p)
             \/ Refuse(p) \/ Lock(p) \/ Acquire(p) \/ RLock(p) \/ NotFound(p) \/ Conflict(p)
             \/ HookRefuses(p) \/ HookReenters(p) \/ ApplyOp(p) \/ PatchFails(p) \/ PostHooks(p)
             \/ Get(p) \/ Snapshot(p) \/ ListFilter(p) \/ ListPage(p) \/ Return(p)
    BY <1>1, <2>1, QuietStep
  <2> QED
    BY <1>3, <1>4, <1>5, <1>6, <1>7, <2>1 DEF Step
<1> QED
  BY <1>2, <1>7 DEF Next

\* A deleted resource never comes back, whatever Replace, Patch or Create was
\* under way when it was deleted.
THEOREM DeletedStaysDeleted == Spec => GoneForGood
<1>1. ASSUME IInv, Provenance, Provenance', [Next]_vars, NEW i \in Ids, Gone(i)
      PROVE  Gone(i)'
  <2>1. issued \subseteq issued'
    BY <1>1, HoldsOrNew
  <2>2. ASSUME NEW t \in Types PROVE ~ Present(t, i)'
    <3>1. CASE resources'[t][i] = resources[t][i]
      BY <1>1, <3>1 DEF Gone, Present
    <3>2. ASSUME NEW p \in Procs, Create(p) PROVE heap[own[p]].key # i
      BY <1>1, <3>2 DEF Create, Gone, IInv, LocalInv
    <3>3. ASSUME NEW p \in Procs, t = req[p].type, i = req[p].id, Replace(p) \/ Patch(p)
          PROVE  FALSE
      BY <1>1, <3>3 DEF Replace, Patch, Gone, Present, Target, IInv, LocalInv
    <3> QED
      BY <1>1, <3>1, <3>2, <3>3, EntryChange
  <2>3. ASSUME NEW p \in Procs, own'[p] # Nil, req'[p].op = "Create"
        PROVE  heap'[own'[p]].key # i
    BY <1>1, <2>3, HoldsOrNew DEF Gone
  <2> QED
    BY <1>1, <2>1, <2>2, <2>3 DEF Gone
<1>2. (IInv /\ Provenance) /\ (IInv /\ Provenance)' /\ [Next]_vars
        => [\A i \in Ids : Gone(i) => Gone(i)']_vars
  BY <1>1
<1> QED
  BY <1>2, ProvenanceInv, PTL DEF Spec, GoneForGood

\* Create looks through the users and stores the new one in one write section:
\* the new user's name is nobody's, letter case ignored.
THEOREM CreateIsChecked == Spec => CreateChecksUserName
<1> DEFINE Checked(t, i, j) == ~ Present(t, i) /\ Present(t, i)' /\ Present(t, j) =>
                                 ~ EqualFold(At(t, i)'.name, At(t, j).name)
<1>1. ASSUME IInv, [Next]_vars, NEW t \in UserTypes, NEW i \in Ids, NEW j \in Ids,
             ~ Present(t, i), Present(t, i)', Present(t, j)
      PROVE  ~ EqualFold(At(t, i)'.name, At(t, j).name)
  <2>1. t \in Types /\ resources'[t][i] # resources[t][i]
    BY <1>1, TypesAssumption DEF Present
  <2>2. ASSUME NEW p \in Procs, t = req[p].type, i = req[p].id, Replace(p) \/ Patch(p)
        PROVE  FALSE
    BY <1>1, <2>2 DEF Replace, Patch, Present, Target, IInv, LocalInv
  <2>3. PICK p \in Procs : t = req[p].type /\ Create(p) /\ At(t, i)' = heap[own[p]]
    BY <1>1, <2>1, <2>2, EntryChange
  <2>4. ~ Taken(t, heap[own[p]].name)
    BY <2>3 DEF Create
  <2>5. ~ EqualFold(At(t, j).name, heap[own[p]].name)
    BY <1>1, <2>4 DEF Taken, Present, At
  <2> QED
    BY <2>3, <2>5 DEF EqualFold
<1>2. IInv /\ [Next]_vars
        => [\A t \in UserTypes, i, j \in Ids : Checked(t, i, j)]_vars
  BY <1>1
<1> QED
  BY <1>2, Inductive, PTL DEF Spec, CreateChecksUserName

\* After a hook has called the store from under the lock, the lock stays with the
\* goroutine of that hook and no resource changes any more.
THEOREM WedgeStays == Spec => WedgeIsFinal
<1>1. ASSUME IInv, [Next]_vars, Wedged
      PROVE  Wedged' /\ UNCHANGED <<resources, writer, readers>>
  <2>1. PICK w \in Procs : pc[w] = "stuck"
    BY <1>1 DEF Wedged
  <2>2. writer = w /\ writer # Nil /\ readers = {}
    BY <1>1, <2>1, NilAssumption DEF IInv, LockInv, WriteSection
  <2>3. \A p \in Procs : pc[p] \notin {"write", "prehook", "patch", "post", "read"}
    BY <1>1, <2>1, <2>2 DEF IInv, LockInv, WriteSection
  <2>4. CASE Tick \/ UNCHANGED vars
    BY <1>1, <2>4 DEF Tick, vars, storeVars, lockVars, Wedged
  <2>5. ASSUME NEW p \in Procs, Call(p) \/ Step(p) \/ HookEdits(p) \/ CallerEdits(p)
        PROVE  Wedged' /\ UNCHANGED <<resources, writer, readers>>
    <3>1. CASE \/ Call(p) \/ Refuse(p) \/ Prepare(p) \/ Lock(p) \/ RLock(p)
               \/ ListFilter(p) \/ ListPage(p) \/ CallerEdits(p) \/ Return(p)
      <4>1. p # w
        BY <2>1, <3>1 DEF Call, Refuse, Prepare, Lock, RLock, ListFilter, ListPage, CallerEdits, Return
      <4>2. UNCHANGED <<resources, writer, readers>>
        BY <2>2, <3>1
        DEF Call, Refuse, Prepare, Lock, RLock, ListFilter, ListPage, CallerEdits, Return,
            storeVars, lockVars
      <4>3. pc'[w] = pc[w]
        BY <1>1, <2>1, <3>1, <4>1
        DEF Call, Refuse, Prepare, Lock, RLock, ListFilter, ListPage, CallerEdits, Return, IInv, TypeOK
      <4> QED
        BY <2>1, <4>2, <4>3 DEF Wedged
    <3>2. CASE HookEdits(p) \/ ~ (\/ Call(p) \/ Refuse(p) \/ Prepare(p) \/ Lock(p) \/ RLock(p)
                                  \/ ListFilter(p) \/ ListPage(p) \/ CallerEdits(p) \/ Return(p))
      BY <2>2, <2>3, <2>5, <3>2
      DEF Step, HookEdits, Acquire, NotFound, Conflict, Create, Replace, Delete, CloneForHook,
          HookRefuses, HookReenters, ApplyPatch, ApplyOp, PatchFails, Patch, PostHooks, Get, Snapshot
    <3> QED
      BY <3>1, <3>2
  <2> QED
    BY <1>1, <2>4, <2>5 DEF Next
<1>2. IInv /\ [Next]_vars => [Wedged => Wedged' /\ UNCHANGED <<resources, writer, readers>>]_vars
  BY <1>1
<1> QED
  BY <1>2, Inductive, PTL DEF Spec, WedgeIsFinal

=============================================================================
