--------------------------- MODULE SubsetCacheProofs ---------------------------
(***************************************************************************)
(* Proofs about SubsetCache, for every number of conversions, keys and     *)
(* files, every quota, and every bound.                                    *)
(***************************************************************************)
EXTENDS SubsetCache, DataProofs, FiniteSetTheorems, TLAPS

USE DEF locks, counts, metric, Fault, Nobody, Maintenance

(* A process without conversions has nobody who holds a lock. *)
LEMMA Constants ==
  /\ IdleTask \in [pc : {"idle"}, key : Keys, lock : {NoLock}]
  /\ IdleMaint \in [pc : {"idle"}, left : {{}}, seen : {{}}, whole : {FALSE}, bytes : {0},
                   lock : {NoLock}, at : Keys]
  /\ NoLock \notin LockIds /\ Cardinality(Tasks) \in Nat
<1>1. (CHOOSE k \in Keys : TRUE) \in Keys
  BY CacheAssumption DEF CacheAssumption
<1>2. Cardinality(Tasks) \in Nat
  BY CacheAssumption, FS_CardinalityType DEF CacheAssumption
<1> QED
  BY <1>1, <1>2 DEF IdleTask, IdleMaint, NoLock, LockIds

(* There is one identity of a lock more than there are conversions to hold it. *)
LEMMA Pigeonhole ==
  ASSUME NEW f, DOMAIN f = Tasks
  PROVE  \E l \in LockIds : \A t \in Tasks : f[t] # l
<1> DEFINE image == {f[t] : t \in Tasks}
           g == [t \in Tasks |-> f[t]]
<1>1. g \in Surjection(Tasks, image)
  BY DEF Surjection
<1>2. IsFiniteSet(image) /\ Cardinality(image) <= Cardinality(Tasks)
  BY <1>1, CacheAssumption, FS_Surjection DEF CacheAssumption
<1>3. Cardinality(image) \in Nat /\ Cardinality(Tasks) \in Nat
  BY <1>2, Constants, FS_CardinalityType
<1>4. IsFiniteSet(LockIds) /\ Cardinality(LockIds) = Cardinality(Tasks) + 1
  <2>1. 1 \in Int /\ Cardinality(Tasks) + 1 \in Int /\ ~(1 > Cardinality(Tasks) + 1)
        /\ (Cardinality(Tasks) + 1) - 1 + 1 = Cardinality(Tasks) + 1
    BY <1>3
  <2> QED
    BY <2>1, FS_Interval DEF LockIds
<1>5. ~(LockIds \subseteq image)
  <2> SUFFICES ASSUME LockIds \subseteq image PROVE FALSE
    OBVIOUS
  <2>1. Cardinality(LockIds) <= Cardinality(image)
    BY <1>2, FS_Subset
  <2> QED
    BY <1>2, <1>3, <1>4, <2>1
<1> QED
  BY <1>5

(* Whoever has no lock yet, a conversion or maintenance, finds one that nobody refers to. *)
LEMMA FreshLock ==
  ASSUME (\E t \in Tasks : task[t].lock = NoLock) \/ maint.lock = NoLock
  PROVE  /\ (CHOOSE l \in LockIds : l \notin Strong) \in LockIds
         /\ (CHOOSE l \in LockIds : l \notin Strong) \notin Strong
<1> SUFFICES \E l \in LockIds : l \notin Strong
  OBVIOUS
<1>1. CASE maint.lock = NoLock
  <2> DEFINE f == [t \in Tasks |-> task[t].lock]
  <2>1. PICK l \in LockIds : \A t \in Tasks : f[t] # l
    BY Pigeonhole
  <2> QED
    BY <1>1, <2>1, Constants DEF Strong
<1>2. CASE \E t \in Tasks : task[t].lock = NoLock
  <2>1. PICK u \in Tasks : task[u].lock = NoLock
    BY <1>2
  <2> DEFINE f == [t \in Tasks |-> IF t = u THEN maint.lock ELSE task[t].lock]
  <2>2. PICK l \in LockIds : \A t \in Tasks : f[t] # l
    BY Pigeonhole
  <2>3. maint.lock # l /\ \A t \in Tasks : task[t].lock # l
    BY <2>1, <2>2, Constants
  <2> QED
    BY <2>3 DEF Strong
<1> QED
  BY <1>1, <1>2

(* What cache_lock does to the map: the caller's key gets the lock, references that *)
(* somebody else has are kept, and keys still share no lock.                         *)
LEMMA CacheLockGives ==
  ASSUME CacheInv, NEW k \in Keys, NEW lock \in LockIds, CacheLock(k, lock),
         (\E t \in Tasks : task[t].lock = NoLock) \/ maint.lock = NoLock
  PROVE  /\ table' \in [Keys -> LockIds \union {NoLock}]
         /\ table'[k] = lock
         /\ \A m \in Keys : table[m] \in Strong => table'[m] = table[m]
         /\ \A m, n \in Keys : table'[m] = table'[n] /\ table'[m] # NoLock => m = n
<1> USE DEF CacheInv, TypeOK, LocksFit
<1>1. CASE table[k] \in Strong
  BY <1>1 DEF CacheLock
<1>2. CASE table[k] \notin Strong
  <2>1. /\ table' = [m \in Keys |-> IF m = k THEN lock
                                    ELSE IF table[m] \in Strong THEN table[m] ELSE NoLock]
        /\ lock \notin Strong
    BY <1>2, FreshLock DEF CacheLock
  <2> QED
    BY <1>2, <2>1
<1> QED
  BY <1>1, <1>2

(* Locks that fit exclude: two holders of one key would hold one mutex. *)
LEMMA FittingExcludes == TypeOK /\ LocksFit => ExclusiveKey
<1> SUFFICES ASSUME TypeOK, LocksFit PROVE ExclusiveKey
  OBVIOUS
<1>1. \A t \in Working : /\ task[t].lock \in LockIds /\ owner[task[t].lock] = t
                         /\ table[task[t].key] = task[t].lock
  BY DEF TypeOK, LocksFit, Working
<1>2. maint.pc = "remove" => owner[table[maint.at]] = Maintenance
  BY DEF TypeOK, LocksFit
<1>3. Maintenance \notin Working
  BY CacheAssumption DEF CacheAssumption, Working
<1> QED
  BY <1>1, <1>2, <1>3 DEF ExclusiveKey

(* The invariant: nothing more than the locks is needed for files to stay. *)
Inv == TypeOK /\ LocksFit /\ ReadFindsFile

(* Whoever works on a key excludes all others and the eviction from it. *)
LEMMA InvExcludes == Inv => CacheInv
  BY FittingExcludes DEF Inv, CacheInv

(* At the start nobody holds or refers to a lock, and no file has been found. *)
LEMMA InitOK == Init => Inv
<1> SUFFICES ASSUME Init PROVE Inv
  OBVIOUS
<1>1. TypeOK
  BY Constants DEF Init, TypeOK
<1>2. LocksFit /\ ReadFindsFile
  BY Constants, CacheAssumption
  DEF Init, LocksFit, ReadFindsFile, Working, CacheAssumption
<1> QED
  BY <1>1, <1>2 DEF Inv

(* A lookup at work goes on: the locks stay as they are, and it alone touches the file. *)
LEMMA AdvanceKeeps ==
  ASSUME Inv, NEW t \in Tasks,
         CheckFile(t) \/ MisjudgeFile(t) \/ Generate(t) \/ LockPublish(t) \/ Publish(t)
  PROVE  Inv'
<1>1. PICK next \in {"generate", "publish", "rename", "read"} : Goto(t, next)
  BY DEF CheckFile, MisjudgeFile, Generate, LockPublish, Publish
<1>2. /\ task[t].pc \in {"check", "generate", "publish", "rename"}
      /\ UNCHANGED <<orphans, table, owner>>
  BY DEF CheckFile, MisjudgeFile, Generate, LockPublish, Publish
<1>f. /\ file' \in [Keys -> {"absent", "empty", "ready"}]
      /\ \A k \in Keys : k # task[t].key => file'[k] = file[k]
      /\ next = "read" => file'[task[t].key] = "ready"
  <2>1. CASE CheckFile(t)
    BY <1>1, <2>1 DEF CheckFile, Goto, Inv, TypeOK
  <2>m. CASE MisjudgeFile(t)
    BY <1>1, <2>m DEF MisjudgeFile, Goto, Inv, TypeOK
  <2>2. CASE Generate(t)
    BY <1>1, <2>2 DEF Generate, Goto, Inv, TypeOK
  <2>3. CASE LockPublish(t)
    BY <1>1, <2>3 DEF LockPublish, Goto, Inv, TypeOK
  <2>4. CASE Publish(t)
    BY <2>4 DEF Publish, Inv, TypeOK
  <2> QED
    BY <2>1, <2>m, <2>2, <2>3, <2>4
<1>m. /\ maint'.pc = maint.pc /\ maint'.lock = maint.lock /\ maint'.at = maint.at
      /\ maint' \in [pc : {"boot", "idle", "list", "evict", "remove", "measure"},
                    left : SUBSET Keys, seen : SUBSET Keys, whole : BOOLEAN,
                    bytes : {maint'.bytes}, lock : LockIds \union {NoLock}, at : Keys]
      /\ measured' \in BOOLEAN
  BY DEF CheckFile, MisjudgeFile, Generate, LockPublish, Publish, Inv, TypeOK
<1>k. keeper' \in Tasks \union {Maintenance, Nobody}
  BY DEF CheckFile, MisjudgeFile, Generate, LockPublish, Publish, Inv, TypeOK
<1>3. /\ task' \in [Tasks -> [pc : {"idle", "lock", "check", "generate", "publish", "rename",
                                  "read"}, key : Keys, lock : LockIds \union {NoLock}]]
      /\ task'[t].pc \in {"generate", "publish", "rename", "read"}
      /\ task'[t].pc = "read" => next = "read"
      /\ \A u \in Tasks : /\ task'[u].key = task[u].key /\ task'[u].lock = task[u].lock
                          /\ u # t => task'[u].pc = task[u].pc
  BY <1>1 DEF Goto, Inv, TypeOK
<1>4. Working' = Working
  BY <1>2, <1>3 DEF Working
<1>5. TypeOK'
  BY <1>2, <1>3, <1>f, <1>k, <1>m DEF Inv, TypeOK
<1>6. LocksFit'
  <2>1. \A u \in Tasks : task'[u].pc = "idle" <=> task[u].pc = "idle"
    BY <1>2, <1>3 DEF Working
  <2> QED
    BY <1>2, <1>3, <1>4, <1>m, <2>1 DEF Inv, LocksFit
<1>7. ReadFindsFile'
  <2> SUFFICES ASSUME NEW u \in Tasks, task'[u].pc = "read"
      PROVE  file'[task'[u].key] = "ready"
    BY DEF ReadFindsFile
  <2>1. CASE u = t
    BY <1>3, <1>f, <2>1
  <2>2. CASE u # t
    <3>1. u \in Working /\ file[task[u].key] = "ready" /\ task[u].key # task[t].key
      BY <1>2, <1>3, <2>2, InvExcludes DEF Inv, ReadFindsFile, Working, CacheInv, ExclusiveKey
    <3> QED
      BY <1>3, <1>f, <3>1 DEF Inv, TypeOK
  <2> QED
    BY <2>1, <2>2
<1> QED
  BY <1>5, <1>6, <1>7 DEF Inv

(* A lookup that ends gives its mutex back and forgets the lock. *)
LEMMA LeaveKeeps ==
  ASSUME Inv, NEW t \in Tasks,
         LookupError(t) \/ PublishError(t) \/ PublishUncounted(t) \/ Read(t)
  PROVE  Inv'
<1>1. /\ t \in Working /\ Leave(t) /\ UNCHANGED <<table, maint>>
      /\ keeper' \in {keeper, Nobody} /\ orphans' \in Nat /\ measured' \in BOOLEAN
      /\ file' \in [Keys -> {"absent", "empty", "ready"}]
      /\ \A k \in Keys : file'[k] \in {file[k], "ready"}
  <2>1. CASE LookupError(t)
    BY <2>1 DEF LookupError, Working, Inv, TypeOK
  <2>2. CASE PublishError(t)
    BY <2>2 DEF PublishError, Working, Inv, TypeOK
  <2>3. CASE PublishUncounted(t)
    BY <2>3 DEF PublishUncounted, Working, Inv, TypeOK
  <2>4. CASE Read(t)
    BY <2>4 DEF Read, Working, Inv, TypeOK
  <2> QED
    BY <2>1, <2>2, <2>3, <2>4
<1>2. /\ task'[t] = IdleTask /\ \A u \in Tasks \ {t} : task'[u] = task[u]
      /\ task[t].lock \in LockIds /\ owner[task[t].lock] = t
      /\ owner'[task[t].lock] = Nobody
      /\ \A l \in LockIds \ {task[t].lock} : owner'[l] = owner[l]
  BY <1>1 DEF Leave, Working, Inv, TypeOK, LocksFit
<1>3. TypeOK'
  BY <1>1, Constants DEF Leave, Inv, TypeOK
<1>4. Working' = Working \ {t}
  BY <1>2, Constants DEF Working
<1>5. LocksFit'
  <2>1. \A u \in Tasks : IF task'[u].pc = "idle" THEN task'[u].lock = NoLock
        ELSE task'[u].lock # NoLock /\ table'[task'[u].key] = task'[u].lock
    BY <1>1, <1>2, Constants DEF Inv, LocksFit
  <2>2. ASSUME NEW u \in Tasks, NEW l \in LockIds
        PROVE  owner'[l] = u <=> u \in Working' /\ task'[u].lock = l
    <3>1. u # Nobody
      BY CacheAssumption DEF CacheAssumption
    <3> QED
      BY <1>2, <1>4, <3>1 DEF Inv, LocksFit
  <2>3. \A l \in LockIds : owner'[l] = Maintenance <=> maint'.lock = l
    <3>1. t # Maintenance
      BY CacheAssumption DEF CacheAssumption
    <3> QED
      BY <1>1, <1>2, <3>1 DEF Inv, LocksFit
  <2> QED
    BY <1>1, <2>1, <2>2, <2>3 DEF Inv, LocksFit
<1>6. ReadFindsFile'
  BY <1>1, <1>2, Constants DEF Inv, ReadFindsFile, TypeOK
<1> QED
  BY <1>3, <1>5, <1>6 DEF Inv

(* A lookup takes the mutex of its key when it is free. *)
LEMMA LockKeeps == ASSUME Inv, NEW t \in Tasks, LockKey(t) PROVE Inv'
<1>1. /\ task[t].pc = "lock" /\ owner[task[t].lock] = Nobody
      /\ task[t].lock \in LockIds
      /\ owner' = [owner EXCEPT ![task[t].lock] = t]
      /\ task' = [task EXCEPT ![t].pc = "check"]
      /\ UNCHANGED <<file, orphans, table, keeper, maint, measured>>
  BY DEF LockKey, Goto, Inv, TypeOK, LocksFit
<1>2. /\ task'[t].pc = "check"
      /\ \A u \in Tasks : /\ task'[u].key = task[u].key /\ task'[u].lock = task[u].lock
                          /\ u # t => task'[u].pc = task[u].pc
      /\ owner'[task[t].lock] = t
      /\ \A l \in LockIds \ {task[t].lock} : owner'[l] = owner[l]
  BY <1>1 DEF Inv, TypeOK
<1>3. TypeOK'
  BY <1>1 DEF Inv, TypeOK
<1>4. Working' = Working \union {t} /\ t \notin Working
  BY <1>1, <1>2 DEF Working
<1>5. LocksFit'
  <2>1. \A u \in Tasks : IF task'[u].pc = "idle" THEN task'[u].lock = NoLock
        ELSE task'[u].lock # NoLock /\ table'[task'[u].key] = task'[u].lock
    BY <1>1, <1>2 DEF Inv, LocksFit
  <2>2. ASSUME NEW u \in Tasks, NEW l \in LockIds
        PROVE  owner'[l] = u <=> u \in Working' /\ task'[u].lock = l
    <3>1. u # Nobody
      BY CacheAssumption DEF CacheAssumption
    <3> QED
      BY <1>1, <1>2, <1>4, <3>1 DEF Inv, LocksFit
  <2>3. \A l \in LockIds : owner'[l] = Maintenance <=> maint'.lock = l
    <3>1. t # Maintenance
      BY CacheAssumption DEF CacheAssumption
    <3> QED
      BY <1>1, <1>2, <3>1 DEF Inv, LocksFit
  <2> QED
    BY <1>1, <2>1, <2>2, <2>3 DEF Inv, LocksFit
<1>6. ReadFindsFile'
  BY <1>1, <1>2 DEF Inv, ReadFindsFile
<1> QED
  BY <1>3, <1>5, <1>6 DEF Inv


(* A new lookup refers to the lock of its key, which is the one all others refer to. *)
LEMMA BeginKeeps == ASSUME Inv, NEW t \in Tasks, BeginLookup(t) PROVE Inv'
<1>1. PICK k \in Keys, lock \in LockIds :
        /\ CacheLock(k, lock)
        /\ task' = [task EXCEPT ![t] = [pc |-> "lock", key |-> k, lock |-> lock]]
  BY DEF BeginLookup
<1>2. /\ task[t].pc = "idle" /\ task[t].lock = NoLock
      /\ UNCHANGED <<file, orphans, owner, keeper, maint, measured>>
  BY DEF BeginLookup, Inv, LocksFit
<1>3. /\ table' \in [Keys -> LockIds \union {NoLock}] /\ table'[k] = lock
      /\ \A m \in Keys : table[m] \in Strong => table'[m] = table[m]
      /\ \A m, n \in Keys : table'[m] = table'[n] /\ table'[m] # NoLock => m = n
  BY <1>1, <1>2, InvExcludes, CacheLockGives
<1>4. /\ task'[t] = [pc |-> "lock", key |-> k, lock |-> lock]
      /\ \A u \in Tasks \ {t} : task'[u] = task[u]
  BY <1>1 DEF Inv, TypeOK
<1>5. TypeOK'
  BY <1>1, <1>2, <1>3 DEF Inv, TypeOK
<1>6. Working' = Working
  BY <1>2, <1>4 DEF Working
<1>7. LocksFit'
  <2>1. \A u \in Tasks : IF task'[u].pc = "idle" THEN task'[u].lock = NoLock
        ELSE task'[u].lock # NoLock /\ table'[task'[u].key] = task'[u].lock
    <3> SUFFICES ASSUME NEW u \in Tasks
        PROVE  IF task'[u].pc = "idle" THEN task'[u].lock = NoLock
               ELSE task'[u].lock # NoLock /\ table'[task'[u].key] = task'[u].lock
      OBVIOUS
    <3>1. CASE u = t
      BY <1>3, <1>4, <3>1, Constants
    <3>2. CASE u # t
      <4>1. task[u].lock # NoLock => task[u].lock \in Strong
        BY DEF Strong
      <4> QED
        BY <1>3, <1>4, <3>2, <4>1 DEF Inv, LocksFit, TypeOK
    <3> QED
      BY <3>1, <3>2
  <2>2. IF maint.pc = "remove" THEN maint.lock # NoLock /\ table'[maint.at] = maint.lock
        ELSE maint.lock = NoLock
    <3>1. maint.lock # NoLock => maint.lock \in Strong
      BY DEF Strong
    <3> QED
      BY <1>3, <3>1 DEF Inv, LocksFit, TypeOK
  <2>3. \A u \in Tasks : \A l \in LockIds :
           owner'[l] = u <=> u \in Working' /\ task'[u].lock = l
    BY <1>2, <1>4, <1>6 DEF Inv, LocksFit, Working
  <2> QED
    BY <1>2, <1>3, <2>1, <2>2, <2>3 DEF Inv, LocksFit
<1>8. ReadFindsFile'
  BY <1>2, <1>4 DEF Inv, ReadFindsFile
<1> QED
  BY <1>5, <1>7, <1>8 DEF Inv

(* What the listing leaves for the eviction: the entries it could read. *)
LEMMA Listing ==
  ASSUME ListFiles
  PROVE  \E skipped \in SUBSET Keys, next \in {"evict", "measure"} :
            LET listed == {k \in Keys : file[k] # "absent"} \ skipped IN
            maint' = [maint EXCEPT !.bytes = Total(listed), !.pc = next, !.left = listed,
                                   !.seen = {k \in listed : file[k] = "ready"},
                                   !.whole = \A k \in skipped : file[k] # "ready"]
<1> DEFINE listed(skipped) == {k \in Keys : file[k] # "absent"} \ skipped
           pc(skipped) == IF MaxBytes > 0 /\ Total(listed(skipped)) > MaxBytes
                          THEN "evict" ELSE "measure"
<1>1. PICK skipped \in SUBSET {k \in Keys : file[k] # "absent"} :
        maint' = [maint EXCEPT !.bytes = Total(listed(skipped)), !.pc = pc(skipped),
                               !.left = listed(skipped),
                               !.seen = {k \in listed(skipped) : file[k] = "ready"},
                               !.whole = \A k \in skipped : file[k] # "ready"]
  BY DEF ListFiles
<1>2. skipped \in SUBSET Keys /\ pc(skipped) \in {"evict", "measure"}
  OBVIOUS
<1> HIDE DEF pc
<1> QED
  BY <1>1, <1>2 DEF ListFiles

(* Maintenance that neither takes nor gives back a key lock. *)
LEMMA MeasureKeeps ==
  ASSUME Inv, BeginMaintain \/ ListFiles \/ ListError \/ EndEvict \/ EndMaintain
  PROVE  Inv'
<1>1. /\ UNCHANGED <<file, task, table, owner>>
      /\ maint.pc # "remove" /\ maint'.pc # "remove" /\ maint'.lock = NoLock
      /\ maint.lock = NoLock
  <2>1. UNCHANGED <<file, task, table, owner>> /\ maint.pc # "remove"
    BY DEF BeginMaintain, ListFiles, ListError, EndEvict, EndMaintain
  <2>2. maint.lock = NoLock
    BY <2>1 DEF Inv, LocksFit
  <2>3. maint'.pc # "remove" /\ maint'.lock = NoLock
    BY <2>2, Constants, Listing
    DEF BeginMaintain, ListFiles, ListError, EndEvict, EndMaintain, Inv, TypeOK
  <2> QED
    BY <2>1, <2>2, <2>3
<1>2. TypeOK'
  <2>1. maint' \in [pc : {"boot", "idle", "list", "evict", "remove", "measure"},
                    left : SUBSET Keys, seen : SUBSET Keys, whole : BOOLEAN, bytes : {maint'.bytes},
                    lock : LockIds \union {NoLock}, at : Keys]
    <3>1. CASE BeginMaintain
      BY <3>1 DEF BeginMaintain, Inv, TypeOK
    <3>2. CASE ListFiles
      <4>1. PICK skipped \in SUBSET Keys, next \in {"evict", "measure"} :
              LET listed == {k \in Keys : file[k] # "absent"} \ skipped IN
              maint' = [maint EXCEPT !.bytes = Total(listed), !.pc = next, !.left = listed,
                                     !.seen = {k \in listed : file[k] = "ready"},
                                     !.whole = \A k \in skipped : file[k] # "ready"]
        BY <3>2, Listing
      <4> DEFINE listed == {k \in Keys : file[k] # "absent"} \ skipped
                 seen == {k \in listed : file[k] = "ready"}
                 whole == \A k \in skipped : file[k] # "ready"
      <4>2. maint' = [maint EXCEPT !.bytes = Total(listed), !.pc = next, !.left = listed,
                                   !.seen = seen, !.whole = whole]
        BY <4>1
      <4>3. listed \in SUBSET Keys /\ seen \in SUBSET Keys /\ whole \in BOOLEAN
        OBVIOUS
      <4> HIDE DEF listed, seen, whole
      <4> QED
        BY <4>2, <4>3 DEF Inv, TypeOK
    <3>3. CASE ListError \/ EndMaintain
      BY <3>3, Constants DEF ListError, EndMaintain
    <3>4. CASE EndEvict
      BY <3>4 DEF EndEvict, Inv, TypeOK
    <3> QED
      BY <3>1, <3>2, <3>3, <3>4
  <2>2. orphans' \in Nat
    <3>1. CASE ListFiles
      <4>1. orphans' \in {n \in 0..orphans : n = 0 \/ n = orphans} /\ orphans \in Nat
        BY <3>1 DEF ListFiles, Inv, TypeOK
      <4> QED
        BY <4>1
    <3>2. CASE BeginMaintain \/ ListError \/ EndEvict \/ EndMaintain
      BY <3>2 DEF BeginMaintain, ListError, EndEvict, EndMaintain, Inv, TypeOK
    <3> QED
      BY <3>1, <3>2
  <2>3. keeper' \in Tasks \union {Maintenance, Nobody}
    BY DEF BeginMaintain, ListFiles, ListError, EndEvict, EndMaintain, Inv, TypeOK
  <2>4. measured' \in BOOLEAN
    BY DEF BeginMaintain, ListFiles, ListError, EndEvict, EndMaintain, Inv, TypeOK
  <2> QED
    BY <1>1, <2>1, <2>2, <2>3, <2>4 DEF Inv, TypeOK
<1>3. LocksFit' /\ ReadFindsFile'
  BY <1>1 DEF Inv, LocksFit, ReadFindsFile, Working
<1> QED
  BY <1>2, <1>3 DEF Inv

(* Maintenance tries the lock of a key: it gets the mutex only if no lookup holds it. *)
LEMMA TryEvictKeeps == ASSUME Inv, TryEvict PROVE Inv'
<1>1. PICK k \in maint.left, lock \in LockIds :
        /\ CacheLock(k, lock)
        /\ IF owner[lock] = Nobody
           THEN /\ owner' = [owner EXCEPT ![lock] = Maintenance]
                /\ maint' = [maint EXCEPT !.pc = "remove", !.lock = lock, !.at = k,
                                          !.left = @ \ {k}]
           ELSE maint' = [maint EXCEPT !.left = @ \ {k}] /\ UNCHANGED owner
  BY DEF TryEvict
<1>2. /\ maint.pc = "evict" /\ maint.lock = NoLock /\ k \in Keys
      /\ UNCHANGED <<file, orphans, task, keeper, measured>>
  BY DEF TryEvict, Inv, LocksFit, TypeOK
<1>3. /\ table' \in [Keys -> LockIds \union {NoLock}] /\ table'[k] = lock
      /\ \A m \in Keys : table[m] \in Strong => table'[m] = table[m]
      /\ \A m, n \in Keys : table'[m] = table'[n] /\ table'[m] # NoLock => m = n
  BY <1>1, <1>2, InvExcludes, CacheLockGives
<1>4. \A u \in Tasks : IF task'[u].pc = "idle" THEN task'[u].lock = NoLock
      ELSE task'[u].lock # NoLock /\ table'[task'[u].key] = task'[u].lock
  <2>1. \A u \in Tasks : task[u].lock # NoLock => task[u].lock \in Strong
    BY DEF Strong
  <2> QED
    BY <1>2, <1>3, <2>1 DEF Inv, LocksFit, TypeOK
<1>5. ReadFindsFile' /\ Working' = Working
  BY <1>2 DEF Inv, ReadFindsFile, Working
<1>6. CASE owner[lock] # Nobody
  <2>1. /\ owner' = owner /\ maint'.pc = "evict" /\ maint'.lock = NoLock
        /\ maint' \in [pc : {"evict"}, left : SUBSET Keys, seen : SUBSET Keys, whole : BOOLEAN, bytes : {maint'.bytes},
                       lock : {NoLock}, at : Keys]
    BY <1>1, <1>2, <1>6 DEF Inv, TypeOK
  <2>2. TypeOK'
    BY <1>2, <1>3, <2>1 DEF Inv, TypeOK
  <2>3. LocksFit'
    BY <1>2, <1>3, <1>4, <1>5, <2>1 DEF Inv, LocksFit
  <2> QED
    BY <1>5, <2>2, <2>3 DEF Inv
<1>7. CASE owner[lock] = Nobody
  <2>1. /\ owner' = [owner EXCEPT ![lock] = Maintenance]
        /\ maint'.pc = "remove" /\ maint'.lock = lock /\ maint'.at = k
        /\ maint' \in [pc : {"remove"}, left : SUBSET Keys, seen : SUBSET Keys, whole : BOOLEAN, bytes : {maint'.bytes},
                       lock : LockIds, at : Keys]
    <3>1. /\ owner' = [owner EXCEPT ![lock] = Maintenance]
          /\ maint' = [maint EXCEPT !.pc = "remove", !.lock = lock, !.at = k,
                                    !.left = @ \ {k}]
      BY <1>1, <1>7
    <3> QED
      BY <1>2, <3>1 DEF Inv, TypeOK
  <2>2. TypeOK'
    BY <1>2, <1>3, <2>1 DEF Inv, TypeOK
  <2>3. /\ owner'[lock] = Maintenance
        /\ \A l \in LockIds \ {lock} : owner'[l] = owner[l]
    BY <2>1 DEF Inv, TypeOK
  <2>4. ASSUME NEW u \in Tasks, NEW l \in LockIds
        PROVE  owner'[l] = u <=> u \in Working' /\ task'[u].lock = l
    <3>1. u # Nobody /\ u # Maintenance
      BY CacheAssumption DEF CacheAssumption
    <3> QED
      BY <1>2, <1>5, <1>7, <2>3, <3>1 DEF Inv, LocksFit
  <2>5. \A l \in LockIds : owner'[l] = Maintenance <=> maint'.lock = l
    BY <1>2, <2>1, <2>3, Constants DEF Inv, LocksFit
  <2>6. LocksFit'
    BY <1>3, <1>4, <2>1, <2>4, <2>5, Constants DEF LocksFit
  <2> QED
    BY <1>5, <2>2, <2>6 DEF Inv
<1> QED
  BY <1>6, <1>7

(* An eviction removes a file that nobody works on, and gives the mutex back. *)
LEMMA EvictKeeps == ASSUME Inv, Evict \/ EvictError PROVE Inv'
<1>1. /\ maint.pc = "remove" /\ UNCHANGED <<orphans, task, table, keeper, measured>>
      /\ owner' = [owner EXCEPT ![maint.lock] = Nobody]
      /\ file' = file \/ file' = [file EXCEPT ![maint.at] = "absent"]
  BY DEF Evict, EvictError, Unlock
<1>2. /\ maint' \in [pc : {"evict"}, left : SUBSET Keys, seen : SUBSET Keys, whole : BOOLEAN, bytes : {maint'.bytes},
                     lock : {NoLock}, at : Keys]
      /\ maint'.pc = "evict" /\ maint'.lock = NoLock
  BY DEF Evict, EvictError, Inv, TypeOK
<1>3. /\ maint.lock \in LockIds /\ owner[maint.lock] = Maintenance /\ maint.at \in Keys
  BY <1>1 DEF Inv, TypeOK, LocksFit
<1>4. TypeOK'
  BY <1>1, <1>2 DEF Inv, TypeOK
<1>5. /\ owner'[maint.lock] = Nobody /\ Working' = Working
      /\ \A l \in LockIds \ {maint.lock} : owner'[l] = owner[l]
  BY <1>1, <1>3 DEF Inv, TypeOK, Working
<1>6. LocksFit'
  <2>1. ASSUME NEW u \in Tasks, NEW l \in LockIds
        PROVE  owner'[l] = u <=> u \in Working' /\ task'[u].lock = l
    <3>1. u # Nobody /\ u # Maintenance
      BY CacheAssumption DEF CacheAssumption
    <3> QED
      BY <1>1, <1>3, <1>5, <3>1 DEF Inv, LocksFit
  <2>2. \A l \in LockIds : owner'[l] = Maintenance <=> maint'.lock = l
    BY <1>2, <1>5, Constants DEF Inv, LocksFit
  <2> QED
    BY <1>1, <1>2, <2>1, <2>2 DEF Inv, LocksFit
<1>7. ReadFindsFile'
  <2>1. \A t \in Working : task[t].key # maint.at
    BY <1>1, InvExcludes DEF CacheInv, ExclusiveKey
  <2> QED
    BY <1>1, <2>1 DEF Inv, ReadFindsFile, Working, TypeOK
<1> QED
  BY <1>4, <1>6, <1>7 DEF Inv

(* After a restart there is nobody, whatever has become of the files. *)
LEMMA CrashKeeps == ASSUME Inv, Crash PROVE Inv'
<1>1. PICK lost \in SUBSET {k \in Keys : file[k] = "ready"} :
        file' = [k \in Keys |-> IF k \in lost THEN "empty" ELSE file[k]]
  BY DEF Crash
<1>2. orphans' \in Nat
  <2> DEFINE dying == {t \in Tasks : task[t].pc \in {"publish", "rename"}}
  <2>1. IsFiniteSet(dying)
    BY CacheAssumption, FS_Subset DEF CacheAssumption
  <2>2. Cardinality(dying) \in Nat
    BY <2>1, FS_CardinalityType
  <2> QED
    BY <2>2 DEF Crash, Inv, TypeOK
<1>3. /\ \A t \in Tasks : task'[t] = IdleTask
      /\ \A k \in Keys : table'[k] = NoLock
      /\ \A l \in LockIds : owner'[l] = Nobody
      /\ maint'.lock = NoLock /\ maint'.pc = "boot"
  BY Constants DEF Crash
<1>4. TypeOK'
  BY <1>1, <1>2, Constants DEF Crash, Inv, TypeOK
<1>5. LocksFit' /\ ReadFindsFile'
  BY <1>3, Constants, CacheAssumption
  DEF LocksFit, ReadFindsFile, Working, CacheAssumption
<1> QED
  BY <1>4, <1>5 DEF Inv

(* Every step keeps the invariant. *)
LEMMA NextKeeps == Inv /\ [Next]_vars => Inv'
<1> SUFFICES ASSUME Inv, [Next]_vars PROVE Inv'
  OBVIOUS
<1>1. ASSUME NEW t \in Tasks, BeginLookup(t) \/ LookupError(t) \/ MisjudgeFile(t)
                                \/ PublishError(t) \/ PublishUncounted(t)
      PROVE  Inv'
  BY <1>1, BeginKeeps, AdvanceKeeps, LeaveKeeps
<1>2. ASSUME NEW t \in Tasks, TaskNext(t) PROVE Inv'
  BY <1>2, LockKeeps, AdvanceKeeps, LeaveKeeps DEF TaskNext
<1>3. CASE BeginMaintain \/ MaintNext \/ ListError \/ EvictError
  BY <1>3, MeasureKeeps, TryEvictKeeps, EvictKeeps DEF MaintNext
<1>4. CASE Crash
  BY <1>4, CrashKeeps
<1>5. CASE UNCHANGED vars
  BY <1>5 DEF vars, Inv, TypeOK, LocksFit, ReadFindsFile, Working
<1> QED
  BY <1>1, <1>2, <1>3, <1>4, <1>5 DEF Next

(* The map of weak references hands out one lock per key while somebody has it, so that *)
(* two conversions never work on one key and none is evicted meanwhile, for any number  *)
(* of conversions, keys, faults and restarts.                                           *)
THEOREM LocksExclude == Spec => []CacheInv
  BY InitOK, NextKeeps, InvExcludes, PTL DEF Spec

(* A file that a conversion has found or published is there when it reads it: no other  *)
(* conversion replaces it by nothing, and no eviction comes between.                    *)
THEOREM FilesStayForReaders == Spec => []ReadFindsFile
<1>1. Inv => ReadFindsFile
  BY DEF Inv
<1> QED
  BY <1>1, InitOK, NextKeeps, PTL DEF Spec

-------------------------------------------------------------------------------
(* The metric.                                                                 *)

Weights == [k \in Keys |-> Bytes(k)]

(* The fold that adds the files up computes their sum. *)
LEMMA TotalIsSum == \A S \in SUBSET Keys : Total(S) = Sum(Weights, S)
<1> SUFFICES ASSUME NEW S \in SUBSET Keys PROVE Total(S) = Sum(Weights, S)
  OBVIOUS
<1> DEFINE Adds(g) == g = [T \in SUBSET S |->
                             IF T = {} THEN 0
                             ELSE LET k == CHOOSE k \in T : TRUE IN Bytes(k) + g[T \ {k}]]
<1>1. IsFiniteSet(S)
  BY FS_Subset, CacheAssumption DEF CacheAssumption
<1>2. Total(S) = (CHOOSE g : Adds(g))[S]
  BY Zenon DEF Total, MapThenSumSet, MapThenFoldSet
<1>3. ASSUME NEW g PROVE Adds(g) <=> IsSum(g, Weights, S)
  <2>1. ASSUME NEW T \in SUBSET S, T # {} PROVE Weights[First(T)] = Bytes(First(T))
    <3>1. First(T) \in Keys
      BY <2>1 DEF First
    <3> HIDE DEF Bytes
    <3> QED
      BY <3>1 DEF Weights
  <2> HIDE DEF Bytes
  <2>2. ASSUME NEW T \in SUBSET S
        PROVE  (IF T = {} THEN 0
                ELSE LET k == CHOOSE k \in T : TRUE IN Bytes(k) + g[T \ {k}])
               = IF T = {} THEN 0 ELSE Weights[First(T)] + g[T \ {First(T)}]
    BY <2>1 DEF First
  <2> QED
    BY <2>2 DEF IsSum
<1> HIDE DEF Adds
<1>4. PICK g : IsSum(g, Weights, S)
  BY <1>1, SumExists
<1>5. Adds(CHOOSE h : Adds(h))
  BY <1>3, <1>4
<1>6. IsSum(CHOOSE h : Adds(h), Weights, S)
  BY <1>3, <1>5
<1> QED
  BY <1>1, <1>2, <1>6, SumPart

(* The total is a number, and changes by what the one changed file changes. *)
LEMMA TotalIsNat == TypeOK => \A S \in SUBSET Keys : Total(S) \in Nat
<1> SUFFICES ASSUME TypeOK, NEW S \in SUBSET Keys PROVE Total(S) \in Nat
  OBVIOUS
<1>1. IsFiniteSet(S)
  BY FS_Subset, CacheAssumption DEF CacheAssumption
<1>2. \A k \in S : Weights[k] \in Nat
  BY CacheAssumption DEF CacheAssumption, Weights, Bytes
<1>3. Sum(Weights, S) \in Nat
  BY <1>1, <1>2, SumOneMore
<1> QED
  BY <1>3, TotalIsSum

LEMMA TotalFollows ==
  ASSUME TypeOK, TypeOK', NEW k \in Keys, \A m \in Keys \ {k} : Bytes(m)' = Bytes(m)
  PROVE  /\ Total(Keys) \in Nat /\ Total(Keys)' \in Nat
         /\ Bytes(k) \in Nat /\ Bytes(k)' \in Nat
         /\ Total(Keys)' - Bytes(k)' = Total(Keys) - Bytes(k)
<1>1. IsFiniteSet(Keys) /\ IsFiniteSet(Keys \ {k})
  BY FS_Subset, CacheAssumption DEF CacheAssumption
<1>2. /\ \A m \in Keys : Weights[m] = Bytes(m) /\ Weights'[m] = Bytes(m)'
      /\ \A m \in Keys : Bytes(m) \in Nat /\ Bytes(m)' \in Nat
  BY CacheAssumption DEF CacheAssumption, Weights, Bytes
<1>3. \A m \in Keys : Weights[m] \in Nat /\ Weights'[m] \in Nat
  BY <1>2
<1>4. Total(Keys) = Sum(Weights, Keys)
  BY TotalIsSum
<1>5. (\A S \in SUBSET Keys : Total(S) = Sum(Weights, S))'
  BY TotalIsSum, PTL
<1>6. Total(Keys)' = Sum(Weights', Keys)
  BY <1>5
<1>7. /\ Sum(Weights, Keys) \in Nat /\ Sum(Weights, Keys \ {k}) \in Nat
      /\ Sum(Weights, Keys) = Sum(Weights, Keys \ {k}) + Weights[k]
  BY <1>1, <1>3, SumOneMore
<1>8. /\ Sum(Weights', Keys) \in Nat /\ Sum(Weights', Keys \ {k}) \in Nat
      /\ Sum(Weights', Keys) = Sum(Weights', Keys \ {k}) + Weights'[k]
  BY <1>1, <1>3, SumOneMore
<1>9. \A m \in Keys \ {k} : Weights[m] = Weights'[m]
  BY <1>2
<1> HIDE DEF Bytes, Weights
<1>10. Sum(Weights, Keys \ {k}) = Sum(Weights', Keys \ {k})
  BY <1>1, <1>9, SumSame
<1> QED
  BY <1>2, <1>4, <1>6, <1>7, <1>8, <1>10

LEMMA TotalStays ==
  ASSUME TypeOK, TypeOK', \A k \in Keys : Bytes(k)' = Bytes(k)
  PROVE  Total(Keys)' = Total(Keys)
<1>1. PICK k \in Keys : TRUE
  BY CacheAssumption DEF CacheAssumption
<1>2. /\ Total(Keys) \in Nat /\ Total(Keys)' \in Nat
      /\ Bytes(k) \in Nat /\ Bytes(k)' = Bytes(k)
      /\ Total(Keys)' - Bytes(k)' = Total(Keys) - Bytes(k)
  BY <1>1, TotalFollows
<1> QED
  BY <1>2

(* A listing that leaves out nothing with bytes measures them all. *)
LEMMA TotalOfListed ==
  ASSUME TypeOK, NEW listed \in SUBSET Keys, \A k \in Keys \ listed : Bytes(k) = 0
  PROVE  Total(listed) = Total(Keys)
<1>1. IsFiniteSet(Keys)
  BY CacheAssumption DEF CacheAssumption
<1>2. \A k \in Keys : Weights[k] \in Nat
  BY CacheAssumption DEF CacheAssumption, Weights, Bytes
<1>3. \A k \in Keys \ listed : Weights[k] = 0
  BY DEF Weights
<1>4. Sum(Weights, listed) = Sum(Weights, Keys)
  BY <1>1, <1>2, <1>3, SumOfPart
<1> QED
  BY <1>4, TotalIsSum

(* Entries maintenance may still remove. *)
Candidates == maint.left \union (IF maint.pc = "remove" THEN {maint.at} ELSE {})

(* The maintenance lock is held by maintenance from its listing to its end and by the  *)
(* lookup that publishes.  While a maintenance that missed nothing evicts, it knows the *)
(* bytes on disk, all of them and those of each entry it may remove; otherwise the      *)
(* metric does: a listing error gives the lock back without measuring.                  *)
GaugeInv ==
    /\ gauge \in Nat /\ maint.bytes \in Nat
    /\ keeper = Maintenance <=> maint.pc \in {"list", "evict", "remove", "measure"}
    /\ \A t \in Tasks : keeper = t <=> task[t].pc = "rename"
    /\ maint.pc = "remove" => maint.at \notin maint.left
    /\ maint.pc \in {"evict", "remove", "measure"} /\ maint.whole =>
          /\ maint.bytes = Total(Keys)
          /\ \A k \in Candidates : k \in maint.seen <=> file[k] = "ready"
    /\ measured /\ maint.pc \in {"boot", "idle", "list"} => gauge = Total(Keys)

(* A process starts with nothing measured. *)
LEMMA InitGauge == Init => GaugeInv
  BY Constants, CacheAssumption DEF Init, GaugeInv, CacheAssumption

(* What the invariant says of files stays true as long as the files with bytes do. *)
LEMMA BytesStay ==
  ASSUME Inv, Inv', \A k \in Keys : file'[k] = "ready" <=> file[k] = "ready"
  PROVE  Total(Keys)' = Total(Keys)
<1>1. \A k \in Keys : Bytes(k)' = Bytes(k)
  BY DEF Bytes
<1> QED
  BY <1>1, TotalStays DEF Inv

(* A lookup that only waits, looks or generates changes no file that has bytes. *)
LEMMA LookupKeepsGauge ==
  ASSUME Inv, Inv', GaugeInv, NEW t \in Tasks,
         \/ BeginLookup(t) \/ LockKey(t) \/ CheckFile(t) \/ Generate(t)
         \/ LookupError(t) \/ Read(t)
  PROVE  GaugeInv'
<1>1. /\ UNCHANGED <<keeper, maint, gauge, measured>>
      /\ \A u \in Tasks \ {t} : task'[u] = task[u]
      /\ task[t].pc # "rename"
  BY DEF BeginLookup, LockKey, CheckFile, Generate, LookupError, Read, Goto, Leave, Inv, TypeOK
<1>2. task'[t].pc # "rename"
  BY Constants
  DEF BeginLookup, LockKey, CheckFile, Generate, LookupError, Read, Goto, Leave, Inv, TypeOK
<1>3. \A k \in Keys : file'[k] = "ready" <=> file[k] = "ready"
  BY DEF BeginLookup, LockKey, CheckFile, Generate, LookupError, Read, Inv, TypeOK
<1>4. Total(Keys)' = Total(Keys)
  BY <1>3, BytesStay
<1>5. Candidates' = Candidates /\ Candidates \in SUBSET Keys
  BY <1>1 DEF Candidates, Inv, TypeOK
<1> QED
  BY <1>1, <1>2, <1>3, <1>4, <1>5 DEF GaugeInv

(* A good file that is removed by mistake leaves neither the metric nor a maintenance *)
(* under way with a claim to be right.                                                *)
LEMMA MisjudgeKeepsGauge ==
  ASSUME Inv, Inv', GaugeInv, NEW t \in Tasks, MisjudgeFile(t)
  PROVE  GaugeInv'
<1>1. /\ UNCHANGED <<keeper, gauge>> /\ ~measured' /\ ~maint'.whole
      /\ maint'.pc = maint.pc /\ maint'.bytes = maint.bytes
      /\ maint'.at = maint.at /\ maint'.left = maint.left
      /\ \A u \in Tasks \ {t} : task'[u] = task[u]
      /\ task[t].pc # "rename" /\ task'[t].pc # "rename"
  BY DEF MisjudgeFile, Goto, Inv, TypeOK
<1> QED
  BY <1>1 DEF GaugeInv

(* A publisher that has the maintenance lock adds the bytes that were not there before. *)
LEMMA PublishKeepsGauge ==
  ASSUME Inv, Inv', GaugeInv, NEW t \in Tasks,
         LockPublish(t) \/ Publish(t) \/ PublishError(t) \/ PublishUncounted(t)
  PROVE  GaugeInv'
<1>1. t # Nobody /\ t # Maintenance /\ \A u \in Tasks : u # Nobody /\ u # Maintenance
  BY CacheAssumption DEF CacheAssumption
<1>2. CASE LockPublish(t)
  <2>1. /\ UNCHANGED <<file, maint, gauge, measured>> /\ keeper = Nobody /\ keeper' = t
        /\ task'[t].pc = "rename" /\ \A u \in Tasks \ {t} : task'[u] = task[u]
    BY <1>2 DEF LockPublish, Goto, Inv, TypeOK
  <2>2. Total(Keys)' = Total(Keys)
    BY <2>1, BytesStay
  <2>3. maint.pc \in {"boot", "idle"} /\ maint'.pc = maint.pc
    BY <1>1, <2>1 DEF GaugeInv, Inv, TypeOK
  <2>4. \A u \in Tasks : keeper' = u <=> task'[u].pc = "rename"
    BY <1>1, <2>1 DEF GaugeInv
  <2> QED
    BY <1>1, <2>1, <2>2, <2>3, <2>4 DEF GaugeInv
<1>3. ASSUME Publish(t) \/ PublishError(t) \/ PublishUncounted(t)
      PROVE  /\ maint' = maint /\ maint.pc \in {"boot", "idle"}
             /\ keeper = t /\ keeper' = Nobody
             /\ task'[t].pc # "rename" /\ \A u \in Tasks \ {t} : task'[u] = task[u]
  <2>1. /\ task[t].pc = "rename" /\ maint' = maint /\ keeper' = Nobody
        /\ \A u \in Tasks \ {t} : task'[u] = task[u]
    BY <1>3 DEF Publish, PublishError, PublishUncounted, Goto, Leave, Inv, TypeOK
  <2>2. task'[t].pc # "rename"
    BY <1>3, Constants DEF Publish, PublishError, PublishUncounted, Goto, Leave, Inv, TypeOK
  <2> QED
    BY <1>1, <2>1, <2>2 DEF GaugeInv, Inv, TypeOK
<1>4. CASE Publish(t)
  <2>1. PICK k \in Keys :
          /\ file' = [file EXCEPT ![k] = "ready"]
          /\ gauge' = IF file[k] = "ready" THEN gauge ELSE gauge + Size[k]
    BY <1>4 DEF Publish, Inv, TypeOK
  <2>2. /\ Bytes(k)' = Size[k] /\ Bytes(k) = IF file[k] = "ready" THEN Size[k] ELSE 0
        /\ \A m \in Keys \ {k} : Bytes(m)' = Bytes(m)
    BY <2>1 DEF Bytes, Inv, TypeOK
  <2>3. /\ Total(Keys) \in Nat /\ Total(Keys)' \in Nat
        /\ Total(Keys)' - Bytes(k)' = Total(Keys) - Bytes(k)
        /\ Size[k] \in Nat
    BY <2>2, TotalFollows, CacheAssumption DEF Inv, CacheAssumption
  <2>4. gauge' - gauge = Total(Keys)' - Total(Keys) /\ gauge' \in Nat /\ gauge \in Nat
    <3>1. gauge \in Nat
      BY DEF GaugeInv
    <3> QED
      BY <2>1, <2>2, <2>3, <3>1
  <2>5. /\ maint' = maint /\ maint.pc \in {"boot", "idle"} /\ measured' = measured
        /\ keeper' = Nobody /\ task'[t].pc # "rename"
        /\ keeper = t /\ \A u \in Tasks \ {t} : task'[u] = task[u]
    BY <1>3, <1>4 DEF Publish
  <2>6. measured => gauge' = Total(Keys)'
    <3>1. measured => gauge = Total(Keys)
      BY <2>5 DEF GaugeInv
    <3> QED
      BY <2>3, <2>4, <3>1
  <2> QED
    BY <1>1, <2>4, <2>5, <2>6 DEF GaugeInv
<1>5. CASE PublishError(t)
  <2>1. UNCHANGED <<file, gauge, measured>>
    BY <1>5 DEF PublishError
  <2>2. Total(Keys)' = Total(Keys)
    BY <2>1, BytesStay
  <2> QED
    BY <1>1, <1>3, <1>5, <2>1, <2>2 DEF GaugeInv
<1>6. CASE PublishUncounted(t)
  <2>1. gauge' = gauge /\ ~measured'
    BY <1>6 DEF PublishUncounted
  <2> QED
    BY <1>1, <1>3, <1>6, <2>1 DEF GaugeInv
<1> QED
  BY <1>2, <1>4, <1>5, <1>6

(* Maintenance counts what is there, and down with each file that it removes. *)
LEMMA MaintenanceKeepsGauge ==
  ASSUME Inv, Inv', GaugeInv,
         BeginMaintain \/ MaintNext \/ ListError \/ EvictError
  PROVE  GaugeInv'
<1>1. \A u \in Tasks : u # Nobody /\ u # Maintenance
  BY CacheAssumption DEF CacheAssumption
<1>2. ASSUME file' = file PROVE Total(Keys)' = Total(Keys)
  BY <1>2, BytesStay
<1>3. Total(Keys) \in Nat
  BY TotalIsNat DEF Inv
<1>4. CASE BeginMaintain
  <2>1. /\ UNCHANGED <<file, task, gauge, measured>>
        /\ keeper = Nobody /\ keeper' = Maintenance
        /\ maint.pc \in {"boot", "idle"} /\ maint'.pc = "list" /\ maint'.bytes = maint.bytes
    BY <1>4 DEF BeginMaintain, Inv, TypeOK
  <2> QED
    BY <1>1, <1>2, <2>1 DEF GaugeInv
<1>5. CASE ListFiles
  <2>1. PICK skipped \in SUBSET Keys, next \in {"evict", "measure"} :
          LET listed == {k \in Keys : file[k] # "absent"} \ skipped IN
          maint' = [maint EXCEPT !.bytes = Total(listed), !.pc = next, !.left = listed,
                                 !.seen = {k \in listed : file[k] = "ready"},
                                 !.whole = \A k \in skipped : file[k] # "ready"]
    BY <1>5, Listing
  <2> DEFINE listed == {k \in Keys : file[k] # "absent"} \ skipped
             seen == {k \in listed : file[k] = "ready"}
             whole == \A k \in skipped : file[k] # "ready"
  <2>2. maint' = [maint EXCEPT !.bytes = Total(listed), !.pc = next, !.left = listed,
                               !.seen = seen, !.whole = whole]
    BY <2>1
  <2>3. UNCHANGED <<file, task, gauge, measured, keeper>> /\ maint.pc = "list"
    BY <1>5 DEF ListFiles
  <2>4. /\ maint'.bytes = Total(listed) /\ maint'.pc = next /\ maint'.left = listed
        /\ maint'.seen = seen /\ (maint'.whole <=> whole)
    <3> HIDE DEF listed, seen, whole
    <3>1. /\ maint'.bytes = Total(listed) /\ maint'.pc = next /\ maint'.left = listed
          /\ maint'.seen = seen /\ maint'.whole = whole
      BY <2>2 DEF Inv, TypeOK
    <3> QED
      BY <3>1
  <2>5. listed \in SUBSET Keys /\ Total(listed) \in Nat
    BY TotalIsNat DEF Inv
  <2>6. whole => Total(listed) = Total(Keys)
    <3> SUFFICES ASSUME whole PROVE Total(listed) = Total(Keys)
      OBVIOUS
    <3>1. \A k \in Keys \ listed : Bytes(k) = 0
      BY DEF Bytes
    <3> QED
      BY <2>5, <3>1, TotalOfListed DEF Inv
  <2>7. Candidates' = listed /\ \A k \in listed : k \in seen <=> file'[k] = "ready"
    BY <2>3, <2>4 DEF Candidates
  <2> HIDE DEF listed, seen, whole
  <2> QED
    BY <1>2, <2>3, <2>4, <2>5, <2>6, <2>7 DEF GaugeInv
<1>6. CASE ListError
  <2>1. /\ UNCHANGED <<file, task, gauge, measured>>
        /\ keeper' = Nobody /\ maint.pc = "list" /\ maint'.pc = "idle" /\ maint'.bytes = 0
    BY <1>6, Constants DEF ListError
  <2> QED
    BY <1>1, <1>2, <2>1 DEF GaugeInv
<1>7. CASE TryEvict
  <2>1. UNCHANGED <<file, task, gauge, measured, keeper>> /\ maint.pc = "evict"
    BY <1>7 DEF TryEvict
  <2>2. PICK k \in maint.left, lock \in LockIds :
             \/ maint' = [maint EXCEPT !.pc = "remove", !.lock = lock, !.at = k, !.left = @ \ {k}]
             \/ maint' = [maint EXCEPT !.left = @ \ {k}]
    BY <1>7 DEF TryEvict
  <2>3. /\ maint'.pc \in {"evict", "remove"} /\ maint'.bytes = maint.bytes
        /\ maint'.seen = maint.seen /\ maint'.whole = maint.whole
        /\ maint'.left = maint.left \ {k} /\ (maint'.pc = "remove" => maint'.at = k)
    <3>1. CASE maint' = [maint EXCEPT !.pc = "remove", !.lock = lock, !.at = k, !.left = @ \ {k}]
      BY <2>1, <3>1 DEF Inv, TypeOK
    <3>2. CASE maint' = [maint EXCEPT !.left = @ \ {k}]
      BY <2>1, <3>2 DEF Inv, TypeOK
    <3> QED
      BY <2>2, <3>1, <3>2
  <2>4. Candidates' \subseteq Candidates
    BY <2>1, <2>2, <2>3 DEF Candidates
  <2> QED
    BY <1>2, <2>1, <2>3, <2>4 DEF GaugeInv
<1>8. CASE Evict
  <2>k. PICK k \in Keys : k = maint.at
    BY DEF Inv, TypeOK
  <2> DEFINE size == IF k \in maint.seen THEN Size[k] ELSE 0
  <2>1. /\ k = maint.at /\ file' = [file EXCEPT ![k] = "absent"]
        /\ UNCHANGED <<task, gauge, measured, keeper>> /\ maint.pc = "remove"
        /\ maint'.pc = "evict" /\ maint'.bytes = Minus(maint.bytes, size)
        /\ maint'.left = maint.left /\ maint'.seen = maint.seen /\ maint'.whole = maint.whole
    <3>1. /\ maint' = [maint EXCEPT !.pc = "evict", !.lock = NoLock,
                                    !.bytes = Minus(@, size)]
          /\ file' = [file EXCEPT ![k] = "absent"] /\ maint.pc = "remove"
          /\ UNCHANGED <<task, gauge, measured, keeper>>
      BY <1>8, <2>k DEF Evict, Unlock
    <3> HIDE DEF size
    <3> QED
      BY <2>k, <3>1 DEF Inv, TypeOK
  <2>2. size \in Nat
    BY <2>1, CacheAssumption DEF CacheAssumption
  <2>3. Bytes(k)' = 0 /\ \A m \in Keys \ {k} : Bytes(m)' = Bytes(m)
    BY <2>1 DEF Bytes, Inv, TypeOK
  <2>4. /\ Total(Keys)' \in Nat /\ Bytes(k) \in Nat
        /\ Total(Keys)' - Bytes(k)' = Total(Keys) - Bytes(k)
    BY <2>1, <2>3, TotalFollows DEF Inv
  <2>5. maint.whole => size = Bytes(k) /\ maint.bytes = Total(Keys)
    BY <2>1 DEF GaugeInv, Candidates, Bytes
  <2> HIDE DEF size
  <2>6. maint'.bytes \in Nat /\ (maint.whole => maint'.bytes = Total(Keys)')
    <3>1. maint.bytes \in Nat
      BY DEF GaugeInv
    <3> QED
      BY <1>3, <2>1, <2>2, <2>3, <2>4, <2>5, <3>1 DEF Minus
  <2>7. Candidates' = maint.left /\ k \notin maint.left /\ maint.left \subseteq Candidates
        /\ maint.left \in SUBSET Keys
    BY <2>1 DEF Candidates, GaugeInv, Inv, TypeOK
  <2>8. \A m \in maint.left : file'[m] = file[m]
    BY <2>1, <2>7 DEF Inv, TypeOK
  <2> QED
    BY <2>1, <2>6, <2>7, <2>8 DEF GaugeInv
<1>9. CASE EvictError \/ EndEvict
  <2>1. /\ UNCHANGED <<file, task, gauge, measured, keeper>> /\ maint.pc \in {"evict", "remove"}
        /\ maint'.pc \in {"evict", "measure"} /\ maint'.bytes = maint.bytes
        /\ maint'.left = maint.left /\ maint'.seen = maint.seen /\ maint'.whole = maint.whole
    BY <1>9 DEF EvictError, EndEvict, Unlock, Inv, TypeOK
  <2>2. Candidates' \subseteq Candidates
    BY <2>1 DEF Candidates
  <2> QED
    BY <1>2, <2>1, <2>2 DEF GaugeInv
<1>10. CASE EndMaintain
  <2>1. /\ UNCHANGED <<file, task>> /\ gauge' = maint.bytes /\ measured' = maint.whole
        /\ maint.pc = "measure"
        /\ keeper' = Nobody /\ maint'.pc = "idle" /\ maint'.bytes = 0
    BY <1>10, Constants DEF EndMaintain
  <2> QED
    BY <1>1, <1>2, <2>1 DEF GaugeInv
<1> QED
  BY <1>4, <1>5, <1>6, <1>7, <1>8, <1>9, <1>10 DEF MaintNext

LEMMA NextKeepsGauge == Inv /\ Inv' /\ GaugeInv /\ [Next]_vars => GaugeInv'
<1> SUFFICES ASSUME Inv, Inv', GaugeInv, [Next]_vars PROVE GaugeInv'
  OBVIOUS
<1>1. ASSUME NEW t \in Tasks, BeginLookup(t) \/ LookupError(t) \/ MisjudgeFile(t)
                                \/ PublishError(t) \/ PublishUncounted(t) \/ TaskNext(t)
      PROVE  GaugeInv'
  BY <1>1, LookupKeepsGauge, MisjudgeKeepsGauge, PublishKeepsGauge DEF TaskNext
<1>2. CASE BeginMaintain \/ MaintNext \/ ListError \/ EvictError
  BY <1>2, MaintenanceKeepsGauge
<1>3. CASE Crash
  <2>1. /\ \A t \in Tasks : task'[t].pc = "idle"
        /\ keeper' = Nobody /\ gauge' = 0 /\ ~measured'
        /\ maint'.pc = "boot" /\ maint'.bytes = 0
    BY <1>3, Constants DEF Crash
  <2>2. \A u \in Tasks : u # Nobody
    BY CacheAssumption DEF CacheAssumption
  <2> QED
    BY <2>1, <2>2 DEF GaugeInv
<1>4. CASE UNCHANGED vars
  <2>1. UNCHANGED <<file, task, gauge, measured, keeper, maint>>
    BY <1>4 DEF vars
  <2>2. Total(Keys)' = Total(Keys) /\ Candidates' = Candidates
    BY <2>1, BytesStay DEF Candidates
  <2> QED
    BY <2>1, <2>2 DEF GaugeInv
<1> QED
  BY <1>1, <1>2, <1>3, <1>4 DEF Next

(* The metric of the cache's bytes is what is on disk whenever neither maintenance nor a  *)
(* publisher is at it, for any number of files of any size: empty files, failed removals, *)
(* renames and listings, restarts and evictions in any order included.  Only a failed     *)
(* metadata call puts it off, until a maintenance has read everything again.              *)
THEOREM MetricIsExact == Spec => []GaugeIsExact
<1>1. Inv /\ GaugeInv => GaugeIsExact
  <2> SUFFICES ASSUME Inv, GaugeInv, measured, keeper = Nobody PROVE gauge = Total(Keys)
    BY DEF GaugeInv, GaugeIsExact
  <2>1. maint.pc \in {"boot", "idle"}
    BY DEF GaugeInv, Inv, TypeOK
  <2> QED
    BY <2>1 DEF GaugeInv
<1> QED
  BY <1>1, InitOK, NextKeeps, InitGauge, NextKeepsGauge, PTL DEF Spec

===============================================================================
