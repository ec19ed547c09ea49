------------------------------ MODULE SubsetCache ------------------------------
(***************************************************************************)
(* The directory of subset fonts: conversions look a key up under the lock *)
(* of that key, generate a missing file next to it, publish it by a rename *)
(* and read it; maintenance measures the directory, removes old temporary  *)
(* files and evicts files above the quota.  The lock of a key lives in a   *)
(* map of weak references; the maintenance lock is taken by maintenance    *)
(* before it tries key locks, and by a publisher that holds one.           *)
(*                                                                         *)
(* Files survive a crash.  What a key is computed from is not modelled.    *)
(***************************************************************************)
EXTENDS Integers, FiniteSets, FiniteSetsExt

CONSTANTS Tasks,       \* conversions that look fonts up
          Keys,        \* cache keys: fonts and drawings
          Drawings,    \* those of create_draw_font
          Size,        \* Size[k]: bytes of the file of k
          MaxBytes,    \* subset_cache_max_bytes, 0 for no quota
          MaxLookups,  \* bound on lookups
          MaxFaults,   \* bound on failed generations, renames, listings, removals and
                       \* calls that read the metadata of a file
          MaxCrashes

Maintenance == "maintenance"
Nobody      == "nobody"

ASSUME CacheAssumption ==
    /\ IsFiniteSet(Tasks) /\ IsFiniteSet(Keys) /\ Keys # {}
    /\ Maintenance \notin Tasks /\ Nobody \notin Tasks
    /\ Drawings \subseteq Keys
    /\ Size \in [Keys -> Nat \ {0}]
    /\ MaxBytes \in Nat
    /\ MaxLookups \in Nat /\ MaxFaults \in Nat /\ MaxCrashes \in Nat

TargetBytes == (MaxBytes * 90) \div 100   \* CACHE_TARGET_PERCENT

VARIABLES
    file,       \* file[k]: the published file: absent, empty or ready
    orphans,    \* temporary files nobody will remove but maintenance
    task,       \* [pc, key, lock] of each lookup
    table,      \* cache_locks: the lock each key's weak reference points to
    owner,      \* owner[l]: who holds the mutex l
    maint,      \* [pc, left, seen, whole, bytes, lock, at]: the maintenance in progress
    keeper,     \* who holds cache_maintenance_lock
    gauge,      \* the cache_bytes metric
    measured,   \* a maintenance that missed no file set it last, and since then no
                \* failed call has kept a file out of it (a history variable)
    lookups, faults, crashes

locks  == <<table, owner, keeper>>
counts == <<lookups, faults, crashes>>
metric == <<gauge, measured>>
vars   == <<file, orphans, task, locks, maint, metric, counts>>

LockIds     == 1..(Cardinality(Tasks) + 1)
NoLock      == 0

Bytes(k)  == IF file[k] = "ready" THEN Size[k] ELSE 0
Total(ks) == MapThenSumSet(Bytes, ks)

IdleTask  == [pc |-> "idle", key |-> CHOOSE k \in Keys : TRUE, lock |-> NoLock]
(* left: entries to be evicted; seen: those the listing found bytes in; whole: it missed *)
(* no file with bytes, and none has gone behind its back since.                          *)
IdleMaint == [pc |-> "idle", left |-> {}, seen |-> {}, whole |-> FALSE, bytes |-> 0,
              lock |-> NoLock, at |-> CHOOSE k \in Keys : TRUE]

Init ==
    /\ file \in [Keys -> {"absent", "empty", "ready"}]
    /\ orphans = 0
    /\ task = [t \in Tasks |-> IdleTask]
    /\ table = [k \in Keys |-> NoLock]
    /\ owner = [l \in LockIds |-> Nobody]
    /\ maint = [IdleMaint EXCEPT !.pc = "boot"]
    /\ keeper = Nobody
    /\ gauge = 0 /\ measured = FALSE
    /\ lookups = 0 /\ faults = 0 /\ crashes = 0

Fault == faults < MaxFaults /\ faults' = faults + 1 /\ UNCHANGED <<lookups, crashes>>

-------------------------------------------------------------------------------
(* AppState::cache_lock: forget dead references, reuse a live lock, or make a new one. *)

Strong == ({task[t].lock : t \in Tasks} \union {maint.lock}) \ {NoLock}

(* Mutant of CacheLock: a lock that is not locked right now is forgotten. *)
CacheLockAfresh(k, lock) ==
    IF table[k] # NoLock /\ owner[table[k]] # Nobody
    THEN lock = table[k] /\ UNCHANGED table
    ELSE /\ lock = CHOOSE l \in LockIds : l \notin Strong
         /\ table' = [table EXCEPT ![k] = lock]

CacheLock(k, lock) ==
    IF table[k] \in Strong
    THEN lock = table[k] /\ UNCHANGED table
    ELSE /\ lock = CHOOSE l \in LockIds : l \notin Strong
         /\ table' = [m \in Keys |-> IF m = k THEN lock
                                     ELSE IF table[m] \in Strong THEN table[m] ELSE NoLock]

-------------------------------------------------------------------------------
(* subset_candidate and create_draw_font. *)

Goto(t, pc) == task' = [task EXCEPT ![t].pc = pc]

BeginLookup(t) ==
    /\ task[t].pc = "idle"
    /\ maint.pc # "boot"
    /\ lookups < MaxLookups
    /\ lookups' = lookups + 1
    /\ \E k \in Keys : \E lock \in LockIds :
          /\ CacheLock(k, lock)
          /\ task' = [task EXCEPT ![t] = [pc |-> "lock", key |-> k, lock |-> lock]]
    /\ UNCHANGED <<file, orphans, owner, keeper, maint, metric, faults, crashes>>

LockKey(t) ==
    /\ task[t].pc = "lock"
    /\ owner[task[t].lock] = Nobody
    /\ owner' = [owner EXCEPT ![task[t].lock] = t]
    /\ Goto(t, "check")
    /\ UNCHANGED <<file, orphans, table, keeper, maint, metric, counts>>

(* file_is_ready: a hit needs a file that is not empty; an empty one is removed. *)
CheckFile(t) ==
    /\ task[t].pc = "check"
    /\ IF file[task[t].key] = "ready"
       THEN Goto(t, "read") /\ UNCHANGED file
       ELSE Goto(t, "generate") /\ file' = [file EXCEPT ![task[t].key] = "absent"]
    /\ UNCHANGED <<orphans, locks, maint, metric, counts>>

(* A file whose metadata cannot be read is taken for a missing one, and removed.        *)
MisjudgeFile(t) ==
    /\ task[t].pc = "check"
    /\ file[task[t].key] = "ready"
    /\ Fault
    /\ file' = [file EXCEPT ![task[t].key] = "absent"]
    /\ Goto(t, "generate")
    /\ measured' = FALSE
    /\ maint' = [maint EXCEPT !.whole = FALSE]
    /\ UNCHANGED <<orphans, locks, gauge>>

Generate(t) ==
    /\ task[t].pc = "generate"
    /\ Goto(t, "publish")
    /\ UNCHANGED <<file, orphans, locks, maint, metric, counts>>

(* The guard and the reference to the lock are dropped with the future. *)
Leave(t) ==
    /\ owner' = [owner EXCEPT ![task[t].lock] = Nobody]
    /\ task' = [task EXCEPT ![t] = IdleTask]

(* The directory or an old file cannot be handled, the generation fails, or the reading. *)
LookupError(t) ==
    /\ task[t].pc \in {"check", "generate", "read"}
    /\ Fault
    /\ Leave(t)
    /\ UNCHANGED <<file, orphans, table, keeper, maint, metric>>

(* Mutant of LockPublish: publishes while maintenance counts. *)
LockPublishAnyway(t) ==
    /\ task[t].pc = "publish"
    /\ keeper' = t
    /\ Goto(t, "rename")
    /\ UNCHANGED <<file, orphans, table, owner, maint, metric, counts>>

LockPublish(t) ==
    /\ task[t].pc = "publish"
    /\ keeper = Nobody
    /\ keeper' = t
    /\ Goto(t, "rename")
    /\ UNCHANGED <<file, orphans, table, owner, maint, metric, counts>>

(* The key's lock and the removal before the generation make sure that the file is not   *)
(* there yet (existed, asked first).                                                     *)
Publish(t) ==
    /\ task[t].pc = "rename"
    /\ LET k == task[t].key IN
          /\ file' = [file EXCEPT ![k] = "ready"]
          /\ gauge' = IF file[k] = "ready" THEN gauge ELSE gauge + Size[k]
    /\ keeper' = Nobody
    /\ Goto(t, "read")
    /\ UNCHANGED <<orphans, table, owner, maint, measured, counts>>

(* Fonts remove their temporary file, drawings leave it. *)
PublishError(t) ==
    /\ task[t].pc = "rename"
    /\ Fault
    /\ orphans' = IF task[t].key \in Drawings THEN orphans + 1 ELSE orphans
    /\ keeper' = Nobody
    /\ Leave(t)
    /\ UNCHANGED <<file, table, maint, metric>>

(* The file is in place, but its size cannot be read: the job fails, nothing is counted. *)
PublishUncounted(t) ==
    /\ task[t].pc = "rename"
    /\ Fault
    /\ file' = [file EXCEPT ![task[t].key] = "ready"]
    /\ measured' = FALSE
    /\ keeper' = Nobody
    /\ Leave(t)
    /\ UNCHANGED <<orphans, table, maint, gauge>>

(* read_and_touch: the file must still be there. *)
Read(t) ==
    /\ task[t].pc = "read"
    /\ file[task[t].key] = "ready"
    /\ Leave(t)
    /\ UNCHANGED <<file, orphans, table, keeper, maint, metric, counts>>

-------------------------------------------------------------------------------
(* maintain: at the start of the process, then every half hour. *)

BeginMaintain ==
    /\ maint.pc \in {"boot", "idle"}
    /\ keeper = Nobody            \* try_lock, or the run is deferred
    /\ keeper' = Maintenance
    /\ maint' = [maint EXCEPT !.pc = "list"]
    /\ UNCHANGED <<file, orphans, task, table, owner, metric, counts>>

(* Temporary files older than a day go; no generation takes that long.  An entry whose   *)
(* metadata cannot be read is skipped, its bytes go uncounted.                           *)
ListFiles ==
    /\ maint.pc = "list"
    /\ orphans' \in {n \in 0..orphans : n = 0 \/ n = orphans}
    /\ \E skipped \in SUBSET {k \in Keys : file[k] # "absent"} :
          /\ IF skipped = {} THEN UNCHANGED counts ELSE Fault
          /\ LET listed == {k \in Keys : file[k] # "absent"} \ skipped IN
                maint' = [maint EXCEPT !.bytes = Total(listed),
                             !.pc = IF MaxBytes > 0 /\ Total(listed) > MaxBytes
                                    THEN "evict" ELSE "measure",
                             !.left = listed,
                             !.seen = {k \in listed : file[k] = "ready"},
                             !.whole = \A k \in skipped : file[k] # "ready"]
    /\ UNCHANGED <<file, task, locks, metric>>

ListError ==
    /\ maint.pc = "list"
    /\ Fault
    /\ maint' = IdleMaint
    /\ keeper' = Nobody
    /\ UNCHANGED <<file, orphans, task, table, owner, metric>>

(* Mutant of TryEvict: a busy key is evicted too. *)
EvictBusy ==
    /\ maint.pc = "evict"
    /\ maint.bytes > TargetBytes
    /\ \E k \in maint.left :
          maint' = [maint EXCEPT !.pc = "remove", !.at = k, !.left = @ \ {k}]
    /\ UNCHANGED <<file, orphans, task, locks, metric, counts>>

(* Mutant of TryEvict: waits for the lock of a busy key. *)
EvictWaiting ==
    /\ maint.pc = "evict"
    /\ maint.bytes > TargetBytes /\ maint.left # {}
    /\ LET k == CHOOSE k \in maint.left : TRUE IN
          \E lock \in LockIds :
             /\ CacheLock(k, lock)
             /\ owner[lock] = Nobody
             /\ owner' = [owner EXCEPT ![lock] = Maintenance]
             /\ maint' = [maint EXCEPT !.pc = "remove", !.lock = lock, !.at = k,
                                       !.left = @ \ {k}]
    /\ UNCHANGED <<file, orphans, task, keeper, metric, counts>>

(* The least recently used entry next (the model takes any); a busy key is passed over. *)
TryEvict ==
    /\ maint.pc = "evict"
    /\ maint.bytes > TargetBytes
    /\ \E k \in maint.left : \E lock \in LockIds :
          /\ CacheLock(k, lock)
          /\ IF owner[lock] = Nobody
             THEN /\ owner' = [owner EXCEPT ![lock] = Maintenance]
                  /\ maint' = [maint EXCEPT !.pc = "remove", !.lock = lock, !.at = k,
                                            !.left = @ \ {k}]
             ELSE maint' = [maint EXCEPT !.left = @ \ {k}] /\ UNCHANGED owner
    /\ UNCHANGED <<file, orphans, task, keeper, metric, counts>>

Unlock == /\ owner' = [owner EXCEPT ![maint.lock] = Nobody]
          /\ UNCHANGED <<table, keeper>>

Minus(a, b) == IF a > b THEN a - b ELSE 0   \* saturating_sub

(* The size is the listed one, also when the file has gone in the meantime. *)
Evict ==
    /\ maint.pc = "remove"
    /\ file' = [file EXCEPT ![maint.at] = "absent"]
    /\ LET listed == IF maint.at \in maint.seen THEN Size[maint.at] ELSE 0 IN
          maint' = [maint EXCEPT !.pc = "evict", !.lock = NoLock, !.bytes = Minus(@, listed)]
    /\ Unlock
    /\ UNCHANGED <<orphans, task, metric, counts>>

EvictError ==
    /\ maint.pc = "remove"
    /\ Fault
    /\ maint' = [maint EXCEPT !.pc = "evict", !.lock = NoLock]
    /\ Unlock
    /\ UNCHANGED <<file, orphans, task, metric>>

EndEvict ==
    /\ maint.pc = "evict"
    /\ maint.bytes <= TargetBytes \/ maint.left = {}
    /\ maint' = [maint EXCEPT !.pc = "measure"]
    /\ UNCHANGED <<file, orphans, task, locks, metric, counts>>

EndMaintain ==
    /\ maint.pc = "measure"
    /\ gauge' = maint.bytes
    /\ measured' = maint.whole
    /\ keeper' = Nobody
    /\ maint' = IdleMaint
    /\ UNCHANGED <<file, orphans, task, table, owner, counts>>

(* Locks are gone, files stay; one whose data had not reached the disk is empty, and *)
(* generations under way leave their temporary file.                                 *)
Crash ==
    /\ crashes < MaxCrashes
    /\ crashes' = crashes + 1
    /\ \E lost \in SUBSET {k \in Keys : file[k] = "ready"} :
          file' = [k \in Keys |-> IF k \in lost THEN "empty" ELSE file[k]]
    /\ orphans' = orphans + Cardinality({t \in Tasks : task[t].pc \in {"publish", "rename"}})
    /\ task' = [t \in Tasks |-> IdleTask]
    /\ table' = [k \in Keys |-> NoLock]
    /\ owner' = [l \in LockIds |-> Nobody]
    /\ maint' = [IdleMaint EXCEPT !.pc = "boot"]
    /\ keeper' = Nobody
    /\ gauge' = 0 /\ measured' = FALSE
    /\ UNCHANGED <<lookups, faults>>

-------------------------------------------------------------------------------
TaskNext(t) ==
    \/ LockKey(t) \/ CheckFile(t) \/ Generate(t) \/ LockPublish(t) \/ Publish(t) \/ Read(t)

MaintNext ==
    \/ ListFiles \/ TryEvict \/ Evict \/ EndEvict \/ EndMaintain

Next ==
    \/ \E t \in Tasks : BeginLookup(t) \/ LookupError(t) \/ MisjudgeFile(t)
                       \/ PublishError(t) \/ PublishUncounted(t)
    \/ \E t \in Tasks : TaskNext(t)
    \/ BeginMaintain \/ MaintNext \/ ListError \/ EvictError
    \/ Crash

(* Tasks and maintenance run; both mutexes hand themselves over in FIFO order, where *)
(* the model lets any waiter win, hence strong fairness.                             *)
Fairness ==
    /\ \A t \in Tasks : WF_vars(TaskNext(t)) /\ SF_vars(LockKey(t)) /\ SF_vars(LockPublish(t))
    /\ WF_vars(MaintNext)

Spec     == Init /\ [][Next]_vars
LiveSpec == Spec /\ Fairness

-------------------------------------------------------------------------------
(* Properties. *)

Working == {t \in Tasks : task[t].pc \in {"check", "generate", "publish", "rename", "read"}}

TypeOK ==
    /\ file \in [Keys -> {"absent", "empty", "ready"}]
    /\ orphans \in Nat
    /\ task \in [Tasks -> [pc : {"idle", "lock", "check", "generate", "publish", "rename",
                                 "read"}, key : Keys, lock : LockIds \union {NoLock}]]
    /\ table \in [Keys -> LockIds \union {NoLock}]
    /\ owner \in [LockIds -> Tasks \union {Maintenance, Nobody}]
    /\ maint \in [pc : {"boot", "idle", "list", "evict", "remove", "measure"},
                  left : SUBSET Keys, seen : SUBSET Keys, whole : BOOLEAN, bytes : {maint.bytes},
                  lock : LockIds \union {NoLock}, at : Keys]
    /\ keeper \in Tasks \union {Maintenance, Nobody}
    /\ measured \in BOOLEAN

(* The weak reference of a key points to the lock of whoever deals with the key, no two    *)
(* keys share a lock, and a mutex is held exactly by a lookup at work or an eviction.      *)
LocksFit ==
    /\ \A k, m \in Keys : table[k] = table[m] /\ table[k] # NoLock => k = m
    /\ \A t \in Tasks : IF task[t].pc = "idle" THEN task[t].lock = NoLock
                       ELSE task[t].lock # NoLock /\ table[task[t].key] = task[t].lock
    /\ IF maint.pc = "remove" THEN maint.lock # NoLock /\ table[maint.at] = maint.lock
       ELSE maint.lock = NoLock
    /\ \A t \in Tasks : \A l \in LockIds :
          owner[l] = t <=> t \in Working /\ task[t].lock = l
    /\ \A l \in LockIds : owner[l] = Maintenance <=> maint.lock = l

(* One key is worked on by one conversion at a time, and never evicted meanwhile: the map *)
(* of weak references hands the same lock to everybody while somebody has it.             *)
ExclusiveKey ==
    /\ \A t, u \in Working : t # u => task[t].key # task[u].key
    /\ maint.pc = "remove" => \A t \in Working : task[t].key # maint.at

(* The invariant of the locks (cache_lock and its guards): types, owners and exclusion.  *)
CacheInv == TypeOK /\ LocksFit /\ ExclusiveKey

(* A file that was found or published is still there when it is read: eviction cannot    *)
(* come between (subset_candidate would fail the job otherwise).                         *)
ReadFindsFile == \A t \in Tasks : task[t].pc = "read" => file[task[t].key] = "ready"

(* Between maintenance runs and publications the metric equals the bytes on disk,        *)
(* although files come, go and turn out to be empty under different locks, and removals, *)
(* renames and whole listings fail.  It is off only after a file's metadata could not be *)
(* read in one of three places (an entry of the listing, a lookup that then removes a    *)
(* good file, a publisher that then counts nothing), and the next maintenance that reads *)
(* everything puts it right.                                                             *)
GaugeIsExact ==
    /\ gauge \in Nat /\ maint.bytes \in Nat
    /\ measured /\ keeper = Nobody => gauge = Total(Keys)

(* Every lookup comes to an end: publishers hold a key lock and wait for the maintenance *)
(* lock, maintenance holds that one and only tries key locks.                            *)
LookupsEnd == \A t \in Tasks : (task[t].pc = "lock") ~> (task[t].pc = "idle")
===============================================================================
