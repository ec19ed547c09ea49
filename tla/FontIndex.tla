------------------------------- MODULE FontIndex -------------------------------
(***************************************************************************)
(* The index of font files: a rebuild compares the font directories with   *)
(* the rows it loaded, inspects what is new or changed, writes the results *)
(* in batches, prunes what is gone, and counts the index revision up.      *)
(* Conversions look a name up meanwhile, memoise the hash of the font they *)
(* take in its row, and record the revision they started under: a subtitle *)
(* that lacked a font is tried again under another revision.               *)
(*                                                                         *)
(* Files are written by others.  Each write gives a file another stamp,    *)
(* which stands for its size and mtime.                                    *)
(***************************************************************************)
EXTENDS Integers, Sequences, FiniteSets

CONSTANTS Paths,        \* paths of font files
          Roots,        \* Roots[r]: paths below the font directory r; they may overlap
          Contents,     \* what a font file may hold
          Names,        \* font names
          Provides,     \* Provides[c]: names of the faces of content c
          Unreadable,   \* contents no inspection understands
          Subtitles,
          Wanted,       \* Wanted[s]: the font that subtitle s uses
          Batch,        \* INDEX_WRITE_BATCH_SIZE, and the size of a prune statement
          MaxRebuilds, MaxJobs,   \* bounds
          MaxEvents     \* bound on writes, errors and crashes together

ASSUME IndexAssumption ==
    /\ IsFiniteSet(Paths)
    /\ Roots \in Seq(SUBSET Paths)
    /\ Provides \in [Contents -> SUBSET Names] /\ Unreadable \subseteq Contents
    /\ Wanted \in [Subtitles -> Names]
    /\ Batch \in Nat \ {0}
    /\ {MaxRebuilds, MaxJobs, MaxEvents} \subseteq Nat

VARIABLES
    disk,              \* disk[p]: the file at p
    row,               \* font_files and their faces, by path
    nextId,            \* AUTOINCREMENT
    revision, saved,   \* font_index_revision, in memory and in runtime_settings
    index,             \* the rebuild
    job,               \* job[s]: the conversion of subtitle s
    result,            \* result[s]: last_status and last_font_index_revision
    writes, rebuilds, jobs, faults,  \* bounded counters
    dirty, broken,     \* history: rows changed after the revision did; and the rebuild failed
    reverted,          \* history: a crash lost a revision that had been used
    calm, gone         \* history: since the rebuild began, no fault and no write; absent paths

rows    == <<row, nextId>>
counts  == <<writes, rebuilds, jobs, faults>>
history == <<dirty, broken, reverted, calm, gone>>
vars    == <<disk, rows, revision, saved, index, job, result, counts, history>>

Absent == [content |-> "none", stamp |-> -1]
NoRow  == [id |-> 0, stamp |-> -1, ok |-> FALSE, faces |-> {}, hash |-> <<>>]
NoHash == <<>>   \* full_hash = ''; a hash names the path and stamp of what was hashed

IdleIndex == [pc |-> "off", existing |-> [p \in Paths |-> NoRow], root |-> 1, todo |-> {},
              complete |-> TRUE, seen |-> {}, changed |-> {}, results |-> {}, trusted |-> {},
              touched |-> FALSE, outcome |-> "none"]
IdleJob   == [pc |-> "idle", rev |-> 0, path |-> CHOOSE p \in Paths : TRUE, id |-> 0,
              read |-> NoHash]

(* What a rebuild of an earlier run of the service left, which nothing has disturbed. *)
Indexed ==
    LET found == {p \in UNION {Roots[r] : r \in DOMAIN Roots} : disk[p] # Absent} IN
    \E id \in [found -> 1..Cardinality(found)] :
       /\ \A p, q \in found : id[p] = id[q] => p = q
       /\ row = [p \in Paths |->
             IF p \notin found THEN NoRow
             ELSE LET ok == disk[p].content \notin Unreadable IN
                  [id |-> id[p], stamp |-> disk[p].stamp, ok |-> ok,
                   faces |-> IF ok THEN Provides[disk[p].content] ELSE {}, hash |-> NoHash]]
       /\ nextId = Cardinality(found) + 1

Init ==
    /\ disk \in [Paths -> {Absent} \union {[content |-> c, stamp |-> 0] : c \in Contents}]
    /\ \/ row = [p \in Paths |-> NoRow] /\ nextId = 1
       \/ Indexed
    /\ revision = 0 /\ saved = 0
    /\ index = IdleIndex
    /\ job = [s \in Subtitles |-> IdleJob]
    /\ result = [s \in Subtitles |-> [status |-> "none", rev |-> 0]]
    /\ writes = 0 /\ rebuilds = 0 /\ jobs = 0 /\ faults = 0
    /\ dirty = FALSE /\ broken = FALSE /\ reverted = FALSE /\ calm = FALSE /\ gone = {}

Fault == /\ writes + faults < MaxEvents
         /\ faults' = faults + 1
         /\ calm' = FALSE
         /\ UNCHANGED <<writes, rebuilds, jobs, gone>>

Steady == UNCHANGED <<counts, calm, gone>>

-------------------------------------------------------------------------------
(* Somebody adds, replaces or removes a font file. *)

WriteDisk ==
    /\ writes + faults < MaxEvents
    /\ writes' = writes + 1
    /\ calm' = FALSE
    /\ \E p \in Paths :
          \E file \in {Absent} \union {[content |-> c, stamp |-> writes'] : c \in Contents} :
             /\ disk' = [disk EXCEPT ![p] = file]
             /\ gone' = IF file = Absent THEN gone \union {p} ELSE gone
    /\ UNCHANGED <<rows, revision, saved, index, job, result, rebuilds, jobs, faults,
                   dirty, broken, reverted>>

-------------------------------------------------------------------------------
(* rebuild_index_reserved, under the guard of index_running. *)

StartRebuild ==
    /\ index.pc = "off"
    /\ rebuilds < MaxRebuilds
    /\ rebuilds' = rebuilds + 1
    /\ index' = [IdleIndex EXCEPT !.pc = "walk", !.existing = row,
                                  !.todo = IF Roots = <<>> THEN {} ELSE Roots[1]]
    /\ calm' = TRUE /\ gone' = {p \in Paths : disk[p] = Absent}
    /\ UNCHANGED <<disk, rows, revision, saved, job, result, writes, jobs, faults,
                   dirty, broken, reverted>>

(* Mutant of Unchanged: a row in error is not looked at again. *)
UnchangedAnyStatus(p) ==
    index.existing[p] # NoRow /\ index.existing[p].stamp = disk[p].stamp

Unchanged(p) ==
    /\ index.existing[p] # NoRow
    /\ index.existing[p].stamp = disk[p].stamp
    /\ index.existing[p].ok

(* One entry of the walk: files already seen and unchanged ones are skipped.  (The thread *)
(* read the stamp up to 256 entries earlier: the same as a write that comes after it.)   *)
Visit(p) ==
    /\ index.pc = "walk" /\ p \in index.todo
    /\ LET next == [index EXCEPT !.todo = @ \ {p}]
           met  == [next EXCEPT !.seen = @ \union {p}]
           meta == [path |-> p, stamp |-> disk[p].stamp, id |-> index.existing[p].id]
           grown == [met EXCEPT !.changed = @ \union {meta}]
       IN index' = IF disk[p] = Absent \/ p \in index.seen THEN next
                   ELSE IF Unchanged(p) THEN met
                   ELSE [grown EXCEPT
                            !.pc = IF Cardinality(grown.changed) >= Batch
                                   THEN "inspect" ELSE "walk"]
    /\ Steady
    /\ UNCHANGED <<disk, rows, revision, saved, job, result, dirty, broken, reverted>>

(* A root that is no directory, or entries that cannot be read: they are not visited. *)
WalkError ==
    /\ index.pc = "walk" /\ index.todo # {}
    /\ Fault
    /\ \E lost \in SUBSET index.todo :
          index' = [index EXCEPT !.todo = @ \ lost, !.complete = FALSE, !.touched = TRUE]
    /\ UNCHANGED <<disk, rows, revision, saved, job, result, dirty, broken, reverted>>

(* Mutant of EndRoot: every root counts as scanned. *)
EndAnyRoot ==
    /\ index.pc = "walk" /\ index.todo = {} /\ index.root <= Len(Roots)
    /\ index' = [index EXCEPT
                    !.trusted = @ \union {index.root},
                    !.root = @ + 1, !.complete = TRUE,
                    !.todo = IF index.root < Len(Roots) THEN Roots[index.root + 1] ELSE {}]
    /\ Steady
    /\ UNCHANGED <<disk, rows, revision, saved, job, result, dirty, broken, reverted>>

(* trusted: authoritative_roots. *)
EndRoot ==
    /\ index.pc = "walk" /\ index.todo = {} /\ index.root <= Len(Roots)
    /\ index' = [index EXCEPT
                    !.trusted = IF index.complete THEN @ \union {index.root} ELSE @,
                    !.root = @ + 1, !.complete = TRUE,
                    !.todo = IF index.root < Len(Roots) THEN Roots[index.root + 1] ELSE {}]
    /\ Steady
    /\ UNCHANGED <<disk, rows, revision, saved, job, result, dirty, broken, reverted>>

EndWalk ==
    /\ index.pc = "walk" /\ index.root > Len(Roots)
    /\ index' = [index EXCEPT !.pc = "inspect"]
    /\ Steady
    /\ UNCHANGED <<disk, rows, revision, saved, job, result, dirty, broken, reverted>>

Found(meta, faces) == [index EXCEPT !.changed = @ \ {meta}, !.touched = TRUE,
                          !.results = @ \union {[meta |-> meta, ok |-> TRUE, faces |-> faces]}]
Failed(meta)       == [index EXCEPT !.changed = @ \ {meta}, !.touched = TRUE,
                          !.results = @ \union {[meta |-> meta, ok |-> FALSE, faces |-> {}]}]

(* The file is read now, with the metadata of the walk. *)
Inspect(meta) ==
    /\ index.pc = "inspect" /\ meta \in index.changed
    /\ LET file == disk[meta.path] IN
          index' = IF file = Absent \/ file.content \in Unreadable THEN Failed(meta)
                   ELSE Found(meta, Provides[file.content])
    /\ Steady
    /\ UNCHANGED <<disk, rows, revision, saved, job, result, dirty, broken, reverted>>

(* Both inspections fail, or the task itself: then no result is written. *)
InspectError(meta) ==
    /\ index.pc = "inspect" /\ meta \in index.changed
    /\ Fault
    /\ \/ index' = Failed(meta)
       \/ index' = [index EXCEPT !.changed = @ \ {meta}, !.touched = TRUE]
    /\ UNCHANGED <<disk, rows, revision, saved, job, result, dirty, broken, reverted>>

AfterWrite == IF index.root > Len(Roots) THEN "prune" ELSE "walk"

(* Without AUTOINCREMENT: mutant of FirstId. *)
FirstIdReused == 1 + (CHOOSE i \in {row[p].id : p \in Paths} : \A p \in Paths : row[p].id <= i)

FirstId == nextId

(* Mutant of NewRow: the file is looked at once more for its metadata. *)
NewRowFreshStamp(r, id) == [id |-> id, stamp |-> disk[r.meta.path].stamp, ok |-> r.ok,
                            faces |-> r.faces, hash |-> NoHash]

NewRow(r, id) == [id |-> id, stamp |-> r.meta.stamp, ok |-> r.ok, faces |-> r.faces,
                  hash |-> NoHash]

(* write_index_results, one transaction: rows are updated by id or inserted. *)
WriteResults ==
    /\ index.pc = "inspect" /\ index.changed = {}
    /\ LET fresh == {r \in index.results : r.meta.id = 0}
           At(p) == {r \in index.results : r.meta.path = p}
       IN \E id \in [fresh -> FirstId..(FirstId + Cardinality(fresh) - 1)] :
             /\ \A r, t \in fresh : id[r] = id[t] => r = t
             /\ nextId' = FirstId + Cardinality(fresh)
             /\ row' = [p \in Paths |->
                   IF At(p) = {} THEN row[p]
                   ELSE LET r == CHOOSE r \in At(p) : TRUE IN
                        NewRow(r, IF r \in fresh THEN id[r] ELSE r.meta.id)]
    /\ dirty' = (dirty \/ index.results # {})
    /\ index' = [index EXCEPT !.pc = AfterWrite, !.results = {}]
    /\ Steady
    /\ UNCHANGED <<disk, revision, saved, job, result, broken, reverted>>

Stale == {p \in Paths : /\ index.existing[p] # NoRow /\ row[p] # NoRow
                        /\ p \notin index.seen
                        /\ \E r \in index.trusted : p \in Roots[r]}

(* prune_stale_fonts: one DELETE for each chunk of ids. *)
Prune ==
    /\ index.pc = "prune" /\ Stale # {}
    /\ \E chunk \in SUBSET Stale :
          /\ Cardinality(chunk) = (IF Cardinality(Stale) < Batch THEN Cardinality(Stale)
                                   ELSE Batch)
          /\ row' = [p \in Paths |-> IF p \in chunk THEN NoRow ELSE row[p]]
    /\ index' = [index EXCEPT !.touched = TRUE]
    /\ dirty' = TRUE
    /\ Steady
    /\ UNCHANGED <<disk, nextId, revision, saved, job, result, broken, reverted>>

EndPrune ==
    /\ index.pc = "prune" /\ Stale = {}
    /\ index' = IF index.touched THEN [index EXCEPT !.pc = "bump"]
                ELSE [IdleIndex EXCEPT !.outcome = "ok"]
    /\ Steady
    /\ UNCHANGED <<disk, rows, revision, saved, job, result, dirty, broken, reverted>>

(* bump_font_index_revision: memory first, then runtime_settings. *)
BumpRevision ==
    /\ index.pc = "bump"
    /\ revision' = revision + 1
    /\ dirty' = FALSE /\ broken' = FALSE
    /\ index' = [index EXCEPT !.pc = "save"]
    /\ Steady
    /\ UNCHANGED <<disk, rows, saved, job, result, reverted>>

SaveRevision ==
    /\ index.pc = "save"
    /\ saved' = revision
    /\ index' = [IdleIndex EXCEPT !.outcome = "ok"]
    /\ Steady
    /\ UNCHANGED <<disk, rows, revision, job, result, dirty, broken, reverted>>

(* A database error leaves the rebuild wherever it is (loading the rows, writing a       *)
(* batch, pruning, saving), and so does a walking thread that died; the guard is dropped. *)
RebuildError ==
    /\ \/ index.pc = "walk"
       \/ index.pc = "inspect" /\ index.changed = {}
       \/ index.pc = "prune" /\ Stale # {}
       \/ index.pc = "save"
    /\ Fault
    /\ index' = [IdleIndex EXCEPT !.outcome = "failed"]
    /\ broken' = (broken \/ dirty)
    /\ UNCHANGED <<disk, rows, revision, saved, job, result, dirty, reverted>>

-------------------------------------------------------------------------------
(* A conversion, as far as it uses the index. *)

Step(s, next) == job' = [job EXCEPT ![s] = next]
OfJob == UNCHANGED <<disk, nextId, revision, saved, index, history>>

StartJob(s) ==
    /\ job[s].pc = "idle"
    /\ jobs < MaxJobs
    /\ jobs' = jobs + 1
    /\ Step(s, [IdleJob EXCEPT !.pc = "query", !.rev = revision])
    /\ UNCHANGED <<row, result, writes, rebuilds, faults>>
    /\ OfJob

(* Mutant of Settle: the revision is read when the row is written. *)
SettleLate(s, status) ==
    /\ result' = [result EXCEPT ![s] = [status |-> status, rev |-> revision]]
    /\ Step(s, IdleJob)

Settle(s, status) ==
    /\ result' = [result EXCEPT ![s] = [status |-> status, rev |-> job[s].rev]]
    /\ Step(s, IdleJob)

Candidates(name) == {p \in Paths : row[p] # NoRow /\ row[p].ok /\ name \in row[p].faces}

(* query_candidates: any of them stands for the choice by weight and slant. *)
QueryFont(s) ==
    /\ job[s].pc = "query"
    /\ IF Candidates(Wanted[s]) = {}
       THEN Step(s, [job[s] EXCEPT !.pc = "lacking"])
       ELSE \E p \in Candidates(Wanted[s]) :
               Step(s, [job[s] EXCEPT !.path = p, !.id = row[p].id,
                           !.pc = IF row[p].hash # NoHash THEN "subset" ELSE "memo"])
    /\ UNCHANGED <<row, result, counts>>
    /\ OfJob

(* ensure_candidate_full_hash, under the lock font-hash:id. *)
LookMemo(s) ==
    /\ job[s].pc = "memo"
    /\ \A t \in Subtitles : job[t].pc \in {"hash", "store"} => job[t].id # job[s].id
    /\ LET memo == {p \in Paths : row[p].id = job[s].id /\ row[p].hash # NoHash} IN
          Step(s, [job[s] EXCEPT !.pc = IF memo # {} THEN "subset" ELSE "hash"])
    /\ UNCHANGED <<row, result, counts>>
    /\ OfJob

HashFile(s) ==
    /\ job[s].pc = "hash"
    /\ disk[job[s].path] # Absent
    /\ Step(s, [job[s] EXCEPT !.pc = "store", !.read = <<job[s].path, disk[job[s].path].stamp>>])
    /\ UNCHANGED <<row, result, counts>>
    /\ OfJob

(* UPDATE font_files SET full_hash = ? WHERE id = ? AND full_hash = ''. *)
StoreMemo(s) ==
    /\ job[s].pc = "store"
    /\ row' = [p \in Paths |-> IF row[p].id = job[s].id /\ row[p].hash = NoHash
                               THEN [row[p] EXCEPT !.hash = job[s].read] ELSE row[p]]
    /\ Step(s, [job[s] EXCEPT !.pc = "subset"])
    /\ UNCHANGED <<result, counts>>
    /\ OfJob

(* Subsetting the font is the matter of SubsetCache. *)
SettleJob(s) ==
    /\ \/ job[s].pc = "lacking" /\ Settle(s, "partial")
       \/ job[s].pc = "subset" /\ Settle(s, "success")
    /\ UNCHANGED <<row, counts>>
    /\ OfJob

(* The font file is gone or the worker fails: fail_job keeps the recorded revision. *)
JobError(s) ==
    /\ \/ job[s].pc = "hash" /\ disk[job[s].path] = Absent
       \/ job[s].pc = "subset"
    /\ result' = [result EXCEPT ![s].status = "failed"]
    /\ Step(s, IdleJob)
    /\ UNCHANGED <<row, counts>>
    /\ OfJob

-------------------------------------------------------------------------------
(* The process dies and loads its settings again; transactions are atomic. *)
Crash ==
    /\ Fault
    /\ revision' = saved
    /\ reverted' = (reverted \/ revision # saved)
    /\ broken' = (broken \/ dirty)
    /\ index' = IdleIndex
    /\ job' = [s \in Subtitles |-> IdleJob]
    /\ UNCHANGED <<disk, rows, saved, result, dirty>>

RebuildNext ==
    \/ StartRebuild \/ WalkError \/ EndRoot \/ EndWalk \/ WriteResults
    \/ Prune \/ EndPrune \/ BumpRevision \/ SaveRevision \/ RebuildError
    \/ \E p \in Paths : Visit(p)
    \/ \E meta \in index.changed : Inspect(meta) \/ InspectError(meta)

JobNext(s) ==
    \/ StartJob(s) \/ QueryFont(s) \/ LookMemo(s) \/ HashFile(s) \/ StoreMemo(s)
    \/ SettleJob(s) \/ JobError(s)

Next == WriteDisk \/ RebuildNext \/ (\E s \in Subtitles : JobNext(s)) \/ Crash

Spec == Init /\ [][Next]_vars

-------------------------------------------------------------------------------
(* Properties. *)

Rows  == [id : Nat, stamp : Int, ok : BOOLEAN, faces : SUBSET Names,
          hash : {NoHash} \union (Paths \X Nat)]
Metas == [path : Paths, stamp : Nat, id : Nat]

(* Types; ids are never shared, faces belong to readable files, a batch has its limit. *)
TypeOK ==
    /\ disk \in [Paths -> {Absent} \union [content : Contents, stamp : Nat]]
    /\ row \in [Paths -> Rows] /\ nextId \in Nat
    /\ \A p \in Paths : row[p].id < nextId /\ (row[p].id = 0 <=> row[p] = NoRow)
    /\ \A p, q \in Paths : p # q /\ row[p] # NoRow => row[p].id # row[q].id
    /\ \A p \in Paths : row[p].faces # {} => row[p].ok
    /\ {revision, saved, writes, rebuilds, jobs, faults} \subseteq Nat
    /\ index.pc \in {"off", "walk", "inspect", "prune", "bump", "save"}
    /\ index.existing \in [Paths -> Rows]
    /\ index.changed \subseteq Metas /\ Cardinality(index.changed) <= Batch
    /\ \A r \in index.results : r.meta \in Metas /\ r.faces \subseteq Names
    /\ index.seen \subseteq Paths /\ index.trusted \subseteq DOMAIN Roots
    /\ \A s \in Subtitles :
          /\ job[s].pc \in {"idle", "query", "lacking", "memo", "hash", "store", "subset"}
          /\ result[s].status \in {"none", "partial", "success", "failed"}

(* What the next rebuild would skip is described truly: a row whose size and mtime are   *)
(* the file's has the file's names, although files change between walk and inspection.   *)
RowsAreTruthful ==
    \A p \in Paths :
        row[p] # NoRow /\ row[p].ok /\ disk[p] # Absent /\ row[p].stamp = disk[p].stamp =>
            row[p].faces = Provides[disk[p].content]

(* A rebuild that succeeds, with nobody writing and nothing failing, leaves an index that *)
(* agrees with the directories, whatever rows earlier errors, crashes and writes left.    *)
IndexMatchesDisk ==
    calm /\ index.outcome = "ok" =>
        \A p \in UNION {Roots[r] : r \in DOMAIN Roots} :
            LET file == disk[p] IN
            /\ file = Absent <=> row[p] = NoRow
            /\ file # Absent =>
                  /\ row[p].stamp = file.stamp
                  /\ row[p].ok <=> file.content \notin Unreadable
                  /\ row[p].ok => row[p].faces = Provides[file.content]

(* A row is only pruned if its file was absent at some time during the rebuild: one that  *)
(* an unavailable or unreadable directory hides keeps its row (test                       *)
(* stale_pruning_is_scoped_to_fully_scanned_roots has the path test alone).               *)
PrunesOnlyTheGone ==
    [][\A p \in Paths : row[p] # NoRow /\ row'[p] = NoRow => p \in gone]_vars

(* A subtitle recorded as lacking a font under the current revision still lacks it: the   *)
(* scan skips it until the revision moves.  Excepted are the time between the writes of a *)
(* rebuild and its bump, rebuilds that failed or died in between, until the next bump,    *)
(* and a revision that was used but not saved before a crash.                             *)
PartialsAreCurrent ==
    (index.pc = "off" \/ ~dirty) /\ ~broken /\ ~reverted =>
        \A s \in Subtitles :
            result[s].status = "partial" /\ result[s].rev = revision =>
                Candidates(Wanted[s]) = {}

(* A memoised hash is of a file at the path of its row, although rows are pruned and      *)
(* inserted while a conversion hashes: ids are not used again.                            *)
HashOfOwnPath == \A p \in Paths : row[p].hash # NoHash => row[p].hash[1] = p

(* The invariant of the rows: types, ids, faces and memoised hashes (font_hash).          *)
IndexInv == TypeOK /\ HashOfOwnPath
===============================================================================
