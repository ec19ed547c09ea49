---------------------------- MODULE FontIndexProofs ----------------------------
(***************************************************************************)
(* Proofs about FontIndex, for every set of paths and contents, every list *)
(* of directories, every batch size, and every bound.                      *)
(***************************************************************************)
EXTENDS FontIndex, FiniteSetTheorems, TLAPS

-------------------------------------------------------------------------------
(* The inductive invariant.                                                    *)

Listed  == UNION {Roots[r] : r \in DOMAIN Roots}
Results == [meta : Metas, ok : BOOLEAN, faces : SUBSET Names]
Hashes  == {NoHash} \union (Paths \X Nat)

DiskOK ==
    /\ disk \in [Paths -> {Absent} \union [content : Contents, stamp : Nat]]
    /\ writes \in Nat
    /\ \A p \in Paths : disk[p].stamp <= writes

RowsOK ==
    /\ row \in [Paths -> Rows] /\ nextId \in Nat \ {0}
    /\ \A p \in Paths : row[p].id < nextId /\ (row[p].id = 0 <=> row[p] = NoRow)
    /\ \A p, q \in Paths : p # q /\ row[p] # NoRow => row[p].id # row[q].id
    /\ \A p \in Paths : row[p].faces # {} => row[p].ok

IndexType ==
    [pc : {"off", "walk", "inspect", "prune", "bump", "save"}, existing : [Paths -> Rows],
     root : Nat \ {0}, todo : SUBSET Paths, complete : BOOLEAN, seen : SUBSET Paths,
     changed : SUBSET Metas, results : SUBSET Results, trusted : SUBSET (DOMAIN Roots),
     touched : BOOLEAN, outcome : {"none", "ok", "failed"}]

IndexOK ==
    /\ index \in IndexType
    /\ IsFiniteSet(index.changed) /\ Cardinality(index.changed) <= Batch
    /\ index.pc = "walk" => Cardinality(index.changed) < Batch
    /\ IsFiniteSet(index.results) /\ \A r \in index.results : r.faces # {} => r.ok
    /\ index.outcome # "none" => index.pc = "off"

JobType    == [pc : {"idle", "query", "lacking", "memo", "hash", "store", "subset"},
               rev : Nat, path : Paths \union {IdleJob.path}, id : Nat, read : Hashes]
ResultType == [status : {"none", "partial", "success", "failed"}, rev : Nat]

JobsOK ==
    /\ job \in [Subtitles -> JobType]
    /\ result \in [Subtitles -> ResultType]

CountersOK == {revision, saved, rebuilds, jobs, faults} \subseteq Nat

(* A conversion that took a font knows the id of its row, which no other path gets. *)
TakenFont(j) ==
    /\ j.path \in Paths /\ j.id # 0 /\ j.id < nextId
    /\ \A p \in Paths : row[p].id = j.id => p = j.path
    /\ j.pc = "store" => j.read # NoHash /\ j.read[1] = j.path

TakenInv ==
    /\ HashOfOwnPath
    /\ \A s \in Subtitles : job[s].pc \in {"memo", "hash", "store", "subset"} => TakenFont(job[s])

(* Two rows that differ in the memoised hash at most. *)
Alike(r, t) == r.id = t.id /\ r.stamp = t.stamp /\ r.ok = t.ok /\ r.faces = t.faces

(* What a rebuild has found out and not yet written. *)
Pending == index.changed \union {r.meta : r \in index.results}

(* The rows the rebuild loaded are those of the table, until it writes or prunes them. *)
LoadInv ==
    /\ \A p \in Paths : index.existing[p].id = 0 <=> index.existing[p] = NoRow
    /\ index.pc \in {"walk", "inspect", "prune"} =>
          \A p \in Paths \ index.seen :
             Alike(row[p], index.existing[p]) \/ (index.pc = "prune" /\ row[p] = NoRow)
    /\ index.pc \notin {"walk", "inspect"} => Pending = {}
    /\ \A m \in Pending : m.path \in index.seen /\ m.id = row[m.path].id

(* The walk is at a root, or behind the last one. *)
RootInv ==
    /\ index.root <= Len(Roots) + 1
    /\ index.todo \subseteq IF index.root <= Len(Roots) THEN Roots[index.root] ELSE {}
    /\ index.pc \in {"prune", "bump", "save"} => index.root = Len(Roots) + 1

(* A description with the stamp of a file describes that file. *)
True(stamp, ok, faces, file) ==
    ok /\ file # Absent /\ stamp = file.stamp =>
        faces = Provides[file.content] /\ file.content \notin Unreadable

(* No stamp that was noted anywhere will be given to a file again. *)
TruthInv ==
    /\ \A p \in Paths : /\ row[p].stamp <= writes
                        /\ True(row[p].stamp, row[p].ok, row[p].faces, disk[p])
    /\ \A m \in Pending : m.stamp <= writes
    /\ \A r \in index.results : True(r.meta.stamp, r.ok, r.faces, disk[r.meta.path])

(* What the walk of a root passed it saw, or it was not there; trusted roots are passed. *)
Passed(r, p) == r < index.root \/ (r = index.root /\ p \notin index.todo)

GoneInv ==
    index.pc # "off" =>
        /\ \A p \in Paths : disk[p] = Absent => p \in gone
        /\ \A r \in index.trusted : r < index.root /\ Roots[r] \subseteq index.seen \union gone
        /\ \A p \in Paths :
              index.complete /\ index.root <= Len(Roots) /\ p \in Roots[index.root] \ index.todo =>
                 p \in index.seen \union gone

Agrees(stamp, ok, faces, file) ==
    /\ file # Absent /\ stamp = file.stamp
    /\ ok <=> file.content \notin Unreadable
    /\ ok => faces = Provides[file.content]

(* While nobody disturbs it, a rebuild trusts every root it passed, what it found agrees  *)
(* with the files, and so does every row of a file it saw and does not have to write.     *)
CalmInv ==
    calm /\ index.pc # "off" =>
        /\ index.complete
        /\ \A r \in DOMAIN Roots : r < index.root => r \in index.trusted
        /\ \A r \in DOMAIN Roots : \A p \in Roots[r] :
              Passed(r, p) /\ disk[p] # Absent => p \in index.seen
        /\ \A m \in index.changed : m.stamp = disk[m.path].stamp
        /\ \A r \in index.results : Agrees(r.meta.stamp, r.ok, r.faces, disk[r.meta.path])
        /\ \A p \in index.seen :
              /\ disk[p] # Absent
              /\ (\A m \in Pending : m.path # p) =>
                    row[p] # NoRow /\ Agrees(row[p].stamp, row[p].ok, row[p].faces, disk[p])
        /\ index.pc \in {"bump", "save"} =>
              \A p \in Listed \ index.seen : row[p] = NoRow

(* Rows that changed are announced by the rebuild that changed them, unless it broke; and *)
(* who knows the present revision, while no row changed since, knows the rows.            *)
DirtyInv ==
    /\ dirty /\ ~broken => index.pc \in {"walk", "inspect", "prune", "bump"} /\ index.touched
    /\ broken => dirty
    /\ index.results # {} => index.touched

KnownInv ==
    ~reverted =>
        /\ \A s \in Subtitles : result[s].rev <= revision /\ job[s].rev <= revision
        /\ ~dirty => \A s \in Subtitles :
              /\ result[s].status = "partial" /\ result[s].rev = revision =>
                    Candidates(Wanted[s]) = {}
              /\ job[s].pc = "lacking" /\ job[s].rev = revision => Candidates(Wanted[s]) = {}

Inv == /\ DiskOK /\ RowsOK /\ IndexOK /\ JobsOK /\ CountersOK /\ TakenInv
       /\ LoadInv /\ RootInv /\ TruthInv /\ GoneInv /\ CalmInv /\ IndexMatchesDisk
       /\ DirtyInv /\ KnownInv

-------------------------------------------------------------------------------
(* The steps, by what they touch.                                              *)

(* The steps of a rebuild that change the rebuild alone. *)
Looks ==
    \/ StartRebuild \/ WalkError \/ EndRoot \/ EndWalk \/ EndPrune
    \/ (\E p \in Paths : Visit(p))
    \/ (\E meta \in index.changed : Inspect(meta) \/ InspectError(meta))

LEMMA StepCases ==
  ASSUME Next
  PROVE  \/ WriteDisk \/ Looks \/ WriteResults \/ Prune \/ BumpRevision \/ SaveRevision
         \/ RebuildError \/ Crash \/ \E s \in Subtitles : JobNext(s)
  BY DEF Next, RebuildNext, Looks

LEMMA LookFrame ==
  ASSUME Looks
  PROVE  UNCHANGED <<disk, rows, revision, saved, job, result, writes, jobs, dirty, broken, reverted>>
  BY DEF Looks, StartRebuild, WalkError, EndRoot, EndWalk, EndPrune, Visit, Inspect, InspectError,
         Steady, Fault, counts

(* A conversion changes at most the memo of one row. *)
LEMMA JobFrame ==
  ASSUME RowsOK, NEW s \in Subtitles, JobNext(s)
  PROVE  /\ UNCHANGED <<disk, nextId, revision, saved, index, history, writes, rebuilds, faults>>
         /\ \A p \in Paths : Alike(row'[p], row[p])
         /\ StoreMemo(s) \/ row' = row
<1>1. CASE StoreMemo(s)
  <2>1. ASSUME NEW p \in Paths PROVE Alike(row'[p], row[p])
    <3>1. row'[p] = row[p] \/ row'[p] = [row[p] EXCEPT !.hash = job[s].read]
      BY <1>1 DEF StoreMemo
    <3>2. row[p] \in Rows
      BY DEF RowsOK
    <3> QED
      BY <3>1, <3>2 DEF Alike, Rows
  <2> QED
    BY <1>1, <2>1 DEF StoreMemo, OfJob, counts, history
<1>2. CASE StartJob(s) \/ QueryFont(s) \/ LookMemo(s) \/ HashFile(s) \/ SettleJob(s) \/ JobError(s)
  <2>1. row' = row
    BY <1>2 DEF StartJob, QueryFont, LookMemo, HashFile, SettleJob, JobError
  <2>2. UNCHANGED <<disk, nextId, revision, saved, index, history, writes, rebuilds, faults>>
    BY <1>2 DEF StartJob, QueryFont, LookMemo, HashFile, SettleJob, JobError, OfJob, counts
  <2> QED
    BY <2>1, <2>2 DEF Alike
<1> QED
  BY <1>1, <1>2 DEF JobNext

-------------------------------------------------------------------------------
(* The effect of each step of the rebuild, field by field.                     *)

(* What does not move within a rebuild. *)
Kept == /\ index'.existing = index.existing /\ index'.outcome = index.outcome
        /\ UNCHANGED <<disk, row, nextId, writes, gone>>

Meta(p) == [path |-> p, stamp |-> disk[p].stamp, id |-> index.existing[p].id]

LEMMA VisitEffect ==
  ASSUME index \in IndexType, NEW p \in Paths, Visit(p)
  PROVE  /\ Kept /\ calm' = calm /\ index.pc = "walk" /\ p \in index.todo
         /\ index'.todo = index.todo \ {p}
         /\ index'.root = index.root /\ index'.complete = index.complete
         /\ index'.results = index.results /\ index'.trusted = index.trusted
         /\ index'.touched = index.touched
         /\ \/ /\ disk[p] = Absent \/ p \in index.seen
               /\ index'.pc = "walk" /\ index'.seen = index.seen /\ index'.changed = index.changed
            \/ /\ disk[p] # Absent /\ p \notin index.seen /\ Unchanged(p)
               /\ index'.pc = "walk" /\ index'.seen = index.seen \union {p}
               /\ index'.changed = index.changed
            \/ /\ disk[p] # Absent /\ p \notin index.seen /\ ~Unchanged(p)
               /\ index'.seen = index.seen \union {p}
               /\ index'.changed = index.changed \union {Meta(p)}
               /\ index'.pc = IF Cardinality(index'.changed) >= Batch THEN "inspect" ELSE "walk"
<1> DEFINE next == [index EXCEPT !.todo = @ \ {p}]
           met  == [next EXCEPT !.seen = @ \union {p}]
           grown == [met EXCEPT !.changed = @ \union {Meta(p)}]
           full == [grown EXCEPT !.pc = IF Cardinality(grown.changed) >= Batch
                                        THEN "inspect" ELSE "walk"]
<1>1. index' = IF disk[p] = Absent \/ p \in index.seen THEN next
               ELSE IF Unchanged(p) THEN met ELSE full
  BY DEF Visit, Meta
<1>2. /\ UNCHANGED <<disk, row, nextId, writes, gone, calm>>
      /\ index.pc = "walk" /\ p \in index.todo
  BY DEF Visit, Steady, counts, rows
<1>3. CASE disk[p] = Absent \/ p \in index.seen
  BY <1>1, <1>2, <1>3 DEF IndexType, Kept
<1>4. CASE disk[p] # Absent /\ p \notin index.seen /\ Unchanged(p)
  BY <1>1, <1>2, <1>4 DEF IndexType, Kept
<1>5. CASE disk[p] # Absent /\ p \notin index.seen /\ ~Unchanged(p)
  <2>1. index' = full
    BY <1>1, <1>5
  <2>2. /\ full.existing = index.existing /\ full.outcome = index.outcome
        /\ full.todo = index.todo \ {p} /\ full.root = index.root
        /\ full.complete = index.complete /\ full.results = index.results
        /\ full.trusted = index.trusted /\ full.touched = index.touched
        /\ full.seen = index.seen \union {p} /\ full.changed = index.changed \union {Meta(p)}
        /\ full.pc = IF Cardinality(full.changed) >= Batch THEN "inspect" ELSE "walk"
    BY DEF IndexType
  <2> HIDE DEF full
  <2> QED
    BY <1>2, <1>5, <2>1, <2>2 DEF Kept
<1> QED
  BY <1>3, <1>4, <1>5

(* Turning to the next root, or leaving a part of this one out. *)
LEMMA WalkErrorEffect ==
  ASSUME index \in IndexType, WalkError
  PROVE  /\ Kept /\ ~calm' /\ index.pc = "walk" /\ index'.pc = "walk"
         /\ index'.todo \subseteq index.todo /\ ~index'.complete /\ index'.touched
         /\ index'.root = index.root /\ index'.seen = index.seen
         /\ index'.changed = index.changed /\ index'.results = index.results
         /\ index'.trusted = index.trusted
<1>1. /\ UNCHANGED <<disk, row, nextId, writes, gone>> /\ ~calm' /\ index.pc = "walk"
      /\ \E lost \in SUBSET index.todo :
            index' = [index EXCEPT !.todo = @ \ lost, !.complete = FALSE, !.touched = TRUE]
  BY DEF WalkError, Fault, rows
<1> QED
  BY <1>1 DEF IndexType, Kept

LEMMA EndRootEffect ==
  ASSUME index \in IndexType, EndRoot
  PROVE  /\ Kept /\ calm' = calm /\ index.pc = "walk" /\ index'.pc = "walk"
         /\ index.todo = {} /\ index.root <= Len(Roots)
         /\ index'.root = index.root + 1 /\ index'.complete
         /\ index'.todo = IF index.root < Len(Roots) THEN Roots[index.root + 1] ELSE {}
         /\ index'.trusted = IF index.complete THEN index.trusted \union {index.root}
                             ELSE index.trusted
         /\ index'.seen = index.seen /\ index'.touched = index.touched
         /\ index'.changed = index.changed /\ index'.results = index.results
<1>1. /\ UNCHANGED <<disk, row, nextId, writes, gone, calm>>
      /\ index.pc = "walk" /\ index.todo = {} /\ index.root <= Len(Roots)
      /\ index' = [index EXCEPT
                    !.trusted = IF index.complete THEN @ \union {index.root} ELSE @,
                    !.root = @ + 1, !.complete = TRUE,
                    !.todo = IF index.root < Len(Roots) THEN Roots[index.root + 1] ELSE {}]
  BY DEF EndRoot, Steady, rows, counts
<1> QED
  BY <1>1 DEF IndexType, Kept

LEMMA EndWalkEffect ==
  ASSUME index \in IndexType, EndWalk
  PROVE  /\ Kept /\ calm' = calm /\ index.pc = "walk" /\ index.root > Len(Roots)
         /\ index' = [index EXCEPT !.pc = "inspect"]
  BY DEF EndWalk, Steady, rows, counts, IndexType, Kept

(* A verdict about the file of meta joins the results: as content and names are now, or *)
(* that nothing could be read.                                                           *)
Verdict(meta) ==
    \E ok \in BOOLEAN, faces \in SUBSET Names :
       /\ index'.results = index.results \union {[meta |-> meta, ok |-> ok, faces |-> faces]}
       /\ ok => /\ disk[meta.path] # Absent
                /\ disk[meta.path].content \notin Unreadable
                /\ faces = Provides[disk[meta.path].content]
       /\ ~ok => /\ faces = {}
                 /\ ~calm' \/ disk[meta.path] = Absent
                           \/ disk[meta.path].content \in Unreadable

(* A verdict about a file moves its metadata from "changed" to "results", or drops it. *)
LEMMA InspectEffect ==
  ASSUME DiskOK, index \in IndexType, NEW meta \in index.changed, Inspect(meta) \/ InspectError(meta)
  PROVE  /\ Kept /\ (calm' => calm) /\ index.pc = "inspect" /\ index'.pc = "inspect"
         /\ index'.changed = index.changed \ {meta} /\ index'.touched
         /\ index'.root = index.root /\ index'.todo = index.todo
         /\ index'.complete = index.complete /\ index'.seen = index.seen
         /\ index'.trusted = index.trusted
         /\ (index'.results = index.results /\ ~calm') \/ Verdict(meta)
<1>1. UNCHANGED <<disk, row, nextId, writes, gone>> /\ (calm' => calm) /\ index.pc = "inspect"
  BY DEF Inspect, InspectError, Steady, Fault, rows, counts
<1>2. CASE /\ index' = Failed(meta)
           /\ ~calm' \/ disk[meta.path] = Absent \/ disk[meta.path].content \in Unreadable
  <2>1. ~calm' \/ disk[meta.path] = Absent \/ disk[meta.path].content \in Unreadable
    BY <1>2
  <2>2. index'.results = index.results \union {[meta |-> meta, ok |-> FALSE, faces |-> {}]}
    BY <1>2 DEF Failed, IndexType
  <2>3. /\ index'.existing = index.existing /\ index'.outcome = index.outcome
        /\ index'.pc = "inspect" /\ index'.changed = index.changed \ {meta} /\ index'.touched
        /\ index'.root = index.root /\ index'.todo = index.todo
        /\ index'.complete = index.complete /\ index'.seen = index.seen
        /\ index'.trusted = index.trusted
    BY <1>1, <1>2 DEF Failed, IndexType
  <2>4. {} \in SUBSET Names
    OBVIOUS
  <2> QED
    BY <1>1, <2>1, <2>2, <2>3, <2>4 DEF Kept, Verdict
<1>3. CASE Inspect(meta) /\ disk[meta.path] # Absent /\ disk[meta.path].content \notin Unreadable
  <2> DEFINE faces == Provides[disk[meta.path].content]
  <2>1. index' = Found(meta, faces)
    BY <1>3 DEF Inspect
  <2>2. faces \in SUBSET Names
    BY <1>3, IndexAssumption DEF DiskOK, IndexAssumption, IndexType, Metas
  <2> HIDE DEF faces
  <2>3. index'.results = index.results \union {[meta |-> meta, ok |-> TRUE, faces |-> faces]}
    BY <2>1 DEF Found, IndexType
  <2>4. /\ index'.existing = index.existing /\ index'.outcome = index.outcome
        /\ index'.pc = "inspect" /\ index'.changed = index.changed \ {meta} /\ index'.touched
        /\ index'.root = index.root /\ index'.todo = index.todo
        /\ index'.complete = index.complete /\ index'.seen = index.seen
        /\ index'.trusted = index.trusted
    BY <1>1, <2>1 DEF Found, IndexType
  <2> QED
    BY <1>1, <1>3, <2>2, <2>3, <2>4 DEF Kept, Verdict, faces
<1>4. CASE InspectError(meta) /\ index' = [index EXCEPT !.changed = @ \ {meta}, !.touched = TRUE]
  BY <1>1, <1>4 DEF InspectError, Fault, IndexType, Kept
<1> QED
  BY <1>1, <1>2, <1>3, <1>4 DEF Inspect, InspectError, Fault

LEMMA NoRowType == NoRow \in Rows /\ NoRow.id = 0 /\ NoRow.stamp = -1 /\ ~NoRow.ok
                   /\ NoRow.faces = {} /\ NoRow.hash = NoHash
  BY DEF NoRow, Rows, NoHash

LEMMA StartEffect ==
  ASSUME StartRebuild
  PROVE  /\ UNCHANGED <<disk, row, nextId, writes>> /\ calm' /\ gone' = {p \in Paths : disk[p] = Absent}
         /\ index.pc = "off" /\ index'.pc = "walk" /\ index'.existing = row /\ index'.root = 1
         /\ index'.todo = (IF Roots = <<>> THEN {} ELSE Roots[1]) /\ index'.complete
         /\ index'.seen = {} /\ index'.changed = {} /\ index'.results = {}
         /\ index'.trusted = {} /\ ~index'.touched /\ index'.outcome = "none"
<1>1. /\ UNCHANGED <<disk, row, nextId, writes>> /\ calm' /\ gone' = {p \in Paths : disk[p] = Absent}
      /\ index.pc = "off"
      /\ index' = [IdleIndex EXCEPT !.pc = "walk", !.existing = row,
                                    !.todo = IF Roots = <<>> THEN {} ELSE Roots[1]]
  BY DEF StartRebuild, rows
<1> QED
  BY <1>1 DEF IdleIndex

(* A rebuild that ended, one way or another, has nothing left. *)
Ended == index' \in {IdleIndex, [IdleIndex EXCEPT !.outcome = "ok"],
                     [IdleIndex EXCEPT !.outcome = "failed"]}

LEMMA EndedEffect ==
  ASSUME Ended
  PROVE  /\ index' \in IndexType
         /\ index'.pc = "off" /\ index'.existing = [p \in Paths |-> NoRow] /\ index'.root = 1
         /\ index'.todo = {} /\ index'.seen = {} /\ index'.changed = {} /\ index'.results = {}
         /\ index'.trusted = {} /\ ~index'.touched
<1>1. [p \in Paths |-> NoRow] \in [Paths -> Rows]
  BY NoRowType
<1>2. PICK out \in {"none", "ok", "failed"} :
         index' = [pc |-> "off", existing |-> [p \in Paths |-> NoRow], root |-> 1, todo |-> {},
                   complete |-> TRUE, seen |-> {}, changed |-> {}, results |-> {},
                   trusted |-> {}, touched |-> FALSE, outcome |-> out]
  <2>1. CASE index' = IdleIndex
    BY <2>1 DEF IdleIndex
  <2>2. CASE index' = [IdleIndex EXCEPT !.outcome = "ok"]
    BY <2>2 DEF IdleIndex
  <2>3. CASE index' = [IdleIndex EXCEPT !.outcome = "failed"]
    BY <2>3 DEF IdleIndex
  <2> QED
    BY <2>1, <2>2, <2>3 DEF Ended
<1> QED
  BY <1>1, <1>2 DEF IndexType

LEMMA EndPruneEffect ==
  ASSUME index \in IndexType, EndPrune
  PROVE  /\ UNCHANGED <<disk, row, nextId, writes, gone, calm>> /\ index.pc = "prune" /\ Stale = {}
         /\ \/ index.touched /\ index' = [index EXCEPT !.pc = "bump"]
            \/ ~index.touched /\ Ended /\ index'.outcome = "ok"
<1>1. /\ UNCHANGED <<disk, row, nextId, writes, gone, calm>> /\ index.pc = "prune" /\ Stale = {}
      /\ index' = IF index.touched THEN [index EXCEPT !.pc = "bump"]
                  ELSE [IdleIndex EXCEPT !.outcome = "ok"]
  BY DEF EndPrune, Steady, rows, counts
<1> QED
  BY <1>1 DEF Ended, IdleIndex

(* A transaction writes the row of a path from one result for it: under the id it had, or *)
(* under a new one; the other rows stay.                                                  *)
Written(p, r) ==
    /\ r.meta.path = p
    /\ row'[p].stamp = r.meta.stamp /\ row'[p].ok = r.ok /\ row'[p].faces = r.faces
    /\ row'[p].hash = NoHash /\ row'[p].id \in Nat /\ row'[p].id # 0 /\ row'[p].id < nextId'
    /\ row'[p].id = row[p].id \/ (row[p].id = 0 /\ row'[p].id >= nextId)

LEMMA WriteEffect ==
  ASSUME RowsOK, IndexOK, LoadInv, WriteResults
  PROVE  /\ nextId' \in Nat /\ nextId' >= nextId
         /\ \A p \in Paths : \/ row'[p] = row[p] /\ \A r \in index.results : r.meta.path # p
                             \/ \E r \in index.results : Written(p, r)
         /\ row' \in [Paths -> Rows]
         /\ \A p, q \in Paths : p # q /\ row'[p] # NoRow => row'[p].id # row'[q].id
<1> DEFINE fresh == {r \in index.results : r.meta.id = 0}
           At(p) == {r \in index.results : r.meta.path = p}
           Id(id, r) == IF r \in fresh THEN id[r] ELSE r.meta.id
<1>1. PICK id \in [fresh -> nextId..(nextId + Cardinality(fresh) - 1)] :
            /\ \A r, t \in fresh : id[r] = id[t] => r = t
            /\ nextId' = nextId + Cardinality(fresh)
            /\ row' = [p \in Paths |->
                   IF At(p) = {} THEN row[p]
                   ELSE LET r == CHOOSE r \in At(p) : TRUE IN
                        NewRow(r, IF r \in fresh THEN id[r] ELSE r.meta.id)]
  BY DEF WriteResults, FirstId
<1>2. Cardinality(fresh) \in Nat /\ nextId \in Nat
  <2>1. IsFiniteSet(index.results) /\ fresh \subseteq index.results
    BY DEF IndexOK
  <2>2. IsFiniteSet(fresh)
    BY <2>1, FS_Subset
  <2> QED
    BY <2>2, FS_CardinalityType DEF RowsOK
<1>3. nextId' \in Nat /\ nextId' >= nextId
  BY <1>1, <1>2
<1>4. ASSUME NEW r \in fresh PROVE id[r] \in Nat /\ id[r] >= nextId /\ id[r] < nextId'
  BY <1>1, <1>2
<1>5. ASSUME NEW r \in index.results
      PROVE  /\ r.meta.path \in Paths /\ r.meta.stamp \in Nat /\ r.meta.id \in Nat
             /\ r.ok \in BOOLEAN /\ r.faces \in SUBSET Names
             /\ r.meta.id = row[r.meta.path].id
  <2>1. r \in Results /\ r.meta \in Pending
    BY DEF IndexOK, IndexType, Pending
  <2> QED
    BY <2>1 DEF Results, Metas, LoadInv
<1>6. ASSUME NEW p \in Paths, At(p) # {}
      PROVE  \E r \in At(p) : Written(p, r) /\ row'[p].id = Id(id, r) /\ row'[p] \in Rows
  <2>1. PICK r \in At(p) : row'[p] = NewRow(r, Id(id, r))
    BY <1>1, <1>6
  <2>2. r \in index.results /\ r.meta.path = p
    OBVIOUS
  <2>3. /\ Id(id, r) \in Nat /\ Id(id, r) # 0 /\ Id(id, r) < nextId'
        /\ Id(id, r) = row[p].id \/ (row[p].id = 0 /\ Id(id, r) >= nextId)
    <3>1. CASE r \in fresh
      BY <1>4, <1>5, <2>2, <3>1 DEF RowsOK
    <3>2. CASE r \notin fresh
      <4>1. Id(id, r) = row[p].id /\ row[p].id # 0 /\ row[p].id \in Nat
        BY <1>5, <2>2, <3>2
      <4>2. row[p].id < nextId
        BY DEF RowsOK
      <4> QED
        BY <1>2, <1>3, <4>1, <4>2
    <3> QED
      BY <3>1, <3>2
  <2>4. /\ row'[p].stamp = r.meta.stamp /\ row'[p].ok = r.ok /\ row'[p].faces = r.faces
        /\ row'[p].hash = NoHash /\ row'[p].id = Id(id, r)
    BY <2>1 DEF NewRow
  <2> HIDE DEF Id
  <2>5. row'[p] \in Rows
    BY <1>5, <2>1, <2>2, <2>3 DEF NewRow, Rows
  <2> QED
    BY <2>1, <2>2, <2>3, <2>4, <2>5 DEF Written
<1>7. ASSUME NEW p \in Paths, At(p) = {} PROVE row'[p] = row[p]
  BY <1>1, <1>7
<1>8. row' \in [Paths -> Rows]
  <2>1. ASSUME NEW p \in Paths PROVE row'[p] \in Rows
    BY <1>6, <1>7 DEF RowsOK
  <2> HIDE DEF fresh, At
  <2> QED
    BY <1>1, <2>1
<1>9. ASSUME NEW p \in Paths, NEW q \in Paths, p # q, row'[p] # NoRow
      PROVE  row'[p].id # row'[q].id
  <2>1. row[p].id \in Nat /\ row[q].id \in Nat /\ row[p].id < nextId /\ row[q].id < nextId
    BY DEF RowsOK, Rows
  <2>2. row[p].id # 0 => row[p].id # row[q].id
    BY <1>9 DEF RowsOK
  <2>3. row[q].id # 0 => row[q].id # row[p].id
    BY <1>9 DEF RowsOK
  <2>4. CASE At(p) = {}
    <3>1. row'[p].id = row[p].id /\ row[p].id # 0
      BY <1>7, <1>9, <2>4 DEF RowsOK
    <3>2. CASE At(q) = {}
      BY <1>7, <2>2, <3>1, <3>2
    <3>3. CASE At(q) # {}
      <4>1. row'[q].id = row[q].id \/ row'[q].id >= nextId
        BY <1>6, <3>3 DEF Written
      <4> QED
        BY <1>2, <2>1, <2>2, <3>1, <4>1
    <3> QED
      BY <3>2, <3>3
  <2>5. CASE At(p) # {} /\ At(q) = {}
    <3>1. row'[q].id = row[q].id /\ row'[p].id # 0
          /\ (row'[p].id = row[p].id \/ row'[p].id >= nextId)
      BY <1>6, <1>7, <2>5 DEF Written
    <3> QED
      BY <1>2, <2>1, <2>2, <3>1
  <2>6. CASE At(p) # {} /\ At(q) # {}
    <3>1. PICK r \in At(p) : Written(p, r) /\ row'[p].id = Id(id, r)
      BY <1>6, <2>6
    <3>2. PICK t \in At(q) : Written(q, t) /\ row'[q].id = Id(id, t)
      BY <1>6, <2>6
    <3>3. r # t /\ r.meta.id = row[p].id /\ t.meta.id = row[q].id
      <4>1. r \in index.results /\ t \in index.results /\ r.meta.path = p /\ t.meta.path = q
        OBVIOUS
      <4> HIDE DEF At, fresh, Id
      <4> QED
        BY <1>5, <1>9, <4>1
    <3>4. CASE r \in fresh /\ t \in fresh
      <4>1. row'[p].id = id[r] /\ row'[q].id = id[t]
        BY <3>1, <3>2, <3>4
      <4>2. id[r] # id[t]
        BY <1>1, <3>3, <3>4
      <4> QED
        BY <4>1, <4>2
    <3>5. CASE r \in fresh /\ t \notin fresh
      <4>1. row'[p].id >= nextId /\ row'[q].id < nextId
        BY <1>4, <2>1, <3>1, <3>2, <3>3, <3>5
      <4> QED
        BY <1>2, <2>1, <3>1, <3>2, <4>1 DEF Written
    <3>6. CASE r \notin fresh /\ t \in fresh
      <4>1. row'[q].id >= nextId /\ row'[p].id < nextId
        BY <1>4, <2>1, <3>1, <3>2, <3>3, <3>6
      <4> QED
        BY <1>2, <2>1, <3>1, <3>2, <4>1 DEF Written
    <3>7. CASE r \notin fresh /\ t \notin fresh
      <4>1. row'[p].id = row[p].id /\ row'[q].id = row[q].id /\ row[p].id # 0
        BY <3>1, <3>2, <3>3, <3>7 
      <4> QED
        BY <2>2, <4>1
    <3> QED
      BY <3>4, <3>5, <3>6, <3>7
  <2> QED
    BY <2>4, <2>5, <2>6
<1>10. ASSUME NEW p \in Paths
       PROVE  \/ row'[p] = row[p] /\ \A r \in index.results : r.meta.path # p
              \/ \E r \in index.results : Written(p, r)
  BY <1>6, <1>7
<1> QED
  BY <1>3, <1>8, <1>9, <1>10

(* The files whose rows are pruned; the others keep theirs. *)
LEMMA PruneEffect ==
  ASSUME RowsOK, Prune
  PROVE  /\ UNCHANGED <<disk, nextId, writes, gone, calm>> /\ index.pc = "prune"
         /\ \A p \in Paths : row'[p] = row[p] \/ (p \in Stale /\ row'[p] = NoRow)
         /\ row' \in [Paths -> Rows]
<1>1. PICK chunk \in SUBSET Stale : row' = [p \in Paths |-> IF p \in chunk THEN NoRow ELSE row[p]]
  BY DEF Prune
<1>2. UNCHANGED <<disk, nextId, writes, gone, calm>> /\ index.pc = "prune"
  BY DEF Prune, Steady, counts
<1> QED
  BY <1>1, <1>2, NoRowType DEF RowsOK

-------------------------------------------------------------------------------
(* Types.                                                                      *)

LEMMA NextDisk == ASSUME DiskOK, [Next]_vars PROVE DiskOK' /\ writes' >= writes
<1>1. CASE UNCHANGED <<disk, writes>>
  BY <1>1 DEF DiskOK
<1>2. CASE WriteDisk
  <2>1. PICK p \in Paths, file \in {Absent} \union {[content |-> c, stamp |-> writes'] : c \in Contents} :
           disk' = [disk EXCEPT ![p] = file]
    BY <1>2 DEF WriteDisk
  <2>2. writes' = writes + 1
    BY <1>2 DEF WriteDisk
  <2>3. file \in {Absent} \union [content : Contents, stamp : Nat] /\ file.stamp <= writes'
    BY <2>2 DEF DiskOK, Absent
  <2>4. disk' \in [Paths -> {Absent} \union [content : Contents, stamp : Nat]]
    BY <2>1, <2>3 DEF DiskOK
  <2>5. ASSUME NEW q \in Paths PROVE disk'[q].stamp <= writes'
    <3>1. CASE q = p
      BY <2>1, <2>3, <3>1 DEF DiskOK
    <3>2. CASE q # p
      <4>1. disk[q].stamp \in Int /\ disk[q].stamp <= writes /\ disk'[q] = disk[q]
        BY <2>1, <3>2 DEF DiskOK, Absent
      <4> QED
        BY <2>2, <4>1 DEF DiskOK
    <3> QED
      BY <3>1, <3>2
  <2> QED
    BY <2>2, <2>4, <2>5 DEF DiskOK
<1>3. CASE Looks
  BY <1>1, <1>3, LookFrame DEF DiskOK
<1>4. CASE WriteResults \/ Prune \/ BumpRevision \/ SaveRevision \/ RebuildError \/ Crash
  <2>1. UNCHANGED <<disk, writes>>
    BY <1>4 DEF WriteResults, Prune, BumpRevision, SaveRevision, RebuildError, Crash, Steady,
                Fault, counts
  <2> QED
    BY <1>1, <2>1 DEF DiskOK
<1>5. CASE \E s \in Subtitles : JobNext(s)
  <2>1. UNCHANGED <<disk, writes>>
    BY <1>5 DEF JobNext, StartJob, QueryFont, LookMemo, HashFile, StoreMemo, SettleJob, JobError,
                OfJob, counts
  <2> QED
    BY <1>1, <2>1 DEF DiskOK
<1>6. CASE UNCHANGED vars
  BY <1>1, <1>6 DEF vars, counts, DiskOK
<1> QED
  BY <1>2, <1>3, <1>4, <1>5, <1>6, StepCases

LEMMA NextRows ==
  ASSUME RowsOK, IndexOK, JobsOK, TakenInv, LoadInv, [Next]_vars
  PROVE  RowsOK' /\ nextId' >= nextId
<1>1. CASE UNCHANGED <<row, nextId>>
  BY <1>1 DEF RowsOK
<1>2. CASE WriteResults
  <2>1. /\ nextId' \in Nat /\ nextId' >= nextId /\ row' \in [Paths -> Rows]
        /\ \A p \in Paths : \/ row'[p] = row[p]
                            \/ \E r \in index.results : Written(p, r)
        /\ \A p, q \in Paths : p # q /\ row'[p] # NoRow => row'[p].id # row'[q].id
    BY <1>2, WriteEffect
  <2>2. ASSUME NEW p \in Paths
        PROVE  /\ row'[p].id < nextId' /\ (row'[p].id = 0 <=> row'[p] = NoRow)
               /\ row'[p].faces # {} => row'[p].ok
    <3>1. CASE row'[p] = row[p]
      <4>1. row[p].id \in Nat /\ row[p].id < nextId
        BY DEF RowsOK, Rows
      <4>2. row'[p].id < nextId'
        BY <2>1, <3>1, <4>1 DEF RowsOK
      <4> QED
        BY <3>1, <4>2 DEF RowsOK
    <3>2. CASE \E r \in index.results : Written(p, r)
      BY <3>2, NoRowType DEF Written, IndexOK
    <3> QED
      BY <2>1, <3>1, <3>2
  <2>3. nextId' \in Nat \ {0}
    BY <2>1 DEF RowsOK
  <2> QED
    BY <2>1, <2>2, <2>3 DEF RowsOK
<1>3. CASE Prune
  <2>1. /\ nextId' = nextId /\ row' \in [Paths -> Rows]
        /\ \A p \in Paths : row'[p] = row[p] \/ row'[p] = NoRow
    BY <1>3, PruneEffect
  <2>2. ASSUME NEW p \in Paths
        PROVE  /\ row'[p].id < nextId' /\ (row'[p].id = 0 <=> row'[p] = NoRow)
               /\ row'[p].faces # {} => row'[p].ok
    BY <2>1, NoRowType DEF RowsOK
  <2>3. ASSUME NEW p \in Paths, NEW q \in Paths, p # q, row'[p] # NoRow
        PROVE  row'[p].id # row'[q].id
    <3>1. row'[p] = row[p] /\ row[p].id # 0
      BY <2>1, <2>3 DEF RowsOK
    <3>2. CASE row'[q] = row[q]
      BY <2>3, <3>1, <3>2 DEF RowsOK
    <3>3. CASE row'[q] = NoRow
      BY <3>1, <3>3, NoRowType
    <3> QED
      BY <2>1, <3>2, <3>3
  <2> QED
    BY <2>1, <2>2, <2>3 DEF RowsOK
<1>4. CASE \E s \in Subtitles : StoreMemo(s)
  <2>1. PICK s \in Subtitles : StoreMemo(s)
    BY <1>4
  <2>2. nextId' = nextId /\ \A p \in Paths : Alike(row'[p], row[p])
    BY <2>1, JobFrame DEF JobNext
  <2>3. job[s].id # 0 /\ job[s].read \in Hashes
    BY <2>1 DEF StoreMemo, TakenInv, TakenFont, JobsOK, JobType
  <2>4. ASSUME NEW p \in Paths
        PROVE  row'[p] \in Rows /\ (row'[p] = row[p] \/ row[p].id # 0)
    <3>1. row'[p] = row[p] \/ (row[p].id = job[s].id /\ row'[p] = [row[p] EXCEPT !.hash = job[s].read])
      BY <2>1 DEF StoreMemo
    <3>2. row[p] \in Rows
      BY DEF RowsOK
    <3> QED
      BY <2>3, <3>1, <3>2 DEF Rows, Hashes
  <2>5. row' \in [Paths -> Rows]
    <3>1. DOMAIN row' = Paths /\ row' = [p \in Paths |-> row'[p]]
      BY <2>1 DEF StoreMemo
    <3> QED
      BY <2>4, <3>1
  <2>6. ASSUME NEW p \in Paths PROVE row'[p].id = 0 <=> row'[p] = NoRow
    BY <2>2, <2>4, NoRowType DEF Alike, RowsOK
  <2>7. ASSUME NEW p \in Paths PROVE row'[p].id < nextId' /\ (row'[p].faces # {} => row'[p].ok)
    BY <2>2 DEF Alike, RowsOK
  <2>8. ASSUME NEW p \in Paths, NEW q \in Paths, p # q, row'[p] # NoRow
        PROVE  row'[p].id # row'[q].id
    <3>1. row[p] # NoRow
      BY <2>2, <2>6, <2>8 DEF Alike, RowsOK
    <3> QED
      BY <2>2, <2>8, <3>1 DEF Alike, RowsOK
  <2> QED
    BY <2>2, <2>5, <2>6, <2>7, <2>8 DEF RowsOK
<1>5. CASE \E s \in Subtitles : JobNext(s) /\ ~StoreMemo(s)
  BY <1>1, <1>5, JobFrame
<1>6. CASE WriteDisk \/ Looks \/ BumpRevision \/ SaveRevision \/ RebuildError \/ Crash
  <2>1. UNCHANGED <<row, nextId>>
    BY <1>6, LookFrame DEF WriteDisk, BumpRevision, SaveRevision, RebuildError, Crash, rows
  <2> QED
    BY <1>1, <2>1
<1>7. CASE UNCHANGED vars
  BY <1>1, <1>7 DEF vars, rows
<1> QED
  BY <1>2, <1>3, <1>4, <1>5, <1>6, <1>7, StepCases

LEMMA OneMoreOrLess ==
  ASSUME NEW S, IsFiniteSet(S), NEW x
  PROVE  /\ IsFiniteSet(S \union {x}) /\ IsFiniteSet(S \ {x})
         /\ Cardinality(S \union {x}) \in Nat /\ Cardinality(S \ {x}) \in Nat
         /\ Cardinality(S \union {x}) <= Cardinality(S) + 1
         /\ Cardinality(S \ {x}) <= Cardinality(S)
<1>1. Cardinality(S) \in Nat
  BY FS_CardinalityType
<1>2. IsFiniteSet(S \union {x}) /\ Cardinality(S \union {x}) \in {Cardinality(S), Cardinality(S) + 1}
  BY FS_AddElement
<1>3. IsFiniteSet(S \ {x}) /\ Cardinality(S \ {x}) \in {Cardinality(S), Cardinality(S) - 1}
  BY FS_RemoveElement
<1>4. Cardinality(S \ {x}) \in Nat
  BY <1>3, FS_CardinalityType
<1> QED
  BY <1>1, <1>2, <1>3, <1>4

(* The record of the rebuild, step by step. *)
LEMMA EndedOK == ASSUME Ended PROVE IndexOK'
<1>1. /\ index' \in IndexType /\ index'.pc = "off"
      /\ index'.changed = {} /\ index'.results = {}
  BY EndedEffect
<1>2. IsFiniteSet({}) /\ Cardinality({}) = 0
  BY FS_EmptySet
<1>3. 0 <= Batch
  BY IndexAssumption DEF IndexAssumption
<1> QED
  BY <1>1, <1>2, <1>3 DEF IndexOK

LEMMA LookIndexOK == ASSUME DiskOK, RowsOK, IndexOK, RootInv, Looks PROVE IndexOK'
<1>0. /\ index \in IndexType /\ IsFiniteSet(index.changed) /\ IsFiniteSet(index.results)
      /\ Cardinality(index.changed) \in Nat /\ Cardinality(index.changed) <= Batch
      /\ index.outcome # "none" => index.pc = "off"
      /\ \A r \in index.results : r.faces # {} => r.ok
      /\ Batch \in Nat \ {0} /\ Roots \in Seq(SUBSET Paths) /\ Len(Roots) \in Nat
      /\ DOMAIN Roots = 1..Len(Roots)
      /\ \A i \in DOMAIN Roots : Roots[i] \in SUBSET Paths
  BY FS_CardinalityType, IndexAssumption DEF IndexOK, IndexAssumption
<1> DEFINE points == {"off", "walk", "inspect", "prune", "bump", "save"}
           outs == {"none", "ok", "failed"}
<1>1. ASSUME NEW next, NEW pc \in points, next \in IndexType
      PROVE  [next EXCEPT !.pc = pc] \in IndexType
  BY <1>1 DEF IndexType
<1>2. CASE StartRebuild
  <2>1. index' = [IdleIndex EXCEPT !.pc = "walk", !.existing = row,
                                   !.todo = IF Roots = <<>> THEN {} ELSE Roots[1]]
    BY <1>2 DEF StartRebuild
  <2>2. (IF Roots = <<>> THEN {} ELSE Roots[1]) \in SUBSET Paths
    BY <1>0
  <2>3. index' \in IndexType
    <3>1. index' = [pc |-> "walk", existing |-> row, root |-> 1,
                    todo |-> IF Roots = <<>> THEN {} ELSE Roots[1], complete |-> TRUE,
                    seen |-> {}, changed |-> {}, results |-> {}, trusted |-> {},
                    touched |-> FALSE, outcome |-> "none"]
      BY <2>1 DEF IdleIndex
    <3>2. row \in [Paths -> Rows]
      BY DEF RowsOK
    <3> QED
      BY <2>2, <3>1, <3>2 DEF IndexType
  <2>4. index'.changed = {} /\ index'.results = {} /\ index'.outcome = "none"
    BY <1>2, StartEffect
  <2>5. IsFiniteSet({}) /\ Cardinality({}) = 0
    BY FS_EmptySet
  <2> QED
    BY <1>0, <2>3, <2>4, <2>5 DEF IndexOK
<1>3. CASE \E p \in Paths : Visit(p)
  <2>1. PICK p \in Paths : Visit(p)
    BY <1>3
  <2>2. index.pc = "walk" /\ index'.results = index.results /\ index'.outcome = index.outcome
    BY <1>0, <2>1, VisitEffect DEF Kept
  <2>3. \/ index'.pc = "walk" /\ index'.changed = index.changed
        \/ /\ index'.changed = index.changed \union {Meta(p)}
           /\ index'.pc = IF Cardinality(index'.changed) >= Batch THEN "inspect" ELSE "walk"
    BY <1>0, <2>1, VisitEffect
  <2>4. /\ IsFiniteSet(index'.changed) /\ Cardinality(index'.changed) <= Batch
        /\ index'.pc = "walk" => Cardinality(index'.changed) < Batch
    <3>1. CASE index'.pc = "walk" /\ index'.changed = index.changed
      BY <2>2, <3>1 DEF IndexOK
    <3>2. CASE /\ index'.changed = index.changed \union {Meta(p)}
               /\ index'.pc = IF Cardinality(index'.changed) >= Batch THEN "inspect" ELSE "walk"
      <4>1. /\ IsFiniteSet(index'.changed) /\ Cardinality(index'.changed) \in Nat
            /\ Cardinality(index'.changed) <= Cardinality(index.changed) + 1
        <5>1. IsFiniteSet(index.changed)
          BY <1>0
        <5> QED
          BY <3>2, <5>1, OneMoreOrLess
      <4>2. Cardinality(index.changed) < Batch
        BY <2>2 DEF IndexOK
      <4> QED
        BY <1>0, <3>2, <4>1, <4>2
    <3> QED
      BY <2>3, <3>1, <3>2
  <2>5. index' \in IndexType
    <3>1. disk[p] # Absent => Meta(p) \in Metas
      BY <1>0 DEF Meta, Metas, DiskOK, IndexType, Rows
    <3>2. ASSUME NEW t \in SUBSET Paths, NEW n \in SUBSET Paths, NEW c \in SUBSET Metas
          PROVE  [index EXCEPT !.todo = t, !.seen = n, !.changed = c] \in IndexType
      BY <1>0 DEF IndexType
    <3>3. CASE disk[p] = Absent \/ p \in index.seen
      <4>1. index' = [index EXCEPT !.todo = @ \ {p}]
        BY <2>1, <3>3 DEF Visit
      <4> QED
        BY <1>0, <4>1 DEF IndexType
    <3>4. CASE disk[p] # Absent /\ p \notin index.seen /\ Unchanged(p)
      <4>1. index' = [index EXCEPT !.todo = @ \ {p}, !.seen = @ \union {p}]
        BY <2>1, <3>4 DEF Visit
      <4> QED
        BY <1>0, <4>1 DEF IndexType
    <3>5. CASE disk[p] # Absent /\ p \notin index.seen /\ ~Unchanged(p)
      <4> DEFINE grown == [index EXCEPT !.todo = @ \ {p}, !.seen = @ \union {p},
                                        !.changed = @ \union {Meta(p)}]
      <4>1. PICK pc \in {"inspect", "walk"} : index' = [grown EXCEPT !.pc = pc]
        BY <2>1, <3>5 DEF Visit, Meta
      <4>2. grown \in IndexType
        BY <1>0, <3>1, <3>5 DEF IndexType
      <4> HIDE DEF grown
      <4> QED
        BY <1>1, <4>1, <4>2
    <3> QED
      BY <3>3, <3>4, <3>5
  <2> QED
    BY <1>0, <2>2, <2>4, <2>5 DEF IndexOK
<1>4. CASE WalkError
  <2>1. PICK lost \in SUBSET index.todo :
           index' = [index EXCEPT !.todo = @ \ lost, !.complete = FALSE, !.touched = TRUE]
    BY <1>4 DEF WalkError
  <2>2. index' \in IndexType
    BY <1>0, <2>1 DEF IndexType
  <2>3. /\ index.pc = "walk" /\ index'.pc = "walk" /\ index'.changed = index.changed
        /\ index'.results = index.results /\ index'.outcome = index.outcome
    BY <1>0, <1>4, WalkErrorEffect DEF Kept
  <2> QED
    BY <2>2, <2>3 DEF IndexOK
<1>5. CASE EndRoot
  <2>1. /\ index.pc = "walk" /\ index'.pc = "walk" /\ index'.changed = index.changed
        /\ index'.results = index.results /\ index'.outcome = index.outcome
        /\ index.root <= Len(Roots)
    BY <1>0, <1>5, EndRootEffect DEF Kept
  <2>2. index.root \in DOMAIN Roots
    BY <1>0, <2>1 DEF IndexType
  <2>3. (IF index.root < Len(Roots) THEN Roots[index.root + 1] ELSE {}) \in SUBSET Paths
    BY <1>0, <2>2
  <2>4. (IF index.complete THEN index.trusted \union {index.root} ELSE index.trusted)
        \in SUBSET (DOMAIN Roots)
    BY <1>0, <2>2 DEF IndexType
  <2>5. index.root + 1 \in Nat \ {0}
    BY <1>0 DEF IndexType
  <2>6. index' \in IndexType
    <3>1. ASSUME NEW t \in SUBSET Paths, NEW n \in SUBSET (DOMAIN Roots), NEW k \in Nat \ {0}
          PROVE  [index EXCEPT !.trusted = n, !.root = k, !.complete = TRUE, !.todo = t]
                 \in IndexType
      BY <1>0 DEF IndexType
    <3>2. index' = [index EXCEPT
                    !.trusted = IF index.complete THEN index.trusted \union {index.root}
                                ELSE index.trusted,
                    !.root = index.root + 1, !.complete = TRUE,
                    !.todo = IF index.root < Len(Roots) THEN Roots[index.root + 1] ELSE {}]
      BY <1>5 DEF EndRoot
    <3> QED
      BY <2>3, <2>4, <2>5, <3>1, <3>2
  <2> QED
    BY <2>1, <2>6 DEF IndexOK
<1>6. CASE EndWalk
  <2>1. index.pc = "walk" /\ index' = [index EXCEPT !.pc = "inspect"]
    BY <1>0, <1>6, EndWalkEffect
  <2>2. index' \in IndexType
    BY <1>0, <1>1, <2>1
  <2> QED
    BY <1>0, <2>1, <2>2 DEF IndexOK, IndexType
<1>7. CASE \E meta \in index.changed : Inspect(meta) \/ InspectError(meta)
  <2>1. PICK meta \in index.changed : Inspect(meta) \/ InspectError(meta)
    BY <1>7
  <2>2. /\ Kept /\ index.pc = "inspect" /\ index'.pc = "inspect"
        /\ index'.changed = index.changed \ {meta}
        /\ index'.results = index.results \/ Verdict(meta)
    BY <1>0, <2>1, InspectEffect
  <2>3. IsFiniteSet(index'.changed) /\ Cardinality(index'.changed) <= Batch
    <3>1. /\ IsFiniteSet(index'.changed) /\ Cardinality(index'.changed) \in Nat
          /\ Cardinality(index'.changed) <= Cardinality(index.changed)
      <4>1. IsFiniteSet(index.changed) /\ index'.changed = index.changed \ {meta}
        BY <1>0, <2>2
      <4> QED
        BY <4>1, OneMoreOrLess
    <3> QED
      BY <1>0, <3>1
  <2>4. /\ IsFiniteSet(index'.results) /\ index'.results \subseteq Results
        /\ \A r \in index'.results : r.faces # {} => r.ok
    <3>1. CASE index'.results = index.results
      BY <1>0, <3>1 DEF IndexType
    <3>2. CASE index'.results # index.results
      <4>1. PICK ok \in BOOLEAN, faces \in SUBSET Names :
                 /\ index'.results = index.results \union
                                        {[meta |-> meta, ok |-> ok, faces |-> faces]}
                 /\ ~ok => faces = {}
        BY <2>2, <3>2 DEF Verdict
      <4>2. IsFiniteSet(index'.results)
        <5>1. IsFiniteSet(index.results)
          BY <1>0
        <5>2. PICK x : index'.results = index.results \union {x}
          BY <4>1
        <5> QED
          BY <5>1, <5>2, OneMoreOrLess
      <4>3. [meta |-> meta, ok |-> ok, faces |-> faces] \in Results
        BY <1>0 DEF Results, IndexType
      <4> QED
        BY <1>0, <4>1, <4>2, <4>3 DEF IndexType
    <3> QED
      BY <3>1, <3>2
  <2>5. index' \in IndexType
    <3>1. \E rs : index' = [index EXCEPT !.changed = @ \ {meta}, !.touched = TRUE, !.results = rs]
      <4>1. CASE index' = [index EXCEPT !.changed = @ \ {meta}, !.touched = TRUE]
        <5>1. index' = [index EXCEPT !.changed = @ \ {meta}, !.touched = TRUE,
                                     !.results = index.results]
          BY <1>0, <4>1 DEF IndexType
        <5> QED
          BY <5>1
      <4>2. CASE \E f : index' = Found(meta, f)
        BY <4>2 DEF Found
      <4>3. CASE index' = Failed(meta)
        BY <4>3 DEF Failed
      <4> QED
        BY <2>1, <4>1, <4>2, <4>3 DEF Inspect, InspectError
    <3>2. PICK rs : index' = [index EXCEPT !.changed = @ \ {meta}, !.touched = TRUE, !.results = rs]
      BY <3>1
    <3>3. rs \in SUBSET Results
      BY <1>0, <2>4, <3>2 DEF IndexType
    <3> QED
      BY <1>0, <3>2, <3>3 DEF IndexType
  <2> QED
    BY <1>0, <2>2, <2>3, <2>4, <2>5 DEF IndexOK, Kept
<1>8. CASE EndPrune
  <2>1. CASE index' = [index EXCEPT !.pc = "bump"]
    <3>1. index' \in IndexType
      BY <1>0, <1>1, <2>1
    <3>2. index.pc = "prune"
      BY <1>8 DEF EndPrune
    <3> QED
      BY <1>0, <2>1, <3>1, <3>2 DEF IndexOK, IndexType
  <2>2. CASE Ended
    BY <2>2, EndedOK
  <2> QED
    BY <1>0, <1>8, <2>1, <2>2, EndPruneEffect
<1> QED
  BY <1>2, <1>3, <1>4, <1>5, <1>6, <1>7, <1>8 DEF Looks

LEMMA NextIndex ==
  ASSUME DiskOK, RowsOK, IndexOK, RootInv, [Next]_vars
  PROVE  IndexOK'
<1>1. CASE index' = index
  BY <1>1 DEF IndexOK
<1>2. CASE Looks
  BY <1>2, LookIndexOK
<1>3. CASE WriteResults
  <2>1. /\ index.pc = "inspect" /\ index.changed = {}
        /\ index' = [index EXCEPT !.pc = AfterWrite, !.results = {}]
    BY <1>3 DEF WriteResults
  <2>2. AfterWrite \in {"prune", "walk"}
    BY DEF AfterWrite
  <2>3. /\ index'.changed = {} /\ index'.results = {} /\ index'.outcome = index.outcome
        /\ index' \in IndexType
    BY <2>1, <2>2 DEF IndexOK, IndexType
  <2>4. IsFiniteSet({}) /\ Cardinality({}) = 0 /\ Batch \in Nat \ {0}
    BY FS_EmptySet, IndexAssumption DEF IndexAssumption
  <2>5. index.outcome = "none"
    BY <2>1 DEF IndexOK
  <2> QED
    BY <2>3, <2>4, <2>5 DEF IndexOK
<1>4. CASE Prune
  <2>1. index' = [index EXCEPT !.touched = TRUE]
    BY <1>4 DEF Prune
  <2> QED
    BY <2>1 DEF IndexOK, IndexType
<1>5. CASE BumpRevision
  <2>1. index.pc = "bump" /\ index' = [index EXCEPT !.pc = "save"]
    BY <1>5 DEF BumpRevision
  <2> QED
    BY <2>1 DEF IndexOK, IndexType
<1>6. CASE SaveRevision \/ RebuildError \/ Crash
  <2>1. Ended
    BY <1>6 DEF Ended, SaveRevision, RebuildError, Crash
  <2> QED
    BY <2>1, EndedOK
<1>7. CASE WriteDisk
  BY <1>1, <1>7 DEF WriteDisk
<1>8. CASE \E s \in Subtitles : JobNext(s)
  BY <1>1, <1>8, JobFrame
<1>9. CASE UNCHANGED vars
  BY <1>1, <1>9 DEF vars
<1> QED
  BY <1>2, <1>3, <1>4, <1>5, <1>6, <1>7, <1>8, <1>9, StepCases

LEMMA IdleJobType == IdleJob \in JobType /\ IdleJob.pc = "idle" /\ IdleJob.rev = 0
<1>1. /\ IdleJob = [pc |-> "idle", rev |-> 0, path |-> IdleJob.path, id |-> 0, read |-> NoHash]
      /\ IdleJob.pc = "idle" /\ IdleJob.rev = 0
  BY DEF IdleJob
<1> QED
  BY <1>1 DEF JobType, Hashes

(* What a conversion does: the steps of its record, and the outcome it leaves. *)
LEMMA JobEffect ==
  ASSUME DiskOK, RowsOK, JobsOK, CountersOK, TakenInv, NEW s \in Subtitles, JobNext(s)
  PROVE  \E next \in JobType :
            /\ job' = [job EXCEPT ![s] = next]
            /\ next.rev = job[s].rev \/ next.rev = revision \/ next.rev = 0
            /\ next.pc = "lacking" => /\ Candidates(Wanted[s]) = {} /\ row' = row
                                      /\ next.rev = job[s].rev
            /\ next.pc \in {"memo", "hash", "store", "subset"} =>
                  \/ /\ job[s].pc \in {"memo", "hash", "store", "subset"}
                     /\ next.path = job[s].path /\ next.id = job[s].id
                     /\ next.pc = "store" => next.read # NoHash /\ next.read[1] = next.path
                  \/ /\ next.pc # "store" /\ next.path \in Paths /\ row' = row
                     /\ next.id = row[next.path].id /\ row[next.path] # NoRow
            /\ \/ result' = result
               \/ \E status \in {"partial", "success", "failed"} :
                     /\ status = "partial" => job[s].pc = "lacking"
                     /\ \/ result' = [result EXCEPT ![s] = [status |-> status, rev |-> job[s].rev]]
                        \/ status = "failed" /\ result' = [result EXCEPT ![s].status = status]
<1>0. job[s] \in JobType /\ revision \in Nat /\ job \in [Subtitles -> JobType]
  BY DEF JobsOK, CountersOK
<1>1. CASE StartJob(s)
  <2> DEFINE next == [IdleJob EXCEPT !.pc = "query", !.rev = revision]
  <2>1. job' = [job EXCEPT ![s] = next] /\ result' = result
    BY <1>1 DEF StartJob, Step
  <2>2. next \in JobType /\ next.rev = revision /\ next.pc = "query"
    BY <1>0, IdleJobType DEF JobType
  <2> QED
    BY <2>1, <2>2
<1>2. CASE QueryFont(s)
  <2>1. row' = row /\ result' = result
    BY <1>2 DEF QueryFont
  <2>2. CASE Candidates(Wanted[s]) = {}
    <3> DEFINE next == [job[s] EXCEPT !.pc = "lacking"]
    <3>1. job' = [job EXCEPT ![s] = next]
      BY <1>2, <2>2 DEF QueryFont, Step
    <3>2. next \in JobType /\ next.rev = job[s].rev /\ next.pc = "lacking"
      BY <1>0 DEF JobType
    <3> QED
      BY <2>1, <2>2, <3>1, <3>2
  <2>3. CASE Candidates(Wanted[s]) # {}
    <3>1. PICK p \in Candidates(Wanted[s]) :
             job' = [job EXCEPT ![s] = [job[s] EXCEPT !.path = p, !.id = row[p].id,
                           !.pc = IF row[p].hash # NoHash THEN "subset" ELSE "memo"]]
      BY <1>2, <2>3 DEF QueryFont, Step
    <3>2. PICK pc \in {"subset", "memo"} :
             job' = [job EXCEPT ![s] = [job[s] EXCEPT !.path = p, !.id = row[p].id, !.pc = pc]]
      BY <3>1
    <3> DEFINE next == [job[s] EXCEPT !.path = p, !.id = row[p].id, !.pc = pc]
    <3>3. p \in Paths /\ row[p] # NoRow /\ row[p].id \in Nat
      BY DEF Candidates, RowsOK, Rows
    <3>4. next \in JobType /\ next.rev = job[s].rev /\ next.pc = pc /\ next.path = p
          /\ next.id = row[p].id
      BY <1>0, <3>3 DEF JobType
    <3> HIDE DEF next
    <3> QED
      BY <2>1, <3>2, <3>3, <3>4 DEF next
  <2> QED
    BY <2>2, <2>3
<1>3. CASE LookMemo(s)
  <2>1. job[s].pc = "memo" /\ result' = result
    BY <1>3 DEF LookMemo
  <2>2. PICK pc \in {"subset", "hash"} : job' = [job EXCEPT ![s] = [job[s] EXCEPT !.pc = pc]]
    BY <1>3 DEF LookMemo, Step
  <2> DEFINE next == [job[s] EXCEPT !.pc = pc]
  <2>3. next \in JobType /\ next.rev = job[s].rev /\ next.pc = pc /\ next.path = job[s].path
        /\ next.id = job[s].id
    BY <1>0 DEF JobType
  <2> HIDE DEF next
  <2> QED
    BY <2>1, <2>2, <2>3 DEF next
<1>4. CASE HashFile(s)
  <2> DEFINE read == <<job[s].path, disk[job[s].path].stamp>>
             next == [job[s] EXCEPT !.pc = "store", !.read = read]
  <2>1. job[s].pc = "hash" /\ disk[job[s].path] # Absent /\ result' = result
        /\ job' = [job EXCEPT ![s] = next]
    BY <1>4 DEF HashFile, Step
  <2>2. job[s].path \in Paths
    BY <2>1 DEF TakenInv, TakenFont
  <2>3. read \in Paths \X Nat /\ read # NoHash /\ read[1] = job[s].path
    BY <2>1, <2>2 DEF DiskOK, NoHash
  <2>4. next \in JobType /\ next.rev = job[s].rev /\ next.pc = "store"
        /\ next.path = job[s].path /\ next.id = job[s].id /\ next.read = read
    BY <1>0, <2>3 DEF JobType, Hashes
  <2> HIDE DEF next, read
  <2> QED
    BY <2>1, <2>3, <2>4
<1>5. CASE StoreMemo(s)
  <2> DEFINE next == [job[s] EXCEPT !.pc = "subset"]
  <2>1. job[s].pc = "store" /\ result' = result /\ job' = [job EXCEPT ![s] = next]
    BY <1>5 DEF StoreMemo, Step
  <2>2. next \in JobType /\ next.rev = job[s].rev /\ next.pc = "subset"
        /\ next.path = job[s].path /\ next.id = job[s].id
    BY <1>0 DEF JobType
  <2> HIDE DEF next
  <2> QED
    BY <2>1, <2>2
<1>6. CASE SettleJob(s)
  <2>1. PICK status \in {"partial", "success"} :
           /\ status = "partial" => job[s].pc = "lacking"
           /\ result' = [result EXCEPT ![s] = [status |-> status, rev |-> job[s].rev]]
           /\ job' = [job EXCEPT ![s] = IdleJob]
    BY <1>6 DEF SettleJob, Settle, Step
  <2> QED
    BY <2>1, IdleJobType
<1>7. CASE JobError(s)
  <2>1. result' = [result EXCEPT ![s].status = "failed"] /\ job' = [job EXCEPT ![s] = IdleJob]
    BY <1>7 DEF JobError, Step
  <2> QED
    BY <2>1, IdleJobType
<1> QED
  BY <1>1, <1>2, <1>3, <1>4, <1>5, <1>6, <1>7 DEF JobNext

(* Everybody else leaves the conversions alone, or ends them all. *)
LEMMA JobsRest ==
  ASSUME [Next]_vars, ~ \E s \in Subtitles : JobNext(s)
  PROVE  result' = result /\ (job' = job \/ (Crash /\ job' = [s \in Subtitles |-> IdleJob]))
<1>1. CASE Looks
  BY <1>1, LookFrame
<1>2. CASE WriteDisk \/ WriteResults \/ Prune \/ BumpRevision \/ SaveRevision \/ RebuildError
  BY <1>2 DEF WriteDisk, WriteResults, Prune, BumpRevision, SaveRevision, RebuildError
<1>3. CASE Crash
  BY <1>3 DEF Crash
<1>4. CASE UNCHANGED vars
  BY <1>4 DEF vars
<1> QED
  BY <1>1, <1>2, <1>3, <1>4, StepCases

LEMMA NextJobs ==
  ASSUME DiskOK, RowsOK, JobsOK, CountersOK, TakenInv, [Next]_vars
  PROVE  JobsOK'
<1>1. CASE \E s \in Subtitles : JobNext(s)
  <2>1. PICK s \in Subtitles : JobNext(s)
    BY <1>1
  <2>2. PICK next \in JobType :
            /\ job' = [job EXCEPT ![s] = next]
            /\ \/ result' = result
               \/ \E status \in {"partial", "success", "failed"} :
                     \/ result' = [result EXCEPT ![s] = [status |-> status, rev |-> job[s].rev]]
                     \/ result' = [result EXCEPT ![s].status = status]
    BY <2>1, JobEffect
  <2>3. job' \in [Subtitles -> JobType]
    BY <2>2 DEF JobsOK
  <2>4. result' \in [Subtitles -> ResultType]
    <3>1. job[s].rev \in Nat /\ result \in [Subtitles -> ResultType] /\ result[s] \in ResultType
      BY DEF JobsOK, JobType
    <3>2. CASE \E status \in {"partial", "success", "failed"} :
                  result' = [result EXCEPT ![s] = [status |-> status, rev |-> job[s].rev]]
      BY <3>1, <3>2 DEF ResultType
    <3>3. CASE \E status \in {"partial", "success", "failed"} :
                  result' = [result EXCEPT ![s].status = status]
      BY <3>1, <3>3 DEF ResultType
    <3> QED
      BY <2>2, <3>1, <3>2, <3>3
  <2> QED
    BY <2>3, <2>4 DEF JobsOK
<1>2. CASE ~ \E s \in Subtitles : JobNext(s)
  BY <1>2, JobsRest, IdleJobType DEF JobsOK
<1> QED
  BY <1>1, <1>2

LEMMA NextCounters ==
  ASSUME DiskOK, RowsOK, CountersOK, [Next]_vars
  PROVE  CountersOK'
<1>1. CASE UNCHANGED vars
  BY <1>1 DEF vars, counts, CountersOK
<1>2. CASE WriteDisk \/ WriteResults \/ Prune \/ SaveRevision
  BY <1>2 DEF WriteDisk, WriteResults, Prune, SaveRevision, Steady, counts, CountersOK
<1>3. CASE BumpRevision
  BY <1>3 DEF BumpRevision, Steady, counts, CountersOK
<1>4. CASE Crash \/ RebuildError
  BY <1>4 DEF Crash, RebuildError, Fault, CountersOK
<1>5. CASE Looks
  <2>1. UNCHANGED <<revision, saved, jobs>>
    BY <1>5, LookFrame
  <2>2. rebuilds' \in {rebuilds, rebuilds + 1} /\ faults' \in {faults, faults + 1}
    <3>1. CASE StartRebuild
      BY <3>1 DEF StartRebuild
    <3>2. CASE WalkError \/ \E meta \in index.changed : InspectError(meta)
      BY <3>2 DEF WalkError, InspectError, Fault
    <3>3. CASE \/ EndRoot \/ EndWalk \/ EndPrune \/ \E p \in Paths : Visit(p)
               \/ \E meta \in index.changed : Inspect(meta)
      BY <3>3 DEF EndRoot, EndWalk, EndPrune, Visit, Inspect, Steady, counts
    <3> QED
      BY <1>5, <3>1, <3>2, <3>3 DEF Looks
  <2> QED
    BY <2>1, <2>2 DEF CountersOK
<1>6. CASE \E s \in Subtitles : JobNext(s)
  <2>1. UNCHANGED <<revision, saved, rebuilds, faults>>
    BY <1>6, JobFrame
  <2>2. jobs' \in {jobs, jobs + 1}
    BY <1>6 DEF JobNext, StartJob, QueryFont, LookMemo, HashFile, StoreMemo, SettleJob, JobError,
                counts
  <2> QED
    BY <2>1, <2>2 DEF CountersOK
<1> QED
  BY <1>1, <1>2, <1>3, <1>4, <1>5, <1>6, StepCases

-------------------------------------------------------------------------------
(* Ids and memoised hashes.                                                    *)

(* A row keeps its id, loses it, or gets one that nobody ever had. *)
LEMMA IdsMove ==
  ASSUME RowsOK, IndexOK, LoadInv, [Next]_vars, NEW p \in Paths
  PROVE  row'[p].id = row[p].id \/ row'[p].id = 0 \/ row'[p].id >= nextId
<1>1. CASE WriteResults
  BY <1>1, WriteEffect DEF Written
<1>2. CASE Prune
  BY <1>2, PruneEffect, NoRowType
<1>3. CASE \E s \in Subtitles : JobNext(s)
  BY <1>3, JobFrame DEF Alike
<1>4. CASE WriteDisk \/ Looks \/ BumpRevision \/ SaveRevision \/ RebuildError \/ Crash \/ UNCHANGED vars
  BY <1>4, LookFrame DEF WriteDisk, BumpRevision, SaveRevision, RebuildError, Crash, rows, vars
<1> QED
  BY <1>1, <1>2, <1>3, <1>4, StepCases

LEMMA NextTaken ==
  ASSUME DiskOK, RowsOK, IndexOK, JobsOK, CountersOK, TakenInv, LoadInv, [Next]_vars
  PROVE  TakenInv'
<1>1. HashOfOwnPath'
  <2>1. CASE \E s \in Subtitles : StoreMemo(s)
    <3>1. PICK s \in Subtitles : StoreMemo(s)
      BY <2>1
    <3>2. TakenFont(job[s]) /\ job[s].pc = "store"
      BY <3>1 DEF StoreMemo, TakenInv
    <3>3. ASSUME NEW p \in Paths, row'[p].hash # NoHash PROVE row'[p].hash[1] = p
      <4>1. row'[p] = row[p] \/ (row[p].id = job[s].id /\ row'[p] = [row[p] EXCEPT !.hash = job[s].read])
        BY <3>1 DEF StoreMemo
      <4>2. CASE row'[p] = row[p]
        BY <3>3, <4>2 DEF TakenInv, HashOfOwnPath
      <4>3. CASE row[p].id = job[s].id /\ row'[p] = [row[p] EXCEPT !.hash = job[s].read]
        <5>1. row[p] \in Rows /\ p = job[s].path /\ job[s].read[1] = job[s].path
          BY <3>2, <4>3 DEF TakenFont, RowsOK
        <5>2. row'[p].hash = job[s].read
          BY <4>3, <5>1 DEF Rows
        <5> QED
          BY <5>1, <5>2
      <4> QED
        BY <4>1, <4>2, <4>3
    <3> QED
      BY <3>3 DEF HashOfOwnPath
  <2>2. CASE WriteResults
    BY <2>2, WriteEffect DEF Written, TakenInv, HashOfOwnPath
  <2>3. CASE Prune
    BY <2>3, PruneEffect, NoRowType DEF TakenInv, HashOfOwnPath
  <2>4. CASE \E s \in Subtitles : JobNext(s) /\ ~StoreMemo(s)
    BY <2>4, JobFrame DEF TakenInv, HashOfOwnPath
  <2>5. CASE WriteDisk \/ Looks \/ BumpRevision \/ SaveRevision \/ RebuildError \/ Crash
             \/ UNCHANGED vars
    <3>1. row' = row
      BY <2>5, LookFrame DEF WriteDisk, BumpRevision, SaveRevision, RebuildError, Crash, rows, vars
    <3> QED
      BY <3>1 DEF TakenInv, HashOfOwnPath
  <2> QED
    BY <2>1, <2>2, <2>3, <2>4, <2>5, StepCases
<1>2. nextId' >= nextId /\ nextId' \in Nat /\ nextId \in Nat
  BY NextRows DEF RowsOK
<1>3. ASSUME NEW j, TakenFont(j), j.id \in Nat
      PROVE  /\ j.path \in Paths /\ j.id # 0 /\ j.id < nextId'
             /\ \A p \in Paths : row'[p].id = j.id => p = j.path
  BY <1>2, <1>3, IdsMove DEF TakenFont
<1>4. ASSUME NEW t \in Subtitles, job'[t].pc \in {"memo", "hash", "store", "subset"}
      PROVE  /\ job'[t].path \in Paths /\ job'[t].id # 0 /\ job'[t].id < nextId'
             /\ \A p \in Paths : row'[p].id = job'[t].id => p = job'[t].path
             /\ job'[t].pc = "store" => job'[t].read # NoHash /\ job'[t].read[1] = job'[t].path
  <2>1. CASE job'[t] = job[t]
    <3>1. TakenFont(job[t]) /\ job[t].id \in Nat
      BY <1>4, <2>1 DEF TakenInv, JobsOK, JobType
    <3> QED
      BY <1>3, <2>1, <3>1 DEF TakenFont
  <2>2. CASE JobNext(t)
    <3>1. PICK next \in JobType :
            /\ job' = [job EXCEPT ![t] = next]
            /\ next.pc \in {"memo", "hash", "store", "subset"} =>
                  \/ /\ job[t].pc \in {"memo", "hash", "store", "subset"}
                     /\ next.path = job[t].path /\ next.id = job[t].id
                     /\ next.pc = "store" => next.read # NoHash /\ next.read[1] = next.path
                  \/ /\ next.pc # "store" /\ next.path \in Paths /\ row' = row
                     /\ next.id = row[next.path].id /\ row[next.path] # NoRow
      BY <2>2, JobEffect
    <3>2. job'[t] = next
      BY <3>1 DEF JobsOK
    <3>3. CASE /\ job[t].pc \in {"memo", "hash", "store", "subset"}
               /\ next.path = job[t].path /\ next.id = job[t].id
               /\ next.pc = "store" => next.read # NoHash /\ next.read[1] = next.path
      <4>1. TakenFont(job[t]) /\ job[t].id \in Nat
        BY <3>3 DEF TakenInv, JobsOK, JobType
      <4> QED
        BY <1>3, <3>2, <3>3, <4>1
    <3>4. CASE /\ next.pc # "store" /\ next.path \in Paths /\ row' = row
               /\ next.id = row[next.path].id /\ row[next.path] # NoRow
      <4>1. next.id # 0 /\ next.id < nextId /\ next.id \in Nat
        BY <3>4 DEF RowsOK, Rows
      <4>2. ASSUME NEW p \in Paths, row'[p].id = next.id PROVE p = next.path
        BY <3>4, <4>1, <4>2 DEF RowsOK
      <4> QED
        BY <1>2, <3>2, <3>4, <4>1, <4>2
    <3> QED
      BY <1>4, <3>1, <3>2, <3>3, <3>4
  <2>3. CASE ~JobNext(t) /\ \E s \in Subtitles : JobNext(s)
    <3>1. PICK s \in Subtitles : JobNext(s) /\ s # t
      BY <2>3
    <3>2. \E next : job' = [job EXCEPT ![s] = next]
      BY <3>1, JobEffect
    <3>3. job'[t] = job[t]
      BY <3>1, <3>2 DEF JobsOK
    <3> QED
      BY <2>1, <3>3
  <2>4. CASE ~ \E s \in Subtitles : JobNext(s)
    <3>1. job' = job \/ job' = [s \in Subtitles |-> IdleJob]
      BY <2>4, JobsRest
    <3>2. job' = job
      BY <1>4, <3>1, IdleJobType
    <3> QED
      BY <2>1, <3>2
  <2> QED
    BY <2>2, <2>3, <2>4
<1> QED
  BY <1>1, <1>4 DEF TakenInv, TakenFont

-------------------------------------------------------------------------------
(* What a rebuild loaded, has passed, and found out.                           *)

(* What a step within a rebuild leaves of its progress. *)
OnlyStage ==
    /\ index'.existing = index.existing /\ index'.root = index.root /\ index'.todo = index.todo
    /\ index'.complete = index.complete /\ index'.seen = index.seen
    /\ index'.changed = index.changed /\ index'.trusted = index.trusted
    /\ index'.outcome = index.outcome

LEMMA WriteStage ==
  ASSUME index \in IndexType, WriteResults
  PROVE  /\ index.pc = "inspect" /\ index'.pc = AfterWrite /\ OnlyStage
         /\ index.changed = {} /\ index'.results = {} /\ index'.touched = index.touched
         /\ UNCHANGED <<disk, writes, calm, gone, revision, saved, broken, reverted>>
         /\ dirty' = (dirty \/ index.results # {})
<1>1. /\ index.pc = "inspect" /\ index.changed = {}
      /\ index' = [index EXCEPT !.pc = AfterWrite, !.results = {}]
      /\ UNCHANGED <<disk, writes, calm, gone, revision, saved, broken, reverted>>
      /\ dirty' = (dirty \/ index.results # {})
  BY DEF WriteResults, Steady, counts
<1> QED
  BY <1>1 DEF IndexType, OnlyStage

LEMMA PruneStage ==
  ASSUME index \in IndexType, Prune
  PROVE  /\ index.pc = "prune" /\ index'.pc = "prune" /\ OnlyStage
         /\ index'.results = index.results /\ index'.touched /\ dirty'
         /\ UNCHANGED <<disk, writes, calm, gone, revision, saved, broken, reverted>>
<1>1. /\ index.pc = "prune" /\ index' = [index EXCEPT !.touched = TRUE] /\ dirty'
      /\ UNCHANGED <<disk, writes, calm, gone, revision, saved, broken, reverted>>
  BY DEF Prune, Steady, counts
<1> QED
  BY <1>1 DEF IndexType, OnlyStage

LEMMA BumpStage ==
  ASSUME index \in IndexType, BumpRevision
  PROVE  /\ index.pc = "bump" /\ index'.pc = "save" /\ OnlyStage
         /\ index'.results = index.results /\ index'.touched = index.touched
         /\ revision' = revision + 1 /\ ~dirty' /\ ~broken'
         /\ UNCHANGED <<disk, row, nextId, writes, calm, gone, saved, reverted>>
<1>1. /\ index.pc = "bump" /\ index' = [index EXCEPT !.pc = "save"]
      /\ revision' = revision + 1 /\ ~dirty' /\ ~broken'
      /\ UNCHANGED <<disk, row, nextId, writes, calm, gone, saved, reverted>>
  BY DEF BumpRevision, Steady, counts, rows
<1> QED
  BY <1>1 DEF IndexType, OnlyStage

LEMMA SaveStage ==
  ASSUME SaveRevision
  PROVE  /\ index.pc = "save" /\ Ended /\ index'.outcome = "ok"
         /\ UNCHANGED <<disk, row, nextId, writes, calm, gone, revision, dirty, broken, reverted>>
  BY DEF SaveRevision, Steady, counts, rows, Ended, IdleIndex

LEMMA FailStage ==
  ASSUME RebuildError \/ Crash
  PROVE  /\ Ended /\ index'.outcome # "ok" /\ ~calm' /\ dirty' = dirty /\ broken' = (broken \/ dirty)
         /\ UNCHANGED <<disk, row, nextId, writes, gone>>
<1>1. CASE RebuildError
  BY <1>1 DEF RebuildError, Fault, rows, Ended, IdleIndex
<1>2. CASE Crash
  BY <1>2 DEF Crash, Fault, rows, Ended, IdleIndex
<1> QED
  BY <1>1, <1>2

LEMMA DiskStage ==
  ASSUME WriteDisk
  PROVE  /\ UNCHANGED <<row, nextId, index, revision, saved, dirty, broken, reverted>> /\ ~calm'
         /\ writes' = writes + 1
         /\ \E p \in Paths :
               \E file \in {Absent} \union {[content |-> c, stamp |-> writes'] : c \in Contents} :
                  /\ disk' = [disk EXCEPT ![p] = file]
                  /\ gone' = IF file = Absent THEN gone \union {p} ELSE gone
  BY DEF WriteDisk, rows

LEMMA NextRoot ==
  ASSUME DiskOK, RowsOK, IndexOK, RootInv, [Next]_vars
  PROVE  RootInv'
<1>0. /\ index \in IndexType /\ Len(Roots) \in Nat /\ DOMAIN Roots = 1..Len(Roots)
      /\ Roots \in Seq(SUBSET Paths)
  BY IndexAssumption DEF IndexOK, IndexAssumption
<1>1. CASE OnlyStage /\ (index'.pc \in {"prune", "bump", "save"} => index.pc \in {"prune", "bump", "save"})
  BY <1>1 DEF RootInv, OnlyStage
<1>2. CASE Ended
  BY <1>0, <1>2, EndedEffect DEF RootInv
<1>3. CASE index' = index
  BY <1>3 DEF RootInv
<1>4. CASE StartRebuild
  <2>1. /\ index'.pc = "walk" /\ index'.root = 1
        /\ index'.todo = (IF Roots = <<>> THEN {} ELSE Roots[1])
    BY <1>4, StartEffect
  <2> QED
    BY <1>0, <2>1 DEF RootInv
<1>5. CASE \E p \in Paths : Visit(p)
  <2>1. PICK p \in Paths : Visit(p)
    BY <1>5
  <2>2. /\ index'.todo = index.todo \ {p} /\ index'.root = index.root
        /\ index'.pc \in {"walk", "inspect"}
    BY <1>0, <2>1, VisitEffect
  <2> QED
    BY <2>2 DEF RootInv
<1>6. CASE WalkError
  BY <1>0, <1>6, WalkErrorEffect DEF RootInv
<1>7. CASE EndRoot
  <2>1. /\ index'.root = index.root + 1 /\ index'.pc = "walk" /\ index.root <= Len(Roots)
        /\ index'.todo = IF index.root < Len(Roots) THEN Roots[index.root + 1] ELSE {}
    BY <1>0, <1>7, EndRootEffect
  <2>2. index.root \in Nat
    BY <1>0 DEF IndexType
  <2> QED
    BY <1>0, <2>1, <2>2 DEF RootInv
<1>8. CASE EndWalk
  BY <1>0, <1>8, EndWalkEffect DEF RootInv, IndexType
<1>9. CASE \E meta \in index.changed : Inspect(meta) \/ InspectError(meta)
  <2>1. index'.pc = "inspect" /\ index'.root = index.root /\ index'.todo = index.todo
    BY <1>0, <1>9, InspectEffect
  <2> QED
    BY <2>1 DEF RootInv
<1>10. CASE EndPrune
  <2>1. index.pc = "prune" /\ (index' = [index EXCEPT !.pc = "bump"] \/ Ended)
    BY <1>0, <1>10, EndPruneEffect
  <2>2. CASE index' = [index EXCEPT !.pc = "bump"]
    BY <1>0, <2>1, <2>2 DEF RootInv, IndexType
  <2> QED
    BY <1>2, <2>1, <2>2
<1>11. CASE WriteResults
  <2>1. index'.root = index.root /\ index'.todo = index.todo /\ index'.pc = AfterWrite
    BY <1>0, <1>11, WriteStage DEF OnlyStage
  <2>2. index.root \in Nat
    BY <1>0 DEF IndexType
  <2> QED
    BY <1>0, <2>1, <2>2 DEF RootInv, AfterWrite
<1>12. CASE Prune \/ BumpRevision
  BY <1>0, <1>1, <1>12, PruneStage, BumpStage
<1>13. CASE SaveRevision \/ RebuildError \/ Crash
  BY <1>2, <1>13, SaveStage, FailStage
<1>14. CASE WriteDisk \/ UNCHANGED vars \/ \E s \in Subtitles : JobNext(s)
  BY <1>3, <1>14, DiskStage, JobFrame DEF vars
<1> QED
  BY <1>4, <1>5, <1>6, <1>7, <1>8, <1>9, <1>10, <1>11, <1>12, <1>13, <1>14, StepCases DEF Looks

LEMMA AlikeRows ==
  ASSUME NEW r, NEW t, NEW u
  PROVE  /\ Alike(r, r)
         /\ Alike(r, t) /\ Alike(t, u) => Alike(r, u)
  BY DEF Alike

(* A step that leaves the table and the findings alone keeps what was loaded. *)
LEMMA LoadKept ==
  ASSUME LoadInv, RowsOK, RowsOK', index'.existing = index.existing, index'.seen = index.seen,
         \A p \in Paths : Alike(row'[p], row[p]),
         \A m \in Pending : m.path \in Paths, \A m \in Pending' : m \in Pending,
         index'.pc \in {"walk", "inspect"} => index.pc \in {"walk", "inspect"},
         index'.pc = "prune" => index.pc = "prune",
         index'.pc \notin {"walk", "inspect"} => Pending' = {}
  PROVE  LoadInv'
<1>1. \A p \in Paths : index'.existing[p].id = 0 <=> index'.existing[p] = NoRow
  BY DEF LoadInv
<1>2. ASSUME index'.pc \in {"walk", "inspect", "prune"}, NEW p \in Paths \ index'.seen
      PROVE  Alike(row'[p], index'.existing[p]) \/ (index'.pc = "prune" /\ row'[p] = NoRow)
  <2>1. /\ index.pc \in {"walk", "inspect", "prune"} /\ p \in Paths \ index.seen
        /\ index.pc = "prune" => index'.pc = "prune"
    BY <1>2
  <2>2. Alike(row'[p], row[p])
    BY <2>1
  <2>3. CASE Alike(row[p], index.existing[p])
    BY <2>2, <2>3, AlikeRows
  <2>4. CASE index.pc = "prune" /\ row[p] = NoRow
    <3>1. row'[p] = NoRow
      BY <2>1, <2>2, <2>4, NoRowType DEF Alike, RowsOK
    <3> QED
      BY <2>1, <2>4, <3>1
  <2> QED
    BY <2>1, <2>3, <2>4 DEF LoadInv
<1>3. index'.pc \notin {"walk", "inspect"} => Pending' = {}
  OBVIOUS
<1>4. \A m \in Pending' : m.path \in index'.seen /\ m.id = row'[m.path].id
  BY DEF LoadInv, Alike
<1> QED
  BY <1>1, <1>2, <1>3, <1>4 DEF LoadInv

LEMMA PendingPaths ==
  ASSUME IndexOK, NEW m \in Pending
  PROVE  m \in Metas /\ m.path \in Paths /\ m.stamp \in Nat /\ m.id \in Nat
  BY DEF IndexOK, IndexType, Results, Metas, Pending

(* What an inspection does to the findings: none is added. *)
LEMMA InspectPending ==
  ASSUME DiskOK, index \in IndexType, NEW meta \in index.changed, Inspect(meta) \/ InspectError(meta)
  PROVE  Pending' \subseteq Pending
<1>1. index'.changed = index.changed \ {meta} /\ (index'.results = index.results \/ Verdict(meta))
  BY InspectEffect
<1>2. CASE index'.results = index.results
  BY <1>1, <1>2 DEF Pending
<1>3. CASE index'.results # index.results
  <2>1. PICK ok \in BOOLEAN, faces \in SUBSET Names :
               index'.results = index.results \union {[meta |-> meta, ok |-> ok, faces |-> faces]}
    BY <1>1, <1>3 DEF Verdict
  <2>2. \A r \in index'.results : r \in index.results \/ r.meta = meta
    BY <2>1
  <2> QED
    BY <1>1, <2>2 DEF Pending
<1> QED
  BY <1>2, <1>3

LEMMA NextLoad ==
  ASSUME DiskOK, RowsOK, IndexOK, JobsOK, TakenInv, LoadInv, RootInv, [Next]_vars
  PROVE  LoadInv'
<1>0. /\ index \in IndexType /\ \A m \in Pending : m.path \in Paths
      /\ \A p \in Paths : Alike(row[p], row[p])
  BY PendingPaths, AlikeRows DEF IndexOK
<1>1. RowsOK'
  BY NextRows
<1>same. ASSUME row' = row PROVE \A p \in Paths : Alike(row'[p], row[p])
  BY <1>0, <1>same
<1>2. CASE StartRebuild
  <2>1. /\ index'.pc = "walk" /\ index'.existing = row /\ row' = row
        /\ index'.changed = {} /\ index'.results = {}
    BY <1>2, StartEffect
  <2>2. Pending' = {}
    BY <2>1 DEF Pending
  <2> QED
    BY <1>0, <2>1, <2>2 DEF LoadInv, RowsOK
<1>3. CASE \E p \in Paths : Visit(p)
  <2>1. PICK p \in Paths : Visit(p)
    BY <1>3
  <2>2. /\ index'.existing = index.existing /\ row' = row /\ index.pc = "walk"
        /\ index'.results = index.results /\ index'.pc \in {"walk", "inspect"}
    BY <1>0, <2>1, VisitEffect DEF Kept
  <2>3. /\ index.seen \subseteq index'.seen
        /\ index'.changed = index.changed
           \/ (p \in index'.seen /\ p \notin index.seen /\ index'.changed = index.changed \union {Meta(p)})
    BY <1>0, <2>1, VisitEffect
  <2>4. ASSUME NEW m \in Pending' PROVE m.path \in index'.seen /\ m.id = row'[m.path].id
    <3>1. CASE m \in Pending
      BY <2>2, <2>3, <3>1 DEF LoadInv
    <3>2. CASE m \notin Pending
      <4>1. m = Meta(p) /\ p \in index'.seen /\ p \notin index.seen
        BY <2>2, <2>3, <3>2 DEF Pending
      <4>2. m.path = p /\ m.id = index.existing[p].id
        BY <4>1 DEF Meta
      <4>3. Alike(row[p], index.existing[p])
        BY <2>2, <4>1 DEF LoadInv
      <4> QED
        BY <2>2, <4>1, <4>2, <4>3 DEF Alike
    <3> QED
      BY <3>1, <3>2
  <2> QED
    BY <2>2, <2>3, <2>4 DEF LoadInv
<1>4. CASE WalkError
  <2>1. /\ index'.existing = index.existing /\ row' = row /\ index'.seen = index.seen
        /\ index'.changed = index.changed /\ index'.results = index.results
        /\ index'.pc = index.pc /\ index.pc = "walk"
    BY <1>0, <1>4, WalkErrorEffect DEF Kept
  <2>2. Pending' = Pending
    BY <2>1 DEF Pending
  <2> QED
    BY <1>0, <1>1, <1>same, <2>1, <2>2, LoadKept
<1>5. CASE EndRoot
  <2>1. /\ index'.existing = index.existing /\ row' = row /\ index'.seen = index.seen
        /\ index'.changed = index.changed /\ index'.results = index.results
        /\ index'.pc = index.pc /\ index.pc = "walk"
    BY <1>0, <1>5, EndRootEffect DEF Kept
  <2>2. Pending' = Pending
    BY <2>1 DEF Pending
  <2> QED
    BY <1>0, <1>1, <1>same, <2>1, <2>2, LoadKept
<1>6. CASE EndWalk
  <2>1. /\ index'.existing = index.existing /\ row' = row /\ index'.seen = index.seen
        /\ index'.changed = index.changed /\ index'.results = index.results
        /\ index'.pc = "inspect" /\ index.pc = "walk"
    BY <1>0, <1>6, EndWalkEffect DEF Kept, IndexType
  <2>2. Pending' = Pending
    BY <2>1 DEF Pending
  <2> QED
    BY <1>0, <1>1, <1>same, <2>1, <2>2, LoadKept
<1>7. CASE \E meta \in index.changed : Inspect(meta) \/ InspectError(meta)
  <2>1. PICK meta \in index.changed : Inspect(meta) \/ InspectError(meta)
    BY <1>7
  <2>2. /\ index'.existing = index.existing /\ row' = row /\ index'.seen = index.seen
        /\ index'.pc = "inspect" /\ index.pc = "inspect"
    BY <1>0, <2>1, InspectEffect DEF Kept
  <2>3. Pending' \subseteq Pending
    BY <1>0, <2>1, InspectPending
  <2> QED
    BY <1>0, <1>1, <1>same, <2>2, <2>3, LoadKept
<1>8. CASE OnlyStage /\ row' = row /\ index'.results = index.results
           /\ index.pc \in {"prune", "bump"} /\ index'.pc \in {"bump", "save"}
  <2>1. Pending' = Pending /\ Pending = {}
    BY <1>8 DEF Pending, OnlyStage, LoadInv
  <2> QED
    BY <1>0, <1>1, <1>same, <1>8, <2>1, LoadKept DEF OnlyStage
<1>9. CASE Ended
  <2>1. /\ index'.pc = "off" /\ index'.changed = {} /\ index'.results = {}
        /\ index'.existing = [p \in Paths |-> NoRow]
    BY <1>9, EndedEffect
  <2>2. Pending' = {}
    BY <2>1 DEF Pending
  <2> QED
    BY <2>1, <2>2, NoRowType DEF LoadInv
<1>10. CASE EndPrune
  <2>1. index.pc = "prune" /\ row' = row /\ (index' = [index EXCEPT !.pc = "bump"] \/ Ended)
    BY <1>0, <1>10, EndPruneEffect
  <2>2. CASE index' = [index EXCEPT !.pc = "bump"]
    <3>1. OnlyStage /\ index'.results = index.results /\ index'.pc = "bump"
      BY <1>0, <2>2 DEF OnlyStage, IndexType
    <3> QED
      BY <1>8, <2>1, <3>1
  <2> QED
    BY <1>9, <2>1, <2>2
<1>11. CASE WriteResults
  <2>1. /\ index.pc = "inspect" /\ index'.pc \in {"walk", "prune"} /\ OnlyStage
        /\ index'.changed = {} /\ index'.results = {}
    BY <1>0, <1>11, WriteStage DEF OnlyStage, AfterWrite
  <2>2. Pending' = {}
    BY <2>1 DEF Pending
  <2>3. ASSUME NEW p \in Paths \ index'.seen
        PROVE  Alike(row'[p], index'.existing[p])
    <3>1. p \notin index.seen /\ index'.existing = index.existing
      BY <2>1 DEF OnlyStage
    <3>2. \A r \in index.results : r.meta.path # p
      BY <3>1 DEF LoadInv, Pending
    <3>3. row'[p] = row[p]
      BY <1>11, <3>2, WriteEffect DEF Written
    <3> QED
      BY <2>1, <3>1, <3>3 DEF LoadInv
  <2> QED
    BY <2>1, <2>2, <2>3 DEF LoadInv, OnlyStage
<1>12. CASE Prune
  <2>1. /\ index.pc = "prune" /\ index'.pc = "prune" /\ OnlyStage
        /\ index'.results = index.results
    BY <1>0, <1>12, PruneStage
  <2>2. Pending' = Pending /\ Pending = {}
    BY <2>1 DEF Pending, OnlyStage, LoadInv
  <2>3. \A p \in Paths : row'[p] = row[p] \/ row'[p] = NoRow
    BY <1>12, PruneEffect
  <2> QED
    BY <2>1, <2>2, <2>3 DEF LoadInv, OnlyStage
<1>13. CASE BumpRevision
  BY <1>0, <1>8, <1>13, BumpStage
<1>14. CASE SaveRevision \/ RebuildError \/ Crash
  BY <1>9, <1>14, SaveStage, FailStage
<1>15. CASE index' = index /\ \A p \in Paths : Alike(row'[p], row[p])
  <2>1. Pending' = Pending
    BY <1>15 DEF Pending
  <2>2. index.pc \notin {"walk", "inspect"} => Pending = {}
    BY DEF LoadInv
  <2> QED
    BY <1>0, <1>1, <1>15, <2>1, <2>2, LoadKept
<1>16. CASE WriteDisk \/ UNCHANGED vars
  BY <1>0, <1>15, <1>16, DiskStage DEF vars, rows
<1>17. CASE \E s \in Subtitles : JobNext(s)
  BY <1>15, <1>17, JobFrame
<1> QED
  BY <1>2, <1>3, <1>4, <1>5, <1>6, <1>7, <1>10, <1>11, <1>12, <1>13, <1>14, <1>16, <1>17,
     StepCases DEF Looks

(* Findings and rows that stay, or go, while files stay. *)
LEMMA TruthKept ==
  ASSUME TruthInv, disk' = disk, writes' = writes, \A p \in Paths : Alike(row'[p], row[p]),
         \A m \in Pending' : m \in Pending, \A r \in index'.results : r \in index.results
  PROVE  TruthInv'
  BY DEF TruthInv, True, Alike

LEMMA NextTruth ==
  ASSUME DiskOK, RowsOK, IndexOK, LoadInv, TruthInv, [Next]_vars
  PROVE  TruthInv'
<1>0. /\ index \in IndexType /\ \A m \in Pending : m.path \in Paths /\ m.stamp \in Nat
      /\ \A p \in Paths : Alike(row[p], row[p])
      /\ \A p \in Paths : row[p].stamp \in Int
      /\ writes \in Nat
  BY PendingPaths, AlikeRows DEF IndexOK, DiskOK, RowsOK, Rows
<1>same. ASSUME row' = row PROVE \A p \in Paths : Alike(row'[p], row[p])
  BY <1>0, <1>same
<1>1. CASE StartRebuild
  <2>1. /\ row' = row /\ disk' = disk /\ writes' = writes
        /\ index'.changed = {} /\ index'.results = {}
    BY <1>1, StartEffect
  <2>2. Pending' = {}
    BY <2>1 DEF Pending
  <2> QED
    BY <1>same, <2>1, <2>2, TruthKept
<1>2. CASE \E p \in Paths : Visit(p)
  <2>1. PICK p \in Paths : Visit(p)
    BY <1>2
  <2>2. /\ row' = row /\ disk' = disk /\ writes' = writes /\ index'.results = index.results
        /\ \/ index'.changed = index.changed
           \/ index'.changed = index.changed \union {Meta(p)}
    BY <1>0, <2>1, VisitEffect DEF Kept
  <2>3. ASSUME NEW m \in Pending' PROVE m.stamp <= writes'
    <3>1. CASE m \in Pending
      BY <2>2, <3>1 DEF TruthInv
    <3>2. CASE m = Meta(p)
      BY <2>2, <3>2 DEF Meta, DiskOK
    <3> QED
      BY <2>2, <3>1, <3>2 DEF Pending
  <2> QED
    BY <2>2, <2>3 DEF TruthInv
<1>3. CASE WalkError \/ EndRoot \/ EndWalk
  <2>1. /\ row' = row /\ disk' = disk /\ writes' = writes /\ index'.results = index.results
        /\ index'.changed = index.changed
    BY <1>0, <1>3, WalkErrorEffect, EndRootEffect, EndWalkEffect DEF Kept, IndexType
  <2>2. Pending' = Pending
    BY <2>1 DEF Pending
  <2> QED
    BY <1>same, <2>1, <2>2, TruthKept
<1>4. CASE \E meta \in index.changed : Inspect(meta) \/ InspectError(meta)
  <2>1. PICK meta \in index.changed : Inspect(meta) \/ InspectError(meta)
    BY <1>4
  <2>2. /\ row' = row /\ disk' = disk /\ writes' = writes
        /\ index'.results = index.results \/ Verdict(meta)
    BY <1>0, <2>1, InspectEffect DEF Kept
  <2>3. ASSUME NEW m \in Pending' PROVE m.stamp <= writes'
    BY <1>0, <2>1, <2>2, InspectPending DEF TruthInv
  <2>4. ASSUME NEW r \in index'.results
        PROVE  True(r.meta.stamp, r.ok, r.faces, disk'[r.meta.path])
    <3>1. CASE r \in index.results
      BY <2>2, <3>1 DEF TruthInv
    <3>2. CASE r \notin index.results
      <4>1. PICK ok \in BOOLEAN, faces \in SUBSET Names :
                 /\ r = [meta |-> meta, ok |-> ok, faces |-> faces]
                 /\ ok => /\ disk[meta.path] # Absent
                          /\ disk[meta.path].content \notin Unreadable
                          /\ faces = Provides[disk[meta.path].content]
        BY <2>2, <2>4, <3>2 DEF Verdict
      <4>2. r.meta = meta /\ r.ok = ok /\ r.faces = faces
        BY <4>1
      <4> QED
        BY <2>2, <4>1, <4>2 DEF True
    <3> QED
      BY <3>1, <3>2
  <2> QED
    BY <2>2, <2>3, <2>4 DEF TruthInv
<1>5. CASE Ended /\ row' = row /\ disk' = disk /\ writes' = writes
  <2>1. index'.changed = {} /\ index'.results = {}
    BY <1>5, EndedEffect
  <2>2. Pending' = {}
    BY <2>1 DEF Pending
  <2> QED
    BY <1>same, <1>5, <2>1, <2>2, TruthKept
<1>6. CASE OnlyStage /\ index'.results = index.results /\ row' = row /\ disk' = disk /\ writes' = writes
  <2>1. Pending' = Pending
    BY <1>6 DEF Pending, OnlyStage
  <2> QED
    BY <1>same, <1>6, <2>1, TruthKept
<1>7. CASE EndPrune
  <2>1. /\ row' = row /\ disk' = disk /\ writes' = writes
        /\ index' = [index EXCEPT !.pc = "bump"] \/ Ended
    BY <1>0, <1>7, EndPruneEffect
  <2>2. CASE index' = [index EXCEPT !.pc = "bump"]
    <3>1. OnlyStage /\ index'.results = index.results
      BY <1>0, <2>2 DEF OnlyStage, IndexType
    <3> QED
      BY <1>6, <2>1, <3>1
  <2> QED
    BY <1>5, <2>1, <2>2
<1>8. CASE WriteResults
  <2>1. /\ disk' = disk /\ writes' = writes /\ index'.results = {} /\ index'.changed = {}
    BY <1>0, <1>8, WriteStage DEF OnlyStage
  <2>2. Pending' = {}
    BY <2>1 DEF Pending
  <2>3. ASSUME NEW p \in Paths
        PROVE  row'[p].stamp <= writes /\ True(row'[p].stamp, row'[p].ok, row'[p].faces, disk[p])
    <3>1. CASE row'[p] = row[p]
      BY <3>1 DEF TruthInv
    <3>2. CASE \E r \in index.results : Written(p, r)
      <4>1. PICK r \in index.results : Written(p, r)
        BY <3>2
      <4>2. r.meta \in Pending
        BY DEF Pending
      <4>3. /\ row'[p].stamp = r.meta.stamp /\ row'[p].ok = r.ok /\ row'[p].faces = r.faces
            /\ r.meta.path = p
        BY <4>1 DEF Written
      <4> QED
        BY <4>2, <4>3 DEF TruthInv
    <3> QED
      BY <1>8, <3>1, <3>2, WriteEffect
  <2> QED
    BY <2>1, <2>2, <2>3 DEF TruthInv
<1>9. CASE Prune
  <2>1. /\ disk' = disk /\ writes' = writes /\ OnlyStage /\ index'.results = index.results
    BY <1>0, <1>9, PruneStage
  <2>2. Pending' = Pending
    BY <2>1 DEF Pending, OnlyStage
  <2>3. ASSUME NEW p \in Paths
        PROVE  row'[p].stamp <= writes /\ True(row'[p].stamp, row'[p].ok, row'[p].faces, disk[p])
    <3>1. CASE row'[p] = row[p]
      BY <3>1 DEF TruthInv
    <3>2. CASE row'[p] = NoRow
      BY <1>0, <3>2, NoRowType DEF True
    <3> QED
      BY <1>9, <3>1, <3>2, PruneEffect
  <2> QED
    BY <2>1, <2>2, <2>3 DEF TruthInv
<1>10. CASE BumpRevision
  BY <1>0, <1>6, <1>10, BumpStage
<1>11. CASE SaveRevision \/ RebuildError \/ Crash
  BY <1>5, <1>11, SaveStage, FailStage
<1>12. CASE WriteDisk
  <2>1. PICK p \in Paths, file \in {Absent} \union {[content |-> c, stamp |-> writes'] : c \in Contents} :
           disk' = [disk EXCEPT ![p] = file]
    BY <1>12, DiskStage
  <2>2. writes' = writes + 1 /\ row' = row /\ index' = index
    BY <1>12, DiskStage
  <2>3. Pending' = Pending
    BY <2>2 DEF Pending
  <2>4. file = Absent \/ file.stamp = writes + 1
    BY <2>1, <2>2
  <2>5. ASSUME NEW q \in Paths, NEW stamp \in Int, NEW ok, NEW faces, stamp <= writes,
               True(stamp, ok, faces, disk[q])
        PROVE  True(stamp, ok, faces, disk'[q])
    <3>1. CASE q = p
      <4>1. disk'[q] = file
        BY <2>1, <3>1 DEF DiskOK
      <4> QED
        BY <1>0, <2>4, <2>5, <4>1 DEF True
    <3>2. CASE q # p
      BY <2>1, <2>5, <3>2
    <3> QED
      BY <3>1, <3>2
  <2>6. ASSUME NEW q \in Paths
        PROVE  row'[q].stamp <= writes' /\ True(row'[q].stamp, row'[q].ok, row'[q].faces, disk'[q])
    BY <1>0, <2>2, <2>5 DEF TruthInv
  <2>7. ASSUME NEW m \in Pending' PROVE m.stamp <= writes'
    BY <1>0, <2>2, <2>3 DEF TruthInv
  <2>8. ASSUME NEW r \in index'.results
        PROVE  True(r.meta.stamp, r.ok, r.faces, disk'[r.meta.path])
    <3>1. r.meta \in Pending /\ r \in index.results
      BY <2>2 DEF Pending
    <3>2. /\ r.meta.path \in Paths /\ r.meta.stamp \in Int /\ r.meta.stamp <= writes
          /\ True(r.meta.stamp, r.ok, r.faces, disk[r.meta.path])
      BY <1>0, <3>1 DEF TruthInv
    <3> QED
      BY <2>5, <3>2
  <2> QED
    BY <2>6, <2>7, <2>8 DEF TruthInv
<1>13. CASE /\ index' = index /\ disk' = disk /\ writes' = writes
            /\ \A p \in Paths : Alike(row'[p], row[p])
  <2>1. Pending' = Pending
    BY <1>13 DEF Pending
  <2> QED
    BY <1>13, <2>1, TruthKept
<1>14. CASE UNCHANGED vars
  BY <1>0, <1>13, <1>14 DEF vars, rows, counts
<1>15. CASE \E s \in Subtitles : JobNext(s)
  BY <1>13, <1>15, JobFrame
<1> QED
  BY <1>1, <1>2, <1>3, <1>4, <1>7, <1>8, <1>9, <1>10, <1>11, <1>12, <1>14, <1>15,
     StepCases DEF Looks

-------------------------------------------------------------------------------
(* What a rebuild may prune.                                                   *)

LEMMA NextGone ==
  ASSUME DiskOK, RowsOK, IndexOK, RootInv, GoneInv, [Next]_vars
  PROVE  GoneInv'
<1>0. /\ index \in IndexType /\ Len(Roots) \in Nat /\ DOMAIN Roots = 1..Len(Roots)
      /\ \A r \in DOMAIN Roots : Roots[r] \in SUBSET Paths
      /\ Roots = <<>> <=> Len(Roots) = 0
      /\ index.root \in Nat \ {0} /\ index.trusted \subseteq DOMAIN Roots
  BY IndexAssumption DEF IndexOK, IndexType, IndexAssumption
<1>1. CASE index'.pc = "off"
  BY <1>1 DEF GoneInv
<1>2. CASE StartRebuild
  <2>1. /\ disk' = disk /\ gone' = {p \in Paths : disk[p] = Absent} /\ index'.root = 1
        /\ index'.todo = (IF Roots = <<>> THEN {} ELSE Roots[1]) /\ index'.trusted = {}
    BY <1>2, StartEffect
  <2> QED
    BY <1>0, <2>1 DEF GoneInv
<1>3. CASE \E p \in Paths : Visit(p)
  <2>1. PICK p \in Paths : Visit(p)
    BY <1>3
  <2>2. /\ disk' = disk /\ gone' = gone /\ index.pc = "walk"
        /\ index'.todo = index.todo \ {p} /\ index'.root = index.root
        /\ index'.complete = index.complete /\ index'.trusted = index.trusted
        /\ index.seen \subseteq index'.seen
        /\ disk[p] = Absent \/ p \in index'.seen
    BY <1>0, <2>1, VisitEffect DEF Kept
  <2>3. p \in index'.seen \union gone'
    BY <2>2 DEF GoneInv
  <2> QED
    BY <2>2, <2>3 DEF GoneInv
<1>4. CASE WalkError
  <2>1. /\ disk' = disk /\ gone' = gone /\ index.pc = "walk" /\ ~index'.complete
        /\ index'.root = index.root /\ index'.seen = index.seen /\ index'.trusted = index.trusted
    BY <1>0, <1>4, WalkErrorEffect DEF Kept
  <2> QED
    BY <2>1 DEF GoneInv
<1>5. CASE EndRoot
  <2>1. /\ disk' = disk /\ gone' = gone /\ index.pc = "walk" /\ index'.root = index.root + 1
        /\ index.todo = {} /\ index.root <= Len(Roots) /\ index'.seen = index.seen
        /\ index'.todo = IF index.root < Len(Roots) THEN Roots[index.root + 1] ELSE {}
        /\ index'.trusted = IF index.complete THEN index.trusted \union {index.root}
                            ELSE index.trusted
    BY <1>0, <1>5, EndRootEffect DEF Kept
  <2>2. ASSUME NEW r \in index'.trusted
        PROVE  r < index'.root /\ Roots[r] \subseteq index'.seen \union gone'
    <3>1. CASE r \in index.trusted
      BY <1>0, <2>1, <3>1 DEF GoneInv
    <3>2. CASE r = index.root /\ index.complete
      <4>1. Roots[r] \in SUBSET Paths
        BY <1>0, <2>1, <3>2
      <4> QED
        BY <1>0, <2>1, <3>2, <4>1 DEF GoneInv
    <3> QED
      BY <2>1, <3>1, <3>2
  <2>3. index'.root <= Len(Roots) => Roots[index'.root] \ index'.todo = {}
    BY <1>0, <2>1
  <2>4. \A p \in Paths : disk'[p] = Absent => p \in gone'
    BY <2>1 DEF GoneInv
  <2> QED
    BY <2>2, <2>3, <2>4 DEF GoneInv
<1>6. CASE /\ OnlyStage /\ disk' = disk /\ gone' = gone /\ index.pc # "off"
  BY <1>6 DEF GoneInv, OnlyStage
<1>7. CASE EndWalk
  <2>1. OnlyStage /\ index.pc = "walk" /\ disk' = disk /\ gone' = gone
    BY <1>0, <1>7, EndWalkEffect DEF OnlyStage, IndexType, Kept
  <2> QED
    BY <1>6, <2>1
<1>8. CASE \E meta \in index.changed : Inspect(meta) \/ InspectError(meta)
  <2>1. /\ disk' = disk /\ gone' = gone /\ index.pc = "inspect"
        /\ index'.root = index.root /\ index'.todo = index.todo
        /\ index'.complete = index.complete /\ index'.seen = index.seen
        /\ index'.trusted = index.trusted
    BY <1>0, <1>8, InspectEffect DEF Kept
  <2> QED
    BY <2>1 DEF GoneInv
<1>9. CASE EndPrune
  <2>1. /\ disk' = disk /\ gone' = gone /\ index.pc = "prune"
        /\ index' = [index EXCEPT !.pc = "bump"] \/ index'.pc = "off"
    BY <1>0, <1>9, EndPruneEffect, EndedEffect
  <2>2. index' = [index EXCEPT !.pc = "bump"] => OnlyStage
    BY <1>0 DEF OnlyStage, IndexType
  <2> QED
    BY <1>1, <1>6, <2>1, <2>2
<1>10. CASE WriteResults \/ Prune \/ BumpRevision
  BY <1>0, <1>6, <1>10, WriteStage, PruneStage, BumpStage
<1>11. CASE SaveRevision \/ RebuildError \/ Crash
  BY <1>1, <1>11, SaveStage, FailStage, EndedEffect
<1>12. CASE WriteDisk
  <2>1. PICK p \in Paths, file \in {Absent} \union {[content |-> c, stamp |-> writes'] : c \in Contents} :
           /\ disk' = [disk EXCEPT ![p] = file]
           /\ gone' = IF file = Absent THEN gone \union {p} ELSE gone
    BY <1>12, DiskStage
  <2>2. index' = index /\ gone \subseteq gone'
    BY <1>12, <2>1, DiskStage
  <2>3. ASSUME index.pc # "off", NEW q \in Paths, disk'[q] = Absent PROVE q \in gone'
    <3>1. CASE q = p
      BY <2>1, <2>3, <3>1 DEF DiskOK
    <3>2. CASE q # p
      BY <2>1, <2>2, <2>3, <3>2 DEF DiskOK, GoneInv
    <3> QED
      BY <3>1, <3>2
  <2> QED
    BY <2>2, <2>3 DEF GoneInv
<1>13. CASE index' = index /\ disk' = disk /\ gone' = gone
  BY <1>13 DEF GoneInv
<1>14. CASE UNCHANGED vars \/ \E s \in Subtitles : JobNext(s)
  BY <1>13, <1>14, JobFrame DEF vars, history
<1> QED
  BY <1>2, <1>3, <1>4, <1>5, <1>7, <1>8, <1>9, <1>10, <1>11, <1>12, <1>14, StepCases DEF Looks

(* Only a prune takes a row away, and only one that the walk of a trusted root missed. *)
LEMMA PruneStep ==
  ASSUME RowsOK, IndexOK, LoadInv, GoneInv, [Next]_vars,
         NEW p \in Paths, row[p] # NoRow, row'[p] = NoRow
  PROVE  p \in gone
<1>1. row[p].id # 0 /\ row'[p].id = 0
  BY NoRowType DEF RowsOK
<1>2. CASE Prune
  <2>1. p \in Stale /\ index.pc = "prune"
    BY <1>2, PruneEffect
  <2> QED
    BY <2>1 DEF Stale, GoneInv
<1>3. CASE WriteResults
  BY <1>1, <1>3, WriteEffect DEF Written
<1>4. CASE \E s \in Subtitles : JobNext(s)
  BY <1>1, <1>4, JobFrame DEF Alike
<1>5. CASE WriteDisk \/ Looks \/ BumpRevision \/ SaveRevision \/ RebuildError \/ Crash
           \/ UNCHANGED vars
  <2>1. row' = row
    BY <1>5, LookFrame DEF WriteDisk, BumpRevision, SaveRevision, RebuildError, Crash, rows, vars
  <2> QED
    BY <1>1, <2>1
<1> QED
  BY <1>2, <1>3, <1>4, <1>5, StepCases

-------------------------------------------------------------------------------
(* A rebuild that nobody disturbs.                                             *)

(* The row of a seen file that needs no write. *)
Settled(p) == row[p] # NoRow /\ Agrees(row[p].stamp, row[p].ok, row[p].faces, disk[p])

LEMMA SettledRowStays ==
  ASSUME RowsOK, RowsOK', NEW p \in Paths, Settled(p), Alike(row'[p], row[p]), disk' = disk
  PROVE  Settled(p)'
  BY DEF Settled, Agrees, Alike, RowsOK

LEMMA CalmKept ==
  ASSUME RowsOK, RowsOK', IndexOK, CalmInv, calm' => calm, index.pc # "off", disk' = disk,
         index'.complete = index.complete, index'.root = index.root, index'.todo = index.todo,
         index'.trusted = index.trusted, index'.seen = index.seen,
         Pending' = Pending, index'.changed = index.changed, index'.results = index.results,
         \A p \in Paths : Alike(row'[p], row[p]),
         index'.pc \in {"bump", "save"} => index.pc \in {"bump", "save"}
  PROVE  CalmInv'
<1> SUFFICES ASSUME calm' PROVE CalmInv'
  BY DEF CalmInv
<1>0. calm
  OBVIOUS
<1>1. ASSUME NEW p \in index'.seen
      PROVE  /\ disk'[p] # Absent
             /\ (\A m \in Pending' : m.path # p) =>
                   row'[p] # NoRow /\ Agrees(row'[p].stamp, row'[p].ok, row'[p].faces, disk'[p])
  <2>1. p \in Paths /\ p \in index.seen
    BY DEF IndexOK, IndexType
  <2>2. disk[p] # Absent /\ ((\A m \in Pending : m.path # p) => Settled(p))
    BY <1>0, <2>1 DEF CalmInv, Settled
  <2>3. Settled(p) => Settled(p)'
    BY <2>1, SettledRowStays
  <2> QED
    BY <2>2, <2>3 DEF Settled
<1>2. ASSUME index'.pc \in {"bump", "save"}, NEW p \in Listed \ index'.seen PROVE row'[p] = NoRow
  <2>1. row[p] = NoRow
    BY <1>0, <1>2 DEF CalmInv
  <2>2. p \in Paths
    BY <1>2, IndexAssumption DEF Listed, IndexAssumption
  <2> QED
    BY <2>1, <2>2 DEF RowsOK, Alike
<1> QED
  BY <1>0, <1>1, <1>2 DEF CalmInv, Passed

(* One entry of the walk. *)
LEMMA CalmVisit ==
  ASSUME DiskOK, RowsOK, IndexOK, LoadInv, TruthInv, CalmInv, NEW p \in Paths, Visit(p)
  PROVE  CalmInv'
<1>0. index \in IndexType
  BY DEF IndexOK
<1> SUFFICES ASSUME calm' PROVE CalmInv'
  BY DEF CalmInv
<1>1. /\ row' = row /\ disk' = disk /\ calm /\ index.pc = "walk"
      /\ index'.todo = index.todo \ {p} /\ index'.root = index.root
      /\ index'.complete = index.complete /\ index'.results = index.results
      /\ index'.trusted = index.trusted
  BY <1>0, VisitEffect DEF Kept
<1>2. \/ disk[p] = Absent /\ index'.seen = index.seen /\ index'.changed = index.changed
      \/ p \in index.seen /\ index'.seen = index.seen /\ index'.changed = index.changed
      \/ /\ disk[p] # Absent /\ p \notin index.seen /\ Unchanged(p)
         /\ index'.seen = index.seen \union {p} /\ index'.changed = index.changed
      \/ /\ disk[p] # Absent /\ index'.seen = index.seen \union {p}
         /\ index'.changed = index.changed \union {Meta(p)}
  BY <1>0, VisitEffect
<1>3. index.seen \subseteq index'.seen /\ (disk[p] # Absent => p \in index'.seen)
      /\ index'.pc \notin {"bump", "save"}
  BY <1>0, <1>2, VisitEffect
<1>4. ASSUME NEW r \in DOMAIN Roots, NEW q \in Roots[r], Passed(r, q)', disk'[q] # Absent
      PROVE  q \in index'.seen
  BY <1>1, <1>3, <1>4 DEF Passed, CalmInv
<1>5. ASSUME NEW m \in index'.changed PROVE m.stamp = disk'[m.path].stamp
  BY <1>1, <1>2 DEF CalmInv, Meta
<1>6. Pending \subseteq Pending'
  BY <1>1, <1>2 DEF Pending
<1>7. ASSUME NEW q \in index'.seen
      PROVE  /\ disk'[q] # Absent
             /\ (\A m \in Pending' : m.path # q) =>
                   row'[q] # NoRow /\ Agrees(row'[q].stamp, row'[q].ok, row'[q].faces, disk'[q])
  <2>1. CASE q \in index.seen
    BY <1>1, <1>6, <2>1 DEF CalmInv
  <2>2. CASE q = p /\ disk[p] # Absent /\ p \notin index.seen /\ Unchanged(p)
    <3>1. Alike(row[p], index.existing[p])
      BY <1>1, <2>2 DEF LoadInv
    <3>2. row[p] # NoRow
      BY <2>2, <3>1 DEF Alike, Unchanged, LoadInv, RowsOK
    <3>3. row[p].stamp = disk[p].stamp /\ row[p].ok
      BY <2>2, <3>1 DEF Alike, Unchanged
    <3> QED
      BY <1>1, <2>2, <3>2, <3>3 DEF TruthInv, True, Agrees
  <2>3. CASE q = p /\ disk[p] # Absent /\ index'.changed = index.changed \union {Meta(p)}
    <3>1. Meta(p) \in Pending' /\ Meta(p).path = q
      BY <2>3 DEF Pending, Meta
    <3> QED
      BY <1>1, <2>3, <3>1
  <2> QED
    BY <1>2, <2>1, <2>2, <2>3
<1> QED
  BY <1>1, <1>3, <1>4, <1>5, <1>7 DEF CalmInv

(* A verdict. *)
LEMMA CalmInspect ==
  ASSUME DiskOK, RowsOK, IndexOK, LoadInv, CalmInv,
         NEW meta \in index.changed, Inspect(meta) \/ InspectError(meta)
  PROVE  CalmInv'
<1>0. index \in IndexType
  BY DEF IndexOK
<1> SUFFICES ASSUME calm' PROVE CalmInv'
  BY DEF CalmInv
<1>1. /\ row' = row /\ disk' = disk /\ calm /\ index.pc = "inspect" /\ index'.pc = "inspect"
      /\ index'.changed = index.changed \ {meta}
      /\ index'.root = index.root /\ index'.todo = index.todo
      /\ index'.complete = index.complete /\ index'.seen = index.seen
      /\ index'.trusted = index.trusted
  BY <1>0, InspectEffect DEF Kept
<1>2. PICK ok \in BOOLEAN, faces \in SUBSET Names :
         /\ index'.results = index.results \union {[meta |-> meta, ok |-> ok, faces |-> faces]}
         /\ ok => /\ disk[meta.path] # Absent
                  /\ disk[meta.path].content \notin Unreadable
                  /\ faces = Provides[disk[meta.path].content]
         /\ ~ok => disk[meta.path] = Absent \/ disk[meta.path].content \in Unreadable
  <2>1. Verdict(meta)
    BY <1>0, InspectEffect
  <2> QED
    BY <2>1 DEF Verdict
<1>3. disk[meta.path] # Absent /\ meta.stamp = disk[meta.path].stamp
  BY <1>1 DEF LoadInv, Pending, CalmInv
<1>4. Agrees(meta.stamp, ok, faces, disk[meta.path])
  BY <1>2, <1>3 DEF Agrees
<1>5. ASSUME NEW r \in index'.results
      PROVE  Agrees(r.meta.stamp, r.ok, r.faces, disk'[r.meta.path])
  <2>1. CASE r \in index.results
    BY <1>1, <2>1 DEF CalmInv
  <2>2. CASE r = [meta |-> meta, ok |-> ok, faces |-> faces]
    <3>1. r.meta = meta /\ r.ok = ok /\ r.faces = faces
      BY <2>2
    <3> QED
      BY <1>1, <1>4, <3>1
  <2> QED
    BY <1>2, <2>1, <2>2
<1>6. Pending \subseteq Pending'
  <2> DEFINE r == [meta |-> meta, ok |-> ok, faces |-> faces]
  <2>1. r \in index'.results /\ r.meta = meta /\ index.results \subseteq index'.results
    BY <1>2
  <2> HIDE DEF r
  <2> QED
    BY <1>1, <2>1 DEF Pending
<1>7. \A m \in index'.changed : m.stamp = disk'[m.path].stamp
  BY <1>1 DEF CalmInv
<1>8. ASSUME NEW q \in index'.seen
      PROVE  /\ disk'[q] # Absent
             /\ (\A m \in Pending' : m.path # q) =>
                   row'[q] # NoRow /\ Agrees(row'[q].stamp, row'[q].ok, row'[q].faces, disk'[q])
  BY <1>1, <1>6 DEF CalmInv
<1> QED
  BY <1>1, <1>5, <1>7, <1>8 DEF CalmInv, Passed

(* A transaction. *)
LEMMA CalmWrite ==
  ASSUME RowsOK, IndexOK, LoadInv, CalmInv, WriteResults
  PROVE  CalmInv'
<1>0. index \in IndexType
  BY DEF IndexOK
<1> SUFFICES ASSUME calm' PROVE CalmInv'
  BY DEF CalmInv
<1>1. /\ disk' = disk /\ calm /\ index.pc = "inspect" /\ index'.pc \in {"walk", "prune"}
      /\ index.changed = {} /\ index'.changed = {} /\ index'.results = {}
      /\ index'.root = index.root /\ index'.todo = index.todo
      /\ index'.complete = index.complete /\ index'.seen = index.seen
      /\ index'.trusted = index.trusted
  BY <1>0, WriteStage DEF OnlyStage, AfterWrite
<1>2. ASSUME NEW q \in index'.seen
      PROVE  /\ disk'[q] # Absent
             /\ row'[q] # NoRow /\ Agrees(row'[q].stamp, row'[q].ok, row'[q].faces, disk'[q])
  <2>1. q \in Paths /\ q \in index.seen /\ disk[q] # Absent
    BY <1>0, <1>1 DEF IndexType, CalmInv
  <2>2. CASE row'[q] = row[q] /\ \A r \in index.results : r.meta.path # q
    <3>1. \A m \in Pending : m.path # q
      BY <1>1, <2>2 DEF Pending
    <3> QED
      BY <1>1, <2>1, <2>2, <3>1 DEF CalmInv
  <2>3. CASE \E r \in index.results : Written(q, r)
    <3>1. PICK r \in index.results : Written(q, r)
      BY <2>3
    <3>2. Agrees(r.meta.stamp, r.ok, r.faces, disk[r.meta.path])
      BY <1>1 DEF CalmInv
    <3> QED
      BY <1>1, <2>1, <3>1, <3>2, NoRowType DEF Written
  <2> QED
    BY <2>1, <2>2, <2>3, WriteEffect
<1> QED
  BY <1>1, <1>2 DEF CalmInv, Passed

(* A prune deletes rows of files that were not seen. *)
LEMMA CalmPrune ==
  ASSUME RowsOK, IndexOK, CalmInv, Prune
  PROVE  CalmInv'
<1>0. index \in IndexType
  BY DEF IndexOK
<1> SUFFICES ASSUME calm' PROVE CalmInv'
  BY DEF CalmInv
<1>1. /\ disk' = disk /\ calm /\ index.pc = "prune" /\ index'.pc = "prune"
      /\ index'.root = index.root /\ index'.todo = index.todo
      /\ index'.complete = index.complete /\ index'.seen = index.seen
      /\ index'.trusted = index.trusted /\ index'.changed = index.changed
      /\ index'.results = index.results
  BY <1>0, PruneStage DEF OnlyStage
<1>2. Pending' = Pending
  BY <1>1 DEF Pending
<1>3. \A p \in index.seen : p \in Paths /\ row'[p] = row[p]
  BY <1>0, PruneEffect DEF IndexType, Stale
<1>4. ASSUME NEW q \in index'.seen
      PROVE  /\ disk'[q] # Absent
             /\ (\A m \in Pending' : m.path # q) =>
                   row'[q] # NoRow /\ Agrees(row'[q].stamp, row'[q].ok, row'[q].faces, disk'[q])
  BY <1>1, <1>2, <1>3 DEF CalmInv
<1> QED
  BY <1>1, <1>4 DEF CalmInv, Passed

(* The next root. *)
LEMMA CalmRoot ==
  ASSUME IndexOK, CalmInv, EndRoot
  PROVE  CalmInv'
<1>0. index \in IndexType /\ Len(Roots) \in Nat /\ DOMAIN Roots = 1..Len(Roots)
      /\ index.root \in Nat
  BY IndexAssumption DEF IndexOK, IndexType, IndexAssumption
<1> SUFFICES ASSUME calm' PROVE CalmInv'
  BY DEF CalmInv
<1>1. /\ disk' = disk /\ row' = row /\ calm /\ index.pc = "walk" /\ index'.pc = "walk"
      /\ index.todo = {} /\ index.root <= Len(Roots)
      /\ index'.root = index.root + 1 /\ index'.complete
      /\ index'.todo = IF index.root < Len(Roots) THEN Roots[index.root + 1] ELSE {}
      /\ index'.trusted = IF index.complete THEN index.trusted \union {index.root} ELSE index.trusted
      /\ index'.seen = index.seen /\ index'.changed = index.changed
      /\ index'.results = index.results
  BY <1>0, EndRootEffect DEF Kept
<1>2. Pending' = Pending
  BY <1>1 DEF Pending
<1>3. ASSUME NEW r \in DOMAIN Roots, r < index'.root PROVE r \in index'.trusted
  BY <1>0, <1>1, <1>3 DEF CalmInv
<1>4. ASSUME NEW r \in DOMAIN Roots, NEW q \in Roots[r], Passed(r, q)', disk'[q] # Absent
      PROVE  q \in index'.seen
  <2>1. r <= index.root
    <3>1. CASE r = index'.root
      BY <1>0, <1>1, <1>4, <3>1 DEF Passed
    <3>2. CASE r < index'.root
      BY <1>0, <1>1, <3>2
    <3> QED
      BY <1>4, <3>1, <3>2 DEF Passed
  <2>2. Passed(r, q)
    BY <1>0, <1>1, <2>1 DEF Passed
  <2> QED
    BY <1>1, <1>4, <2>2 DEF CalmInv
<1> QED
  BY <1>1, <1>2, <1>3, <1>4 DEF CalmInv

(* No row is left of what the rebuild did not see, once nothing is stale. *)
LEMMA UnseenPruned ==
  ASSUME RowsOK, IndexOK, LoadInv, RootInv, CalmInv, calm, index.pc = "prune", Stale = {},
         NEW p \in Listed \ index.seen
  PROVE  row[p] = NoRow
<1>0. Len(Roots) \in Nat /\ DOMAIN Roots = 1..Len(Roots)
  BY IndexAssumption DEF IndexAssumption
<1>1. PICK r \in DOMAIN Roots : p \in Roots[r]
  BY DEF Listed
<1>2. p \in Paths /\ r \in index.trusted
  BY <1>0, <1>1, IndexAssumption DEF IndexAssumption, RootInv, CalmInv
<1>3. index.existing[p] = NoRow \/ row[p] = NoRow
  BY <1>1, <1>2 DEF Stale
<1>4. Alike(row[p], index.existing[p]) \/ row[p] = NoRow
  BY <1>2 DEF LoadInv
<1> QED
  BY <1>2, <1>3, <1>4, NoRowType DEF Alike, RowsOK

LEMMA NextCalm ==
  ASSUME DiskOK, RowsOK, IndexOK, JobsOK, TakenInv, LoadInv, RootInv, TruthInv, CalmInv, [Next]_vars
  PROVE  CalmInv'
<1>0. /\ index \in IndexType /\ Len(Roots) \in Nat /\ DOMAIN Roots = 1..Len(Roots)
      /\ Roots = <<>> <=> Len(Roots) = 0
      /\ \A p \in Paths : Alike(row[p], row[p])
  BY AlikeRows, IndexAssumption DEF IndexOK, IndexAssumption
<1>same. ASSUME row' = row PROVE \A p \in Paths : Alike(row'[p], row[p])
  BY <1>0, <1>same
<1>1. RowsOK'
  BY NextRows
<1>2. CASE index'.pc = "off"
  BY <1>2 DEF CalmInv
<1>3. CASE ~calm'
  BY <1>3 DEF CalmInv
<1>4. CASE StartRebuild
  <2>1. /\ index'.pc = "walk" /\ index'.root = 1 /\ index'.complete
        /\ index'.todo = (IF Roots = <<>> THEN {} ELSE Roots[1])
        /\ index'.seen = {} /\ index'.changed = {} /\ index'.results = {}
    BY <1>4, StartEffect
  <2>2. ASSUME NEW r \in DOMAIN Roots, NEW p \in Roots[r] PROVE ~Passed(r, p)'
    BY <1>0, <2>1 DEF Passed
  <2>3. \A r \in DOMAIN Roots : ~(r < index'.root)
    BY <1>0, <2>1
  <2> QED
    BY <2>1, <2>2, <2>3 DEF CalmInv
<1>5. CASE \E p \in Paths : Visit(p)
  BY <1>5, CalmVisit
<1>6. CASE WalkError
  BY <1>0, <1>3, <1>6, WalkErrorEffect
<1>7. CASE EndRoot
  BY <1>7, CalmRoot
<1>8. CASE EndWalk
  <2>1. /\ OnlyStage /\ index.pc = "walk" /\ index'.pc = "inspect" /\ disk' = disk /\ row' = row
        /\ calm' = calm /\ index'.results = index.results
    BY <1>0, <1>8, EndWalkEffect DEF OnlyStage, IndexType, Kept
  <2>2. Pending' = Pending
    BY <2>1 DEF OnlyStage, Pending
  <2> QED
    BY <1>1, <1>same, <2>1, <2>2, CalmKept DEF OnlyStage
<1>9. CASE \E meta \in index.changed : Inspect(meta) \/ InspectError(meta)
  BY <1>9, CalmInspect
<1>10. CASE EndPrune
  <2>1. /\ disk' = disk /\ row' = row /\ calm' = calm /\ index.pc = "prune" /\ Stale = {}
        /\ index' = [index EXCEPT !.pc = "bump"] \/ index'.pc = "off"
    BY <1>0, <1>10, EndPruneEffect, EndedEffect
  <2>2. CASE calm /\ index' = [index EXCEPT !.pc = "bump"]
    <3>1. OnlyStage /\ index'.results = index.results /\ index'.pc = "bump"
      BY <1>0, <2>2 DEF OnlyStage, IndexType
    <3>2. Pending' = Pending
      BY <3>1 DEF OnlyStage, Pending
    <3>3. \A p \in Listed \ index'.seen : row'[p] = NoRow
      BY <2>1, <2>2, <3>1, UnseenPruned DEF OnlyStage
    <3> QED
      BY <2>1, <2>2, <3>1, <3>2, <3>3 DEF CalmInv, OnlyStage, Passed
  <2> QED
    BY <1>2, <1>3, <2>1, <2>2
<1>11. CASE WriteResults
  BY <1>11, CalmWrite
<1>12. CASE Prune
  BY <1>12, CalmPrune
<1>13. CASE BumpRevision
  <2>1. /\ OnlyStage /\ index.pc = "bump" /\ index'.pc = "save" /\ disk' = disk /\ row' = row
        /\ calm' = calm /\ index'.results = index.results
    BY <1>0, <1>13, BumpStage
  <2>2. Pending' = Pending
    BY <2>1 DEF OnlyStage, Pending
  <2> QED
    BY <1>1, <1>same, <2>1, <2>2, CalmKept DEF OnlyStage
<1>14. CASE SaveRevision \/ RebuildError \/ Crash
  BY <1>2, <1>14, SaveStage, FailStage, EndedEffect
<1>15. CASE WriteDisk
  BY <1>3, <1>15, DiskStage
<1>16. CASE index' = index /\ disk' = disk /\ calm' = calm /\ \A p \in Paths : Alike(row'[p], row[p])
  <2>1. Pending' = Pending
    BY <1>16 DEF Pending
  <2> QED
    BY <1>1, <1>2, <1>16, <2>1, CalmKept
<1>17. CASE UNCHANGED vars \/ \E s \in Subtitles : JobNext(s)
  BY <1>same, <1>16, <1>17, JobFrame DEF vars, history, rows
<1> QED
  BY <1>4, <1>5, <1>6, <1>7, <1>8, <1>9, <1>10, <1>11, <1>12, <1>13, <1>14, <1>15, <1>17,
     StepCases DEF Looks

(* What IndexMatchesDisk says of one path. *)
Matches(p) ==
    /\ disk[p] = Absent <=> row[p] = NoRow
    /\ disk[p] # Absent =>
          /\ row[p].stamp = disk[p].stamp
          /\ row[p].ok <=> disk[p].content \notin Unreadable
          /\ row[p].ok => row[p].faces = Provides[disk[p].content]

LEMMA MatchesForm ==
  IndexMatchesDisk <=> (calm /\ index.outcome = "ok" => \A p \in Listed : Matches(p))
  BY DEF IndexMatchesDisk, Listed, Matches

(* The end of a rebuild that nobody disturbed. *)
LEMMA MatchesAtEnd ==
  ASSUME IndexOK, LoadInv, RootInv, CalmInv, calm, index.pc \in {"prune", "save"},
         \A p \in Listed \ index.seen : row[p] = NoRow, NEW p \in Listed
  PROVE  Matches(p)
<1>0. Len(Roots) \in Nat /\ DOMAIN Roots = 1..Len(Roots)
  BY IndexAssumption DEF IndexAssumption
<1>1. PICK r \in DOMAIN Roots : p \in Roots[r]
  BY DEF Listed
<1>2. Passed(r, p)
  BY <1>0, <1>1 DEF Passed, RootInv
<1>3. disk[p] # Absent <=> p \in index.seen
  BY <1>1, <1>2 DEF CalmInv
<1>4. CASE p \in index.seen
  <2>1. Pending = {}
    BY DEF LoadInv
  <2>2. row[p] # NoRow /\ Agrees(row[p].stamp, row[p].ok, row[p].faces, disk[p])
    BY <1>4, <2>1 DEF CalmInv
  <2> QED
    BY <2>2 DEF Agrees, Matches
<1>5. CASE p \notin index.seen
  BY <1>3, <1>5 DEF Matches
<1> QED
  BY <1>4, <1>5

LEMMA NextMatches ==
  ASSUME DiskOK, RowsOK, IndexOK, JobsOK, TakenInv, LoadInv, RootInv, CalmInv, IndexMatchesDisk,
         [Next]_vars
  PROVE  IndexMatchesDisk'
<1> SUFFICES ASSUME calm', index'.outcome = "ok", NEW p \in Listed PROVE Matches(p)'
  BY DEF IndexMatchesDisk, Listed, Matches
<1>0. /\ index \in IndexType /\ p \in Paths /\ Alike(row[p], row[p])
      /\ index.outcome # "none" => index.pc = "off"
  BY AlikeRows, IndexAssumption DEF IndexOK, IndexAssumption, Listed
<1>1. RowsOK'
  BY NextRows
<1>2. CASE index.pc # "off" /\ index'.outcome = index.outcome
  BY <1>0, <1>2
<1>3. CASE /\ disk' = disk /\ row' = row /\ calm' = calm /\ index.pc \in {"prune", "save"}
           /\ \A q \in Listed \ index.seen : row[q] = NoRow
  <2>1. Matches(p)
    BY <1>3, MatchesAtEnd
  <2> QED
    BY <1>3, <2>1 DEF Matches
<1>4. CASE EndPrune
  <2>1. /\ disk' = disk /\ row' = row /\ calm' = calm /\ index.pc = "prune" /\ Stale = {}
    BY <1>0, <1>4, EndPruneEffect
  <2>2. \A q \in Listed \ index.seen : row[q] = NoRow
    BY <2>1, UnseenPruned
  <2> QED
    BY <1>3, <2>1, <2>2
<1>5. CASE SaveRevision
  <2>1. /\ disk' = disk /\ row' = row /\ calm' = calm /\ index.pc = "save"
    BY <1>5, SaveStage
  <2>2. \A q \in Listed \ index.seen : row[q] = NoRow
    BY <2>1 DEF CalmInv
  <2> QED
    BY <1>3, <2>1, <2>2
<1>6. CASE RebuildError \/ Crash
  BY <1>6, FailStage
<1>7. CASE StartRebuild
  BY <1>7, StartEffect
<1>8. CASE WalkError \/ EndRoot \/ EndWalk \/ \E q \in Paths : Visit(q)
  <2>1. index.pc = "walk" /\ index'.outcome = index.outcome
    BY <1>0, <1>8, WalkErrorEffect, EndRootEffect, EndWalkEffect, VisitEffect DEF Kept
  <2> QED
    BY <1>2, <2>1
<1>9. CASE \E meta \in index.changed : Inspect(meta) \/ InspectError(meta)
  <2>1. index.pc = "inspect" /\ index'.outcome = index.outcome
    BY <1>0, <1>9, InspectEffect DEF Kept
  <2> QED
    BY <1>2, <2>1
<1>10. CASE WriteResults \/ Prune \/ BumpRevision
  <2>1. index.pc # "off" /\ index'.outcome = index.outcome
    BY <1>0, <1>10, WriteStage, PruneStage, BumpStage DEF OnlyStage
  <2> QED
    BY <1>2, <2>1
<1>11. CASE WriteDisk
  BY <1>11, DiskStage
<1>12. CASE index' = index /\ disk' = disk /\ calm' = calm /\ Alike(row'[p], row[p])
  <2>1. Matches(p)
    BY <1>12, MatchesForm
  <2>2. row'[p] = NoRow <=> row[p] = NoRow
    BY <1>0, <1>1, <1>12 DEF Alike, RowsOK
  <2> QED
    BY <1>12, <2>1, <2>2 DEF Matches, Alike
<1>13. CASE UNCHANGED vars \/ \E s \in Subtitles : JobNext(s)
  BY <1>0, <1>12, <1>13, JobFrame DEF vars, history, rows
<1> QED
  BY <1>4, <1>5, <1>6, <1>7, <1>8, <1>9, <1>10, <1>11, <1>13, StepCases DEF Looks

-------------------------------------------------------------------------------
(* Revisions.                                                                  *)

LEMMA NextDirty ==
  ASSUME DiskOK, RowsOK, IndexOK, DirtyInv, [Next]_vars
  PROVE  DirtyInv'
<1>0. index \in IndexType
  BY DEF IndexOK
<1>1. CASE Looks
  <2>0. dirty' = dirty /\ broken' = broken
    BY <1>1, LookFrame
  <2>1. CASE StartRebuild
    <3>1. index.pc = "off" /\ index'.results = {}
      BY <2>1, StartEffect
    <3> QED
      BY <2>0, <3>1 DEF DirtyInv
  <2>2. CASE WalkError \/ EndRoot \/ EndWalk \/ \E p \in Paths : Visit(p)
    <3>1. /\ index.pc = "walk" /\ index'.pc \in {"walk", "inspect"}
          /\ index'.results = index.results /\ (index.touched => index'.touched)
      BY <1>0, <2>2, WalkErrorEffect, EndRootEffect, EndWalkEffect, VisitEffect DEF IndexType
    <3> QED
      BY <2>0, <3>1 DEF DirtyInv
  <2>3. CASE \E meta \in index.changed : Inspect(meta) \/ InspectError(meta)
    <3>1. index'.pc = "inspect" /\ index'.touched
      BY <1>0, <2>3, InspectEffect
    <3> QED
      BY <2>0, <3>1 DEF DirtyInv
  <2>4. CASE EndPrune
    <3>1. /\ index.pc = "prune"
          /\ \/ index.touched /\ index' = [index EXCEPT !.pc = "bump"]
             \/ ~index.touched /\ Ended
      BY <1>0, <2>4, EndPruneEffect
    <3>2. CASE index.touched /\ index' = [index EXCEPT !.pc = "bump"]
      <4>1. index'.pc = "bump" /\ index'.touched
        BY <1>0, <3>2 DEF IndexType
      <4> QED
        BY <2>0, <4>1 DEF DirtyInv
    <3>3. CASE ~index.touched /\ Ended
      <4>1. index'.results = {}
        BY <3>3, EndedEffect
      <4> QED
        BY <2>0, <3>3, <4>1 DEF DirtyInv
    <3> QED
      BY <3>1, <3>2, <3>3
  <2> QED
    BY <1>1, <2>1, <2>2, <2>3, <2>4 DEF Looks
<1>2. CASE WriteResults
  <2>1. /\ index.pc = "inspect" /\ index'.pc \in {"walk", "prune"} /\ broken' = broken
        /\ index'.results = {} /\ index'.touched = index.touched
        /\ dirty' = (dirty \/ index.results # {})
    BY <1>0, <1>2, WriteStage DEF AfterWrite
  <2> QED
    BY <2>1 DEF DirtyInv
<1>3. CASE Prune
  <2>1. index'.pc = "prune" /\ index'.touched /\ dirty' /\ broken' = broken
    BY <1>0, <1>3, PruneStage
  <2> QED
    BY <2>1 DEF DirtyInv
<1>4. CASE BumpRevision
  <2>1. ~dirty' /\ ~broken' /\ index'.results = index.results /\ index'.touched = index.touched
    BY <1>0, <1>4, BumpStage
  <2> QED
    BY <2>1 DEF DirtyInv
<1>5. CASE SaveRevision
  <2>1. index.pc = "save" /\ dirty' = dirty /\ broken' = broken /\ index'.results = {}
    BY <1>5, SaveStage, EndedEffect
  <2> QED
    BY <2>1 DEF DirtyInv
<1>6. CASE RebuildError \/ Crash
  <2>1. index'.results = {} /\ dirty' = dirty /\ broken' = (broken \/ dirty)
    BY <1>6, FailStage, EndedEffect
  <2> QED
    BY <2>1 DEF DirtyInv
<1>7. CASE WriteDisk \/ UNCHANGED vars \/ \E s \in Subtitles : JobNext(s)
  <2>1. index' = index /\ dirty' = dirty /\ broken' = broken
    BY <1>7, DiskStage, JobFrame DEF vars, history
  <2> QED
    BY <2>1 DEF DirtyInv
<1> QED
  BY <1>1, <1>2, <1>3, <1>4, <1>5, <1>6, <1>7, StepCases

LEMMA CandidatesStay ==
  ASSUME RowsOK, RowsOK', \A p \in Paths : Alike(row'[p], row[p]), NEW name
  PROVE  Candidates(name)' = Candidates(name)
<1>1. ASSUME NEW p \in Paths PROVE row'[p] # NoRow <=> row[p] # NoRow
  BY DEF Alike, RowsOK
<1> QED
  BY <1>1 DEF Candidates, Alike

(* Nobody learns anything, and the rows stay, or are known to have changed. *)
LEMMA KnownKept ==
  ASSUME KnownInv, reverted' = reverted, revision' = revision, result' = result, job' = job,
         ~dirty' => ~dirty /\ row' = row
  PROVE  KnownInv'
  BY DEF KnownInv, Candidates

LEMMA KnownJob ==
  ASSUME DiskOK, RowsOK, IndexOK, JobsOK, CountersOK, TakenInv, LoadInv, KnownInv, [Next]_vars,
         NEW s \in Subtitles, JobNext(s)
  PROVE  KnownInv'
<1>0. /\ job \in [Subtitles -> JobType] /\ result \in [Subtitles -> ResultType]
      /\ revision \in Nat /\ \A t \in Subtitles : job[t].rev \in Nat /\ result[t].rev \in Nat
  BY DEF JobsOK, JobType, ResultType, CountersOK
<1>1. PICK next \in JobType :
            /\ job' = [job EXCEPT ![s] = next]
            /\ next.rev = job[s].rev \/ next.rev = revision \/ next.rev = 0
            /\ next.pc = "lacking" => Candidates(Wanted[s]) = {}
            /\ \/ result' = result
               \/ \E status \in {"partial", "success", "failed"} :
                     /\ status = "partial" => job[s].pc = "lacking"
                     /\ \/ result' = [result EXCEPT ![s] = [status |-> status, rev |-> job[s].rev]]
                        \/ status = "failed" /\ result' = [result EXCEPT ![s].status = status]
  BY JobEffect
<1>2. RowsOK' /\ \A p \in Paths : Alike(row'[p], row[p])
  BY NextRows, JobFrame
<1>3. \A name : Candidates(name)' = Candidates(name)
  BY <1>2, CandidatesStay
<1>4. revision' = revision /\ reverted' = reverted /\ dirty' = dirty
  BY JobFrame DEF history
<1> SUFFICES ASSUME ~reverted' PROVE KnownInv'
  BY DEF KnownInv
<1>5. ~reverted
  BY <1>4
<1>6. ASSUME NEW t \in Subtitles
      PROVE  /\ job'[t].rev <= revision'
             /\ ~dirty' /\ job'[t].pc = "lacking" /\ job'[t].rev = revision' =>
                   Candidates(Wanted[t])' = {}
  <2>1. CASE t = s
    <3>1. job'[t] = next
      BY <1>0, <1>1, <2>1
    <3> QED
      BY <1>0, <1>1, <1>3, <1>4, <1>5, <2>1, <3>1 DEF KnownInv
  <2>2. CASE t # s
    <3>1. job'[t] = job[t]
      BY <1>0, <1>1, <2>2
    <3> QED
      BY <1>3, <1>4, <1>5, <3>1 DEF KnownInv
  <2> QED
    BY <2>1, <2>2
<1>7. ASSUME NEW t \in Subtitles
      PROVE  /\ result'[t].rev <= revision'
             /\ ~dirty' /\ result'[t].status = "partial" /\ result'[t].rev = revision' =>
                   Candidates(Wanted[t])' = {}
  <2>1. CASE result'[t] = result[t]
    BY <1>3, <1>4, <1>5, <2>1 DEF KnownInv
  <2>2. CASE \E status : /\ status = "partial" => job[s].pc = "lacking"
                         /\ t = s /\ result'[t] = [status |-> status, rev |-> job[s].rev]
    <3>1. PICK status : /\ status = "partial" => job[s].pc = "lacking"
                        /\ t = s /\ result'[t] = [status |-> status, rev |-> job[s].rev]
      BY <2>2
    <3>2. result'[t].status = status /\ result'[t].rev = job[s].rev
      BY <3>1
    <3> QED
      BY <1>3, <1>4, <1>5, <3>1, <3>2 DEF KnownInv
  <2>3. CASE result'[t].status = "failed" /\ result'[t].rev = result[t].rev
    BY <1>4, <1>5, <2>3 DEF KnownInv
  <2>4. \/ result'[t] = result[t]
        \/ \E status : /\ status = "partial" => job[s].pc = "lacking"
                       /\ t = s /\ result'[t] = [status |-> status, rev |-> job[s].rev]
        \/ result'[t].status = "failed" /\ result'[t].rev = result[t].rev
    <3>1. CASE result' = result
      BY <3>1
    <3>2. CASE \E status : /\ status = "partial" => job[s].pc = "lacking"
                           /\ result' = [result EXCEPT ![s] = [status |-> status, rev |-> job[s].rev]]
      BY <1>0, <3>2
    <3>3. CASE result' = [result EXCEPT ![s].status = "failed"]
      BY <1>0, <3>3 DEF ResultType
    <3> QED
      BY <1>1, <3>1, <3>2, <3>3
  <2> QED
    BY <2>1, <2>2, <2>3, <2>4
<1> QED
  BY <1>6, <1>7 DEF KnownInv

LEMMA NextKnown ==
  ASSUME DiskOK, RowsOK, IndexOK, JobsOK, CountersOK, TakenInv, LoadInv, KnownInv, [Next]_vars
  PROVE  KnownInv'
<1>0. /\ index \in IndexType /\ revision \in Nat
      /\ \A t \in Subtitles : job[t].rev \in Nat /\ result[t].rev \in Nat
  BY DEF IndexOK, JobsOK, JobType, ResultType, CountersOK
<1>1. CASE Looks
  BY <1>1, LookFrame, KnownKept DEF rows
<1>2. CASE WriteResults
  <2>1. /\ reverted' = reverted /\ revision' = revision
        /\ dirty' = (dirty \/ index.results # {})
    BY <1>0, <1>2, WriteStage
  <2>2. result' = result /\ job' = job
    BY <1>2 DEF WriteResults
  <2>3. ASSUME ~dirty' PROVE row' = row
    <3>1. index.results = {}
      BY <2>1, <2>3
    <3>2. row' \in [Paths -> Rows] /\ \A p \in Paths : row'[p] = row[p]
      BY <1>2, <3>1, WriteEffect
    <3> QED
      BY <3>2 DEF RowsOK
  <2> QED
    BY <2>1, <2>2, <2>3, KnownKept
<1>3. CASE Prune
  <2>1. reverted' = reverted /\ revision' = revision /\ dirty'
    BY <1>0, <1>3, PruneStage
  <2>2. result' = result /\ job' = job
    BY <1>3 DEF Prune
  <2> QED
    BY <2>1, <2>2, KnownKept
<1>4. CASE BumpRevision
  <2>1. revision' = revision + 1 /\ reverted' = reverted
    BY <1>0, <1>4, BumpStage
  <2>2. result' = result /\ job' = job
    BY <1>4 DEF BumpRevision
  <2>3. ASSUME ~reverted, NEW s \in Subtitles
        PROVE  result'[s].rev < revision' /\ job'[s].rev < revision'
    BY <1>0, <2>1, <2>2, <2>3 DEF KnownInv
  <2> QED
    BY <1>0, <2>1, <2>2, <2>3 DEF KnownInv
<1>5. CASE SaveRevision \/ RebuildError \/ WriteDisk \/ UNCHANGED vars
  BY <1>5, KnownKept DEF SaveRevision, RebuildError, WriteDisk, rows, vars, history
<1>6. CASE Crash
  <2>1. /\ reverted' = (reverted \/ revision # saved) /\ revision' = saved /\ dirty' = dirty
        /\ result' = result /\ row' = row /\ job' = [s \in Subtitles |-> IdleJob]
    BY <1>6 DEF Crash, rows
  <2>2. ASSUME ~reverted' PROVE ~reverted /\ revision' = revision
    BY <2>1, <2>2
  <2>3. \A s \in Subtitles : job'[s].rev = 0 /\ job'[s].pc # "lacking"
    BY <2>1, IdleJobType
  <2> QED
    BY <1>0, <2>1, <2>2, <2>3 DEF KnownInv, Candidates
<1>7. CASE \E s \in Subtitles : JobNext(s)
  BY <1>7, KnownJob
<1> QED
  BY <1>1, <1>2, <1>3, <1>4, <1>5, <1>6, <1>7, StepCases

-------------------------------------------------------------------------------
(* The theorems.                                                               *)

(* The rows a rebuild of an earlier run left are in order, and true. *)
LEMMA InitRows ==
  ASSUME disk \in [Paths -> {Absent} \union {[content |-> c, stamp |-> 0] : c \in Contents}],
         (row = [p \in Paths |-> NoRow] /\ nextId = 1) \/ Indexed
  PROVE  /\ RowsOK /\ HashOfOwnPath
         /\ \A p \in Paths : row[p].stamp <= 0 /\ True(row[p].stamp, row[p].ok, row[p].faces, disk[p])
<1>1. CASE row = [p \in Paths |-> NoRow] /\ nextId = 1
  BY <1>1, NoRowType DEF RowsOK, HashOfOwnPath, True
<1>2. CASE Indexed
  <2> DEFINE found == {p \in UNION {Roots[r] : r \in DOMAIN Roots} : disk[p] # Absent}
             Ok(p) == disk[p].content \notin Unreadable
             Indexing(id, p) == [id |-> id[p], stamp |-> disk[p].stamp, ok |-> Ok(p),
                                 faces |-> IF Ok(p) THEN Provides[disk[p].content] ELSE {},
                                 hash |-> NoHash]
  <2>1. PICK id \in [found -> 1..Cardinality(found)] :
           /\ \A p, q \in found : id[p] = id[q] => p = q
           /\ row = [p \in Paths |-> IF p \notin found THEN NoRow ELSE Indexing(id, p)]
           /\ nextId = Cardinality(found) + 1
    BY <1>2 DEF Indexed
  <2>2. found \subseteq Paths
    BY IndexAssumption DEF IndexAssumption
  <2>3. Cardinality(found) \in Nat
    BY <2>2, FS_Subset, FS_CardinalityType, IndexAssumption DEF IndexAssumption
  <2>4. ASSUME NEW p \in found
        PROVE  /\ id[p] \in Nat /\ id[p] # 0 /\ id[p] < nextId
               /\ disk[p] # Absent /\ disk[p].stamp = 0 /\ disk[p].content \in Contents
    BY <2>1, <2>2, <2>3
  <2>5. ASSUME NEW p \in found
        PROVE  /\ row[p] = Indexing(id, p) /\ row[p].id = id[p] /\ row[p].stamp = 0
               /\ row[p].ok = Ok(p) /\ row[p].hash = NoHash
               /\ row[p].faces = IF Ok(p) THEN Provides[disk[p].content] ELSE {}
    BY <2>1, <2>2, <2>4
  <2>6. ASSUME NEW p \in Paths \ found PROVE row[p] = NoRow
    BY <2>1
  <2>7. ASSUME NEW p \in found PROVE row[p] \in Rows
    <3> DEFINE faces == IF Ok(p) THEN Provides[disk[p].content] ELSE {}
    <3>1. faces \in SUBSET Names
      BY <2>4, IndexAssumption DEF IndexAssumption
    <3>2. Ok(p) \in BOOLEAN
      OBVIOUS
    <3>3. id[p] \in Nat /\ disk[p].stamp \in Int
      BY <2>4
    <3>4. row[p] = [id |-> id[p], stamp |-> disk[p].stamp, ok |-> Ok(p), faces |-> faces,
                    hash |-> NoHash]
      BY <2>5
    <3> HIDE DEF Ok, faces
    <3> QED
      BY <3>1, <3>2, <3>3, <3>4 DEF Rows
  <2>8. row \in [Paths -> Rows]
    <3>1. ASSUME NEW p \in Paths PROVE row[p] \in Rows
      BY <2>6, <2>7, NoRowType
    <3> HIDE DEF found
    <3> QED
      BY <2>1, <3>1
  <2>9. nextId \in Nat \ {0}
    BY <2>1, <2>3
  <2> HIDE DEF found, Indexing
  <2>10. ASSUME NEW p \in Paths
         PROVE  /\ row[p].id < nextId /\ (row[p].id = 0 <=> row[p] = NoRow)
                /\ row[p].faces # {} => row[p].ok
                /\ row[p].hash = NoHash /\ row[p].stamp <= 0
                /\ True(row[p].stamp, row[p].ok, row[p].faces, disk[p])
    <3>1. CASE p \in found
      <4>1. row[p].id # 0 /\ row[p].id < nextId /\ row[p] # NoRow
        BY <2>4, <2>5, <3>1, NoRowType
      <4>2. row[p].hash = NoHash /\ row[p].stamp = 0
        BY <2>5, <3>1
      <4>3. row[p].ok <=> Ok(p)
        BY <2>5, <3>1
      <4>4. /\ Ok(p) => row[p].faces = Provides[disk[p].content]
            /\ ~Ok(p) => row[p].faces = {}
        BY <2>5, <3>1
      <4> QED
        BY <4>1, <4>2, <4>3, <4>4 DEF True
    <3>2. CASE p \notin found
      BY <2>6, <2>9, <3>2, NoRowType DEF True
    <3> QED
      BY <3>1, <3>2
  <2>11. ASSUME NEW p \in Paths, NEW q \in Paths, p # q, row[p] # NoRow
         PROVE  row[p].id # row[q].id
    <3>1. p \in found /\ row[p].id = id[p] /\ id[p] # 0
      BY <2>4, <2>5, <2>6, <2>11
    <3>2. CASE q \in found
      BY <2>1, <2>5, <2>11, <3>1, <3>2
    <3>3. CASE q \notin found
      BY <2>6, <3>1, <3>3, NoRowType
    <3> QED
      BY <3>2, <3>3
  <2> QED
    BY <2>8, <2>9, <2>10, <2>11 DEF RowsOK, HashOfOwnPath
<1> QED
  BY <1>1, <1>2

LEMMA InitInv == ASSUME Init PROVE Inv
<1>1. /\ disk \in [Paths -> {Absent} \union {[content |-> c, stamp |-> 0] : c \in Contents}]
      /\ (row = [p \in Paths |-> NoRow] /\ nextId = 1) \/ Indexed
      /\ revision = 0 /\ saved = 0 /\ writes = 0 /\ rebuilds = 0 /\ jobs = 0 /\ faults = 0
      /\ index = IdleIndex /\ job = [s \in Subtitles |-> IdleJob]
      /\ result = [s \in Subtitles |-> [status |-> "none", rev |-> 0]]
      /\ ~dirty /\ ~broken /\ ~reverted /\ ~calm
  BY DEF Init
<1>2. DiskOK
  <2>1. disk \in [Paths -> {Absent} \union [content : Contents, stamp : Nat]]
    BY <1>1
  <2>2. \A p \in Paths : disk[p].stamp <= 0
    BY <1>1 DEF Absent
  <2> QED
    BY <1>1, <2>1, <2>2 DEF DiskOK
<1>3. /\ RowsOK /\ HashOfOwnPath
      /\ \A p \in Paths : row[p].stamp <= 0 /\ True(row[p].stamp, row[p].ok, row[p].faces, disk[p])
  BY <1>1, InitRows
<1>4. /\ index.pc = "off" /\ index.existing = [p \in Paths |-> NoRow] /\ index.root = 1
      /\ index.todo = {} /\ index.changed = {} /\ index.results = {} /\ index.outcome = "none"
      /\ index \in IndexType
  <2>1. [p \in Paths |-> NoRow] \in [Paths -> Rows]
    BY NoRowType
  <2> QED
    BY <1>1, <2>1 DEF IdleIndex, IndexType
<1>5. IndexOK
  BY <1>4, FS_EmptySet, IndexAssumption DEF IndexOK, IndexAssumption
<1>6. JobsOK /\ \A s \in Subtitles : /\ job[s].pc = "idle" /\ job[s].rev = 0
                                     /\ result[s].status = "none" /\ result[s].rev = 0
  BY <1>1, IdleJobType DEF JobsOK, ResultType
<1>7. CountersOK
  BY <1>1 DEF CountersOK
<1>8. TakenInv
  BY <1>3, <1>6 DEF TakenInv
<1>9. Pending = {}
  BY <1>4 DEF Pending
<1>10. LoadInv
  BY <1>4, <1>9, NoRowType DEF LoadInv
<1>11. RootInv
  BY <1>4, IndexAssumption DEF RootInv, IndexAssumption
<1>12. TruthInv
  BY <1>1, <1>3, <1>4, <1>9 DEF TruthInv
<1>13. GoneInv /\ CalmInv /\ IndexMatchesDisk
  BY <1>1, <1>4 DEF GoneInv, CalmInv, IndexMatchesDisk
<1>14. DirtyInv
  BY <1>1, <1>4 DEF DirtyInv
<1>15. KnownInv
  BY <1>1, <1>6 DEF KnownInv
<1> QED
  BY <1>2, <1>3, <1>5, <1>6, <1>7, <1>8, <1>10, <1>11, <1>12, <1>13, <1>14, <1>15 DEF Inv

LEMMA NextInv == ASSUME Inv, [Next]_vars PROVE Inv'
<1>0. /\ DiskOK /\ RowsOK /\ IndexOK /\ JobsOK /\ CountersOK /\ TakenInv
      /\ LoadInv /\ RootInv /\ TruthInv /\ GoneInv /\ CalmInv /\ IndexMatchesDisk
      /\ DirtyInv /\ KnownInv
  BY DEF Inv
<1>1. DiskOK' /\ RowsOK' /\ IndexOK' /\ JobsOK' /\ CountersOK' /\ TakenInv'
  BY <1>0, NextDisk, NextRows, NextIndex, NextJobs, NextCounters, NextTaken
<1>2. LoadInv' /\ RootInv' /\ TruthInv' /\ GoneInv'
  BY <1>0, NextLoad, NextRoot, NextTruth, NextGone
<1>3. CalmInv' /\ IndexMatchesDisk' /\ DirtyInv' /\ KnownInv'
  BY <1>0, NextCalm, NextMatches, NextDirty, NextKnown
<1> QED
  BY <1>1, <1>2, <1>3 DEF Inv

(* The inductive invariant holds throughout: what rows, rebuild and conversions know of *)
(* each other in every reachable state (indexer.rs).                                    *)
THEOREM AlwaysInv == Spec => []Inv
<1>1. Init => Inv
  BY InitInv
<1>2. Inv /\ [Next]_vars => Inv'
  BY NextInv
<1> QED
  BY <1>1, <1>2, PTL DEF Spec

(* Types, ids that no two rows share, faces of readable files only, batches within their *)
(* limit, and memoised hashes of files at the path of their row: although rows are       *)
(* pruned and inserted while a conversion hashes (write_index_results, AUTOINCREMENT,    *)
(* ensure_candidate_full_hash).                                                          *)
THEOREM IndexInvariant == Spec => []IndexInv
<1>1. Inv => IndexInv
  <2> SUFFICES ASSUME Inv PROVE IndexInv
    OBVIOUS
  <2>1. /\ DiskOK /\ RowsOK /\ IndexOK /\ JobsOK /\ CountersOK /\ TakenInv
    BY DEF Inv
  <2>2. HashOfOwnPath
    BY <2>1 DEF TakenInv
  <2>3. {revision, saved, writes, rebuilds, jobs, faults} \subseteq Nat
    BY <2>1 DEF CountersOK, DiskOK
  <2>4. /\ index.pc \in {"off", "walk", "inspect", "prune", "bump", "save"}
        /\ index.existing \in [Paths -> Rows]
        /\ index.changed \subseteq Metas /\ Cardinality(index.changed) <= Batch
        /\ \A r \in index.results : r.meta \in Metas /\ r.faces \subseteq Names
        /\ index.seen \subseteq Paths /\ index.trusted \subseteq DOMAIN Roots
    BY <2>1 DEF IndexOK, IndexType, Results
  <2>5. \A s \in Subtitles :
          /\ job[s].pc \in {"idle", "query", "lacking", "memo", "hash", "store", "subset"}
          /\ result[s].status \in {"none", "partial", "success", "failed"}
    BY <2>1 DEF JobsOK, JobType, ResultType
  <2>6. /\ disk \in [Paths -> {Absent} \union [content : Contents, stamp : Nat]]
        /\ row \in [Paths -> Rows] /\ nextId \in Nat
        /\ \A p \in Paths : row[p].id < nextId /\ (row[p].id = 0 <=> row[p] = NoRow)
        /\ \A p, q \in Paths : p # q /\ row[p] # NoRow => row[p].id # row[q].id
        /\ \A p \in Paths : row[p].faces # {} => row[p].ok
    BY <2>1 DEF DiskOK, RowsOK
  <2>7. TypeOK
    BY <2>3, <2>4, <2>5, <2>6 DEF TypeOK
  <2> QED
    BY <2>2, <2>7 DEF IndexInv
<1> QED
  BY <1>1, AlwaysInv, PTL

(* A row that the next rebuild would skip as unchanged has the file's names, whatever is *)
(* written between walk, inspection and transaction (rebuild_index_reserved).            *)
THEOREM RowsStayTruthful == Spec => []RowsAreTruthful
<1>1. Inv => RowsAreTruthful
  BY DEF Inv, TruthInv, True, RowsAreTruthful
<1> QED
  BY <1>1, AlwaysInv, PTL

(* A rebuild that nobody disturbs and that succeeds makes the index agree with the font  *)
(* directories, from whatever rows it began with (rebuild_index_reserved).               *)
THEOREM RebuildsAgree == Spec => []IndexMatchesDisk
<1>1. Inv => IndexMatchesDisk
  BY DEF Inv
<1> QED
  BY <1>1, AlwaysInv, PTL

(* A row is pruned only if its file was absent during the rebuild: a root that could not *)
(* be read in full costs no row (prune_stale_fonts).                                     *)
THEOREM PrunesAreJustified == Spec => PrunesOnlyTheGone
<1>1. ASSUME Inv, [Next]_vars
      PROVE  [\A p \in Paths : row[p] # NoRow /\ row'[p] = NoRow => p \in gone]_vars
  BY <1>1, PruneStep DEF Inv
<1> QED
  BY <1>1, AlwaysInv, PTL DEF Spec, PrunesOnlyTheGone

(* A subtitle recorded as lacking a font under the current revision still lacks it, so   *)
(* the scan may skip it (bump_font_index_revision, last_font_index_revision).            *)
THEOREM PartialsStayCurrent == Spec => []PartialsAreCurrent
<1>1. Inv => PartialsAreCurrent
  BY DEF Inv, DirtyInv, KnownInv, PartialsAreCurrent
<1> QED
  BY <1>1, AlwaysInv, PTL

================================================================================
