----------------------------- MODULE SubtitleFiles -----------------------------
(***************************************************************************)
(* What happens to subtitle files: conversions (subset and strip jobs)     *)
(* step by step, the scan that decides which files to queue, manual        *)
(* requests, the cached analysis of a file, backups with their retention,  *)
(* restores, and restarts.                                                 *)
(*                                                                         *)
(* Jobs are dispatched in any order and number (JobQueue says how); the    *)
(* jobs table is that of JobLifecycle.  A file's content is                *)
(* one of Forms; its size and mtime are one number that grows with every   *)
(* write or touch, so equal metadata means an untouched file.              *)
(***************************************************************************)
EXTENDS Integers, FiniteSets, SubtitleForms

CONSTANTS Jobs,            \* job ids
          Files,           \* subtitles: one path and one subtitle_files id each
          Uploads,         \* those that were uploaded: no watch directory holds them
          InitialForms,    \* what a file may contain before ArisSubSet sees it
          RetentionDays,   \* config.backup_retention_days, 0 keeps backups for ever
          Modes,           \* the job modes users may ask for
          Configs,         \* config_hash of the processing options one may set
          Budget           \* how many errors, crashes, restores, changes, scans, analyses

Kinds == {"error", "crash", "restore", "change", "scan", "analysis"}

ASSUME FilesAssumption ==
    /\ Uploads \subseteq Files
    /\ InitialForms \subseteq {"orig", "ext_marked", "ext_late", "ext_fonts"}
    /\ RetentionDays \in Nat
    /\ Modes \subseteq {"subset", "strip"}
    /\ "null" \notin Configs
    /\ Budget \in [Kinds -> Nat]

VARIABLES
    first,          \* the content each file had at the beginning
    file, version,  \* content and metadata (size, mtime) of each file
    row,            \* the subtitle_files row of each file
    analysis,       \* its columns analysis, analysis_size and analysis_mtime
    asking,         \* the request for the analysis of each file
    status, target, mode,  \* the jobs table
    run,            \* the conversion task of each job
    copies,         \* backup files on disk, as <<job that made it, content>>
    records,        \* rows of the backups table
    scan,           \* the scan in progress
    requested,      \* files whose subset request was checked but not inserted
    cfg, rev,       \* processing options and font index revision
    left,           \* remaining Budget
    byUser          \* history: jobs inserted on request

table    == <<status, target, mode>>
disk     == <<file, version>>
backups  == <<copies, records>>
settings == <<cfg, rev>>
analyses == <<analysis, asking>>
vars     == <<first, disk, row, table, run, backups, scan, requested, settings, left, byUser,
              analyses>>

Lifecycle == INSTANCE JobLifecycle WITH Subtitles <- Files

Active      == Lifecycle!Active
Outcomes    == Lifecycle!Outcomes
RowStatuses == {"absent", "null", "success", "partial", "failed", "skipped", "restored"}
Hashes      == Forms \cup {"empty", "metadata"}
Revisions   == Nat
Rows        == [status : RowStatuses, sha : Hashes, meta : Nat,
                cfg : Configs \cup {"null"}, rev : Revisions \cup {-1}]
Points      == {"idle", "read", "copy", "record", "write", "touch", "job", "row",
                "fail", "failrow"}
Runs        == [pc : Points, read : Forms, out : Forms, outcome : Outcomes,
                cfg : Configs \cup {"null"}, rev : Revisions, meta : Nat]
ScanPoints  == {"idle", "walk", "existing", "active", "filter", "enqueue"}
Answers     == [meta : Nat, of : Forms]
Inquiries   == [pc : {"idle", "file", "store"}, meta : Nat, of : Forms]
Verdicts    == {"none", "mark", "sync", "queue"}
Scans       == [pc : ScanPoints, cfg : Configs \cup {"null"}, rev : Revisions, meta : [Files -> Nat],
                existing : [Files -> Rows], active : SUBSET Files, todo : SUBSET Files,
                verdict : [Files -> Verdicts], sha : [Files -> Forms]]

TypeOK ==
    /\ first \in [Files -> InitialForms]
    /\ file \in [Files -> Forms]
    /\ version \in [Files -> Nat]
    /\ row \in [Files -> Rows]
    /\ analysis \in [Files -> Answers]
    /\ asking \in [Files -> Inquiries]
    /\ Lifecycle!TypeOK
    /\ mode \in [Jobs -> {"subset", "strip"}]
    /\ run \in [Jobs -> Runs]
    /\ copies \subseteq Jobs \X Forms
    /\ records \subseteq Jobs \X Forms
    /\ scan \in Scans
    /\ requested \subseteq Files
    /\ cfg \in Configs /\ rev \in Revisions
    /\ left \in [Kinds -> Nat]
    /\ byUser \subseteq Jobs

NoRow    == [status |-> "absent", sha |-> "empty", meta |-> 0, cfg |-> "null", rev |-> -1]
IdleRun  == [pc |-> "idle", read |-> "orig", out |-> "orig", outcome |-> "success",
             cfg |-> "null", rev |-> 0, meta |-> 0]
NoAnswer == [meta |-> 0, of |-> "orig"]
Unasked  == [pc |-> "idle", meta |-> 0, of |-> "orig"]
IdleScan == [pc |-> "idle", cfg |-> "null", rev |-> 0, meta |-> [s \in Files |-> 0],
             existing |-> [s \in Files |-> NoRow], active |-> {}, todo |-> {},
             verdict |-> [s \in Files |-> "none"], sha |-> [s \in Files |-> "orig"]]

HasRow(s)    == row[s].status # "absent"
HasActive(s) == \E j \in Jobs : status[j] \in Active /\ target[j] = s
Spend(kind)  == left[kind] > 0 /\ left' = [left EXCEPT ![kind] = @ - 1]

Init ==
    /\ first \in [Files -> InitialForms]
    /\ file = first
    /\ version = [s \in Files |-> 1]
    /\ row = [s \in Files |-> NoRow]
    /\ analysis = [s \in Files |-> NoAnswer]
    /\ asking = [s \in Files |-> Unasked]
    /\ status = [j \in Jobs |-> "absent"]
    /\ target \in [Jobs -> Files]
    /\ mode = [j \in Jobs |-> "subset"]
    /\ run = [j \in Jobs |-> IdleRun]
    /\ copies = {} /\ records = {}
    /\ scan = IdleScan
    /\ requested = {}
    /\ cfg \in Configs /\ rev = 0
    /\ left = Budget
    /\ byUser = {}

-------------------------------------------------------------------------------
(* Rows and requests.                                                          *)

(* register_uploaded_subtitle. *)
Register(s) ==
    /\ s \in Uploads
    /\ ~HasRow(s)
    /\ row' = [row EXCEPT ![s] = [NoRow EXCEPT !.status = "null", !.sha = file[s],
                                               !.meta = version[s]]]
    /\ UNCHANGED <<first, disk, table, run, backups, scan, requested, settings, left, byUser,
                   analyses>>

(* enqueue_subtitle_id for a subset job reads the file first ...               *)
CheckRequest(s) ==
    /\ "subset" \in Modes
    /\ HasRow(s)
    /\ ~Embedded(file[s])
    /\ requested' = requested \cup {s}
    /\ UNCHANGED <<first, disk, row, table, run, backups, scan, settings, left, byUser,
                   analyses>>

(* INSERT INTO jobs ... WHERE NOT EXISTS an active job of the subtitle.        *)
InsertJob(s, m) ==
    \/ HasActive(s) /\ UNCHANGED table
    \/ /\ ~HasActive(s)
       /\ \E j \in Jobs :
             /\ status[j] = "absent"
             /\ status' = [status EXCEPT ![j] = "queued"]
             /\ target' = [target EXCEPT ![j] = s]
             /\ mode' = [mode EXCEPT ![j] = m]

(* ... and inserts the job afterwards; a strip request inserts at once.        *)
InsertRequest(s) ==
    /\ \/ /\ s \in requested
          /\ InsertJob(s, "subset")
          /\ requested' = requested \ {s}
       \/ /\ "strip" \in Modes
          /\ HasRow(s) /\ ~HasActive(s)
          /\ InsertJob(s, "strip")
          /\ UNCHANGED requested
    /\ byUser' = byUser \cup {j \in Jobs : status'[j] # status[j]}
    /\ UNCHANGED <<first, disk, row, run, backups, scan, settings, left, analyses>>

CancelQueued ==
    /\ \E j \in Jobs : status[j] = "queued"
    /\ status' = [j \in Jobs |-> IF status[j] = "queued" THEN "cancelled" ELSE status[j]]
    /\ UNCHANGED <<first, disk, row, target, mode, run, backups, scan, requested,
                   settings, left, byUser, analyses>>

(* set_processing_option, or the end of an index run that found changes. *)
ChangeSettings ==
    /\ Spend("change")
    /\ \/ cfg' \in Configs \ {cfg} /\ UNCHANGED rev
       \/ rev' = rev + 1 /\ UNCHANGED cfg
    /\ UNCHANGED <<first, disk, row, table, run, backups, scan, requested, byUser,
                   analyses>>

-------------------------------------------------------------------------------
(* One conversion: process_job with process_subset_job or process_strip_job.   *)

Here(j)      == target[j]
Step(j, at)  == run' = [run EXCEPT ![j].pc = at]
RestOfSystem == <<first, scan, requested, settings, byUser, analyses>>

(* The claim, and the options and revision the conversion will use. *)
Claim(j) ==
    /\ run[j].pc = "idle"
    /\ status[j] = "queued"
    /\ status' = [status EXCEPT ![j] = "running"]
    /\ run' = [run EXCEPT ![j] = [IdleRun EXCEPT !.pc = "read", !.cfg = cfg, !.rev = rev]]
    /\ UNCHANGED <<disk, row, target, mode, backups, left>>
    /\ UNCHANGED RestOfSystem

(* Mutant of Refused: a [Fonts] section without markers is accepted. *)
RefusedByMarker(j) == mode[j] = "subset" /\ Marker(file[Here(j)])

Refused(j) == mode[j] = "subset" /\ Embedded(file[Here(j)])

(* Read the file, refuse a subset job on embedded fonts, compute the output.   *)
ReadAndConvert(j) ==
    /\ run[j].pc = "read"
    /\ LET form == file[Here(j)] IN
       IF Refused(j)
       THEN Step(j, "fail")
       ELSE \E out \in Outputs(mode[j], form) :
              run' = [run EXCEPT ![j].pc = IF out = form THEN "touch" ELSE "copy",
                                 ![j].read = form, ![j].out = out]
    /\ UNCHANGED <<disk, row, table, backups, left>>
    /\ UNCHANGED RestOfSystem

(* Mutant of BackupCopy: an error of the copy is ignored. *)
BackupCopyBestEffort(j) ==
    /\ run[j].pc = "copy"
    /\ copies' \in {copies, copies \cup {<<j, file[Here(j)]>>}}
    /\ Step(j, "record")
    /\ UNCHANGED <<disk, row, table, records, left>>
    /\ UNCHANGED RestOfSystem

(* backup::create: copy the file as it is now ... *)
BackupCopy(j) ==
    /\ run[j].pc = "copy"
    /\ copies' = copies \cup {<<j, file[Here(j)]>>}
    /\ Step(j, "record")
    /\ UNCHANGED <<disk, row, table, records, left>>
    /\ UNCHANGED RestOfSystem

(* ... then insert its record, under the hash of the bytes read before.  The   *)
(* path holds the second and the hash, and is unique: when the same content    *)
(* was backed up in this very second the copy replaced that backup by itself   *)
(* and the INSERT fails.                                                       *)
BackupRecord(j) ==
    /\ run[j].pc = "record"
    /\ LET mine == <<j, run[j].read>>
           twin == \E r \in records : target[r[1]] = Here(j) /\ r[2] = run[j].read IN
       \/ /\ records' = records \cup {mine}
          /\ Step(j, "write")
          /\ UNCHANGED copies
       \/ /\ twin
          /\ copies' = IF mine \in records THEN copies ELSE copies \ {mine}
          /\ Step(j, "fail")
          /\ UNCHANGED records
    /\ UNCHANGED <<disk, row, table, left>>
    /\ UNCHANGED RestOfSystem

(* write_replace: a temporary file renamed over the subtitle. *)
WriteReplace(j) ==
    /\ run[j].pc = "write"
    /\ file' = [file EXCEPT ![Here(j)] = run[j].out]
    /\ version' = [version EXCEPT ![Here(j)] = @ + 1]
    /\ Step(j, "touch")
    /\ UNCHANGED <<row, table, backups, left>>
    /\ UNCHANGED RestOfSystem

(* touch_processed_file and the metadata the row will get. *)
Touch(j) ==
    /\ run[j].pc = "touch"
    /\ version' = [version EXCEPT ![Here(j)] = @ + 1]
    /\ run' = [run EXCEPT ![j].pc = "job", ![j].meta = version[Here(j)] + 1]
    /\ UNCHANGED <<file, row, table, backups, left>>
    /\ UNCHANGED RestOfSystem

(* The job row is settled first, as partial if fonts were missing or not       *)
(* readable ...                                                                *)
SettleJob(j) ==
    /\ run[j].pc = "job"
    /\ \E outcome \in Outcomes :
          /\ status' = [status EXCEPT ![j] = outcome]
          /\ run' = [run EXCEPT ![j].pc = "row", ![j].outcome = outcome]
    /\ UNCHANGED <<disk, row, target, mode, backups, left>>
    /\ UNCHANGED RestOfSystem

(* ... the subtitle row in a second statement. *)
SettleRow(j) ==
    /\ run[j].pc = "row"
    /\ row' = [row EXCEPT ![Here(j)] =
                 [status |-> run[j].outcome, sha |-> run[j].out, meta |-> run[j].meta,
                  cfg |-> run[j].cfg, rev |-> run[j].rev]]
    /\ run' = [run EXCEPT ![j] = IdleRun]
    /\ UNCHANGED <<disk, table, backups, left>>
    /\ UNCHANGED RestOfSystem

(* An I/O, database or font worker error before any of these steps. *)
ErrorIn(j) ==
    /\ run[j].pc \notin {"idle", "fail", "failrow"}
    /\ Spend("error")
    /\ Step(j, "fail")
    /\ UNCHANGED <<disk, row, table, backups>>
    /\ UNCHANGED RestOfSystem

(* fail_job: the job row, whatever its status, then the subtitle row. *)
FailJob(j) ==
    /\ run[j].pc = "fail"
    /\ status' = [status EXCEPT ![j] = "failed"]
    /\ Step(j, "failrow")
    /\ UNCHANGED <<disk, row, target, mode, backups, left>>
    /\ UNCHANGED RestOfSystem

FailRow(j) ==
    /\ run[j].pc = "failrow"
    /\ row' = [row EXCEPT ![Here(j)].status = "failed"]
    /\ run' = [run EXCEPT ![j] = IdleRun]
    /\ UNCHANGED <<disk, table, backups, left>>
    /\ UNCHANGED RestOfSystem

-------------------------------------------------------------------------------
(* The scan: scan_now_inner.                                                   *)

OutsideScan == <<first, disk, run, backups, requested, settings, byUser, analyses>>
ScanAt(at)  == scan' = [scan EXCEPT !.pc = at]

(* The options and the revision are read once, at the start. *)
ScanBegin ==
    /\ Spend("scan")
    /\ scan.pc = "idle"
    /\ scan' = [IdleScan EXCEPT !.pc = "walk", !.cfg = cfg, !.rev = rev]
    /\ UNCHANGED <<row, table>> /\ UNCHANGED OutsideScan

(* The walk finds a file, with its metadata of this moment. *)
ScanDiscover(s) ==
    /\ scan.pc = "walk"
    /\ s \notin Uploads
    /\ scan.meta[s] = 0
    /\ scan' = [scan EXCEPT !.meta[s] = version[s], !.todo = @ \cup {s}]
    /\ UNCHANGED <<row, table>> /\ UNCHANGED <<OutsideScan, left>>

ScanWalked ==
    /\ scan.pc = "walk"
    /\ scan.todo # {}
    /\ ScanAt("existing")
    /\ UNCHANGED <<row, table>> /\ UNCHANGED <<OutsideScan, left>>

(* load_existing_subtitles, then load_active_subtitle_ids. *)
ScanLoadExisting ==
    /\ scan.pc = "existing"
    /\ scan' = [scan EXCEPT !.pc = "active", !.existing = row]
    /\ UNCHANGED <<row, table>> /\ UNCHANGED <<OutsideScan, left>>

(* Mutant of ScanLoadActive: only queued jobs count as active. *)
ScanLoadQueued ==
    /\ scan.pc = "active"
    /\ scan' = [scan EXCEPT !.pc = "filter",
                  !.active = {s \in Files : \E j \in Jobs : status[j] = "queued" /\ target[j] = s}]
    /\ UNCHANGED <<row, table>> /\ UNCHANGED <<OutsideScan, left>>

ScanLoadActive ==
    /\ scan.pc = "active"
    /\ scan' = [scan EXCEPT !.pc = "filter", !.active = {s \in Files : HasActive(s)}]
    /\ UNCHANGED <<row, table>> /\ UNCHANGED <<OutsideScan, left>>

(* The row says this file was converted under the scan's settings. *)
Converted(old) ==
    /\ old.cfg = scan.cfg
    /\ \/ old.status = "success"
       \/ old.status = "partial" /\ old.rev = scan.rev

SkippedUnread(s) ==
    LET old == scan.existing[s] IN
    /\ old.status # "absent"
    /\ s \in scan.active \/ (Converted(old) /\ old.meta = scan.meta[s])

(* filter_candidate: skip by the snapshots, or read the file and decide; the hash is of *)
(* all of it, the markers are looked for in its first mebibyte.                         *)
ScanInspect(s) ==
    /\ scan.pc = "filter"
    /\ s \in scan.todo
    /\ LET old     == scan.existing[s]
           verdict == IF SkippedUnread(s) THEN "none"
                      ELSE IF MarkerSeen(file[s]) THEN "mark"
                      ELSE IF old.sha = file[s] /\ Converted(old) THEN "sync"
                      ELSE "queue"
       IN  scan' = [scan EXCEPT !.todo = @ \ {s}, !.verdict[s] = verdict, !.sha[s] = file[s]]
    /\ UNCHANGED <<row, table>> /\ UNCHANGED <<OutsideScan, left>>

(* mark_already_subsetted and sync_subtitle_meta: on an existing row both keep *)
(* the recorded result and refresh hash and metadata.                          *)
ScanUpdateRow(s) ==
    /\ scan.pc = "filter"
    /\ scan.verdict[s] \in {"mark", "sync"}
    /\ LET sha == IF scan.verdict[s] = "mark" THEN "metadata" ELSE scan.sha[s] IN
       row' = [row EXCEPT ![s] =
                 IF HasRow(s)
                 THEN [@ EXCEPT !.sha = sha, !.meta = scan.meta[s]]
                 ELSE [status |-> "skipped", sha |-> sha, meta |-> scan.meta[s],
                       cfg |-> scan.cfg, rev |-> scan.rev]]
    /\ scan' = [scan EXCEPT !.verdict[s] = "none"]
    /\ UNCHANGED table /\ UNCHANGED <<OutsideScan, left>>

(* Every file has its verdict; the snapshots go out of scope. *)
ScanFiltered ==
    /\ scan.pc = "filter"
    /\ scan.todo = {}
    /\ \A s \in Files : scan.verdict[s] \notin {"mark", "sync"}
    /\ scan' = [IdleScan EXCEPT !.pc = "enqueue", !.meta = scan.meta,
                               !.verdict = scan.verdict, !.sha = scan.sha]
    /\ UNCHANGED <<row, table>> /\ UNCHANGED <<OutsideScan, left>>

(* Mutant of ScanEnqueue: the metadata is read again, when the row is written. *)
ScanEnqueueAfresh(s) ==
    /\ scan.pc = "enqueue"
    /\ scan.verdict[s] = "queue"
    /\ row' = [row EXCEPT ![s] =
                 [(IF HasRow(s) THEN @ ELSE [NoRow EXCEPT !.status = "null"])
                    EXCEPT !.sha = scan.sha[s], !.meta = version[s]]]
    /\ InsertJob(s, "subset")
    /\ scan' = [scan EXCEPT !.verdict[s] = "none"]
    /\ UNCHANGED <<OutsideScan, left>>

(* enqueue_candidate_tx: upsert the row with what the walk and the inspection  *)
(* saw, insert a job unless one is active.                                     *)
ScanEnqueue(s) ==
    /\ scan.pc = "enqueue"
    /\ scan.verdict[s] = "queue"
    /\ row' = [row EXCEPT ![s] =
                 [(IF HasRow(s) THEN @ ELSE [NoRow EXCEPT !.status = "null"])
                    EXCEPT !.sha = scan.sha[s], !.meta = scan.meta[s]]]
    /\ InsertJob(s, "subset")
    /\ scan' = [scan EXCEPT !.verdict[s] = "none"]
    /\ UNCHANGED <<OutsideScan, left>>

(* The end of the scan, or a cancellation or an error at any of its steps.     *)
ScanEnd ==
    /\ scan.pc # "idle"
    /\ scan' = IdleScan
    /\ UNCHANGED <<row, table>> /\ UNCHANGED <<OutsideScan, left>>

-------------------------------------------------------------------------------
(* The analysis of a file, which the row caches: file_analysis.                *)

Elsewhere == <<first, disk, row, table, run, backups, scan, requested, settings, byUser>>

(* cached_analysis: made for the size and mtime the row has now. *)
CacheHit(s) == HasRow(s) /\ analysis[s].meta = row[s].meta

(* The row is read; without a fitting answer the file must be read.            *)
AnalysisMiss(s) ==
    /\ Spend("analysis")
    /\ HasRow(s) /\ ~CacheHit(s)
    /\ asking[s].pc = "idle"
    /\ asking' = [asking EXCEPT ![s] = [Unasked EXCEPT !.pc = "file", !.meta = row[s].meta]]
    /\ UNCHANGED <<Elsewhere, analysis>>

AnalyseFile(s) ==
    /\ asking[s].pc = "file"
    /\ asking' = [asking EXCEPT ![s].pc = "store", ![s].of = file[s]]
    /\ UNCHANGED <<Elsewhere, analysis, left>>

(* Mutant of StoreAnalysis: stored for the size and mtime the row has by now. *)
StoreAnalysisAfresh(s) ==
    /\ asking[s].pc = "store"
    /\ analysis' = [analysis EXCEPT ![s] = [meta |-> row[s].meta, of |-> asking[s].of]]
    /\ asking' = [asking EXCEPT ![s] = Unasked]
    /\ UNCHANGED <<Elsewhere, left>>

(* UPDATE ... WHERE size and mtime of the row are still those read before.     *)
StoreAnalysis(s) ==
    /\ asking[s].pc = "store"
    /\ analysis' = [analysis EXCEPT ![s] = IF row[s].meta = asking[s].meta
                                           THEN [meta |-> asking[s].meta, of |-> asking[s].of]
                                           ELSE @]
    /\ asking' = [asking EXCEPT ![s] = Unasked]
    /\ UNCHANGED <<Elsewhere, left>>

(* The file cannot be read or parsed, the request is dropped.                  *)
DropAnalysis(s) ==
    /\ asking[s].pc # "idle"
    /\ asking' = [asking EXCEPT ![s] = Unasked]
    /\ UNCHANGED <<Elsewhere, analysis, left>>

-------------------------------------------------------------------------------
(* Backups: restore and retention.                                             *)

(* Mutant of CanRestore: does not look for active jobs. *)
CanRestoreBusy(r) ==
    /\ scan.pc = "idle"
    /\ r \in records /\ r \in copies

CanRestore(r) ==
    /\ scan.pc = "idle"
    /\ r \in records /\ r \in copies
    /\ ~HasActive(target[r[1]])

PutBack(r) ==
    LET s == target[r[1]] IN
    /\ file' = [file EXCEPT ![s] = r[2]]
    /\ version' = [version EXCEPT ![s] = @ + 1]
    /\ UNCHANGED <<first, table, run, backups, scan, requested, settings, byUser,
                      asking>>

(* backup::restore, under the scan guard and inside a write transaction: no    *)
(* scan runs and no job of the path is active.  The user has also switched the *)
(* schedule off and paused dispatching, which stops no task already spawned.   *)
Restore(r) ==
    /\ Spend("restore")
    /\ CanRestore(r)
    /\ PutBack(r)
    /\ LET s == target[r[1]] IN
       /\ row' = [row EXCEPT ![s] = [status |-> "restored", sha |-> "empty",
                                  meta |-> version[s] + 1, cfg |-> "null", rev |-> -1]]
       /\ analysis' = [analysis EXCEPT ![s] = NoAnswer]

(* The replacement succeeds and the transaction does not commit.               *)
RestoreUncommitted(r) ==
    /\ Spend("error")
    /\ CanRestore(r)
    /\ PutBack(r)
    /\ UNCHANGED <<row, analysis>>

(* Mutant of PruneFile: zero days of retention expire every backup. *)
PruneFileAtZero(r) ==
    /\ r \in records /\ r \in copies
    /\ run[r[1]].pc = "idle" /\ status[r[1]] \notin Active
    /\ copies' = copies \ {r}
    /\ UNCHANGED <<first, disk, row, table, run, records, scan, requested, settings, left, byUser,
                   analyses>>

(* prune_expired removes the file of an expired backup, then its record; a     *)
(* record without file is removed by the next call.  Expired backups are older *)
(* than a day: their job has long ended.                                       *)
PruneFile(r) ==
    /\ RetentionDays > 0
    /\ r \in records /\ r \in copies
    /\ run[r[1]].pc = "idle" /\ status[r[1]] \notin Active
    /\ copies' = copies \ {r}
    /\ UNCHANGED <<first, disk, row, table, run, records, scan, requested, settings, left, byUser,
                   analyses>>

PruneRecord(r) ==
    /\ RetentionDays > 0
    /\ r \in records \ copies
    /\ records' = records \ {r}
    /\ UNCHANGED <<first, disk, row, table, run, copies, scan, requested, settings, left, byUser,
                   analyses>>

-------------------------------------------------------------------------------
(* The process dies; before the next one serves anything, running jobs are     *)
(* queued again.                                                               *)
CrashAndRecover ==
    /\ Spend("crash")
    /\ run' = [j \in Jobs |-> IdleRun]
    /\ status' = [j \in Jobs |-> IF status[j] = "running" THEN "queued" ELSE status[j]]
    /\ scan' = IdleScan
    /\ requested' = {}
    /\ asking' = [s \in Files |-> Unasked]
    /\ UNCHANGED <<first, disk, row, target, mode, backups, settings, byUser, analysis>>

-------------------------------------------------------------------------------
Convert(j) ==
    \/ Claim(j) \/ ReadAndConvert(j)
    \/ BackupCopy(j) \/ BackupRecord(j) \/ WriteReplace(j)
    \/ Touch(j) \/ SettleJob(j) \/ SettleRow(j)
    \/ ErrorIn(j) \/ FailJob(j) \/ FailRow(j)

Scan ==
    \/ ScanBegin \/ ScanWalked \/ ScanLoadExisting \/ ScanLoadActive \/ ScanFiltered
    \/ ScanEnd
    \/ \E s \in Files :
         ScanDiscover(s) \/ ScanInspect(s) \/ ScanUpdateRow(s) \/ ScanEnqueue(s)

Users ==
    \/ \E s \in Files : Register(s) \/ CheckRequest(s) \/ InsertRequest(s)
    \/ CancelQueued
    \/ \E s \in Files : AnalysisMiss(s) \/ AnalyseFile(s) \/ StoreAnalysis(s) \/ DropAnalysis(s)
    \/ ChangeSettings
    \/ \E r \in records : Restore(r) \/ RestoreUncommitted(r)

Next ==
    \/ \E j \in Jobs : Convert(j)
    \/ Scan
    \/ Users
    \/ \E r \in records : PruneFile(r) \/ PruneRecord(r)
    \/ CrashAndRecover

Spec == Init /\ [][Next]_vars
-------------------------------------------------------------------------------
(* Properties.                                                                 *)

(* README: files are backed up before they are replaced.  While backups are    *)
(* kept for ever, what a file contained at first is still its content or in a  *)
(* backup on disk, whatever jobs, errors, crashes and restores happened.       *)
OriginalRecoverable ==
    RetentionDays = 0 =>
        \A s \in Files :
            file[s] = first[s] \/ \E c \in copies : target[c[1]] = s /\ c[2] = first[s]

(* A job replaces a file only by what it computed from the very content it     *)
(* replaces, and only when that content is in a recorded backup of its own:    *)
(* neither another job nor a restore slips between its read and its write.  In *)
(* particular, a subset job never replaces a file with embedded fonts (README: *)
(* such subtitles are not converted again).                                    *)
ReplacesWhatItRead ==
    [][\A j \in Jobs :
          (file' # file /\ run[j].pc = "write" /\ run'[j].pc = "touch") =>
          /\ file[target[j]] = run[j].read
          /\ <<j, run[j].read>> \in records \cap copies
          /\ mode[j] = "subset" => ~Embedded(file[target[j]])]_vars

Working == {"read", "copy", "record", "write", "touch", "job"}

(* A working task has the running job and with it the file to itself: what it  *)
(* read is there until it writes, what it wrote until it settles.              *)
OwnsFile(j) ==
    /\ run[j].pc \in Working => status[j] = "running"
    /\ run[j].pc \in {"copy", "record", "write"} =>
          /\ run[j].read = file[Here(j)]
          /\ mode[j] = "subset" => ~Embedded(run[j].read)
    /\ run[j].pc \in {"touch", "job"} => run[j].out = file[Here(j)]
    /\ run[j].pc = "record" => <<j, run[j].read>> \in copies
    /\ run[j].pc = "write" => <<j, run[j].read>> \in records \cap copies

(* Each recorded backup has its file, and each subtitle with one has its first *)
(* content among the backups.                                                  *)
RecordsAreComplete ==
    /\ records \subseteq copies
    /\ \A r \in records : \E c \in copies :
          target[c[1]] = target[r[1]] /\ c[2] = first[target[r[1]]]

(* Types; users, scans and recovery leave one active job per subtitle; a       *)
(* conversion has its file to itself; and while backups are kept for ever,     *)
(* each record can be restored, for its file is on disk before the record      *)
(* exists, also when one content is backed up twice or a copy fails            *)
(* (backup::create, prune_expired).                                            *)
FilesInv ==
    /\ TypeOK
    /\ Lifecycle!OneActivePerSubtitle
    /\ \A j \in Jobs : OwnsFile(j)
    /\ \A c \in copies \cup records : status[c[1]] # "absent"
    /\ RetentionDays = 0 => RecordsAreComplete

(* The scan trusts size and mtime: a row whose metadata is that of the file    *)
(* now holds the hash of the file now (or none), so an equal metadata never    *)
(* hides a changed subtitle.                                                   *)
MetadataIsTruthful ==
    \A s \in Files :
        (row[s].meta = version[s] /\ row[s].sha \in Forms) => row[s].sha = file[s]

(* A cached answer is that of the file as it is, whenever the row knows the    *)
(* file's size and mtime: an analysis that was slow while a job, a scan or a   *)
(* restore changed file and row never passes for one of the new content.       *)
AnalysisIsTruthful ==
    \A s \in Files : (CacheHit(s) /\ row[s].meta = version[s]) => analysis[s].of = file[s]

(* README line 45: an existing subset is not redone automatically.  A scan     *)
(* never decides to queue a file with embedded fonts that its row already      *)
(* records as converted, content and all.                                      *)
NoAutomaticRedo ==
    [][\A s \in Files :
          (scan.verdict[s] = "none" /\ scan'.verdict[s] = "queue")
          => LET old == scan.existing[s]
             IN  ~(old.status \in Outcomes /\ old.sha = file[s] /\ Embedded(file[s]))]_vars

(* README line 51: the scan skips subset markers, as far as it looks for them.  *)
(* While only scans queue jobs, none is queued for a file that carries markers  *)
(* in its first mebibyte at that moment, although conversions put them there    *)
(* while a scan runs.  (A file with later markers only may be queued; its job   *)
(* refuses it, see ReplacesWhatItRead.  A manual job that ends between          *)
(* inspection and insert is seen by neither test of the scan.)                  *)
MarkersAreSkipped ==
    [][\A s \in Files :
          (byUser = {} /\ scan.verdict[s] = "queue" /\ scan'.verdict[s] = "none"
             /\ scan'.pc = "enqueue" /\ status' # status)
          => ~MarkerSeen(file[s])]_vars

(* README line 48: restoring resets the status.  A row gets a conversion's     *)
(* result only while the file still holds what that conversion left.           *)
RestoreSticks ==
    [][\A j \in Jobs :
          (run[j].pc = "row" /\ run'[j].pc = "idle" /\ row'[target[j]] # row[target[j]])
          => file[target[j]] = run[j].out]_vars
===============================================================================
