--------------------------- MODULE SubtitleFilesProofs ---------------------------
(***************************************************************************)
(* Proofs about SubtitleFiles, for all jobs, files, options and budgets:   *)
(* what conversions, scans, restores, retention and restarts do together   *)
(* to a file, its backups and what the database says of it.                *)
(***************************************************************************)
EXTENDS SubtitleFiles, TLAPS

USE DEF table, disk, backups, settings, analyses, RestOfSystem, OutsideScan, Elsewhere,
        Here, ScanAt, Spend, Active, Outcomes, Lifecycle!Active, Lifecycle!Outcomes

-------------------------------------------------------------------------------
(* Types.                                                                      *)

(* What a job writes is one of the forms.                                      *)
LEMMA OutputsAreForms ==
    ASSUME NEW m, NEW f \in Forms PROVE Outputs(m, f) \subseteq Forms
BY DEF Outputs, Forms

(* The constants from which records are built have their types.               *)
LEMMA Idle == /\ NoRow \in Rows /\ IdleRun \in Runs /\ IdleScan \in Scans
              /\ NoAnswer \in Answers /\ Unasked \in Inquiries
<1>1. NoRow \in Rows
  BY FilesAssumption DEF NoRow, Rows, RowStatuses, Hashes
<1>2. 0 \in Revisions
  BY DEF Revisions
<1>3. IdleRun \in Runs
  BY <1>2 DEF IdleRun, Runs, Points, Forms
<1>4. IdleScan \in Scans
  BY <1>1, <1>2 DEF IdleScan, Scans, ScanPoints, Verdicts, Forms
<1> QED
  BY <1>1, <1>3, <1>4 DEF NoAnswer, Unasked, Answers, Inquiries, Forms

(* Initially the types hold, nothing is backed up and nothing runs.            *)
LEMMA InitFiles == Init => FilesInv
<1> SUFFICES ASSUME Init PROVE FilesInv
  OBVIOUS
<1>1. InitialForms \subseteq Forms
  BY FilesAssumption DEF FilesAssumption, Forms
<1>2. 0 \in Revisions /\ left \in [Kinds -> Nat]
  BY FilesAssumption DEF FilesAssumption, Revisions, Kinds, Init
<1>3. TypeOK
  BY <1>1, <1>2, Idle DEF Init, TypeOK, Lifecycle!TypeOK, Lifecycle!Statuses
<1>4. Lifecycle!OneActivePerSubtitle
  BY DEF Init, Lifecycle!OneActivePerSubtitle
<1>5. \A j \in Jobs : OwnsFile(j)
  BY DEF Init, IdleRun, OwnsFile, Working
<1> QED
  BY <1>3, <1>4, <1>5 DEF Init, FilesInv, RecordsAreComplete

(* An insertion adds a queued job or nothing.                                  *)
LEMMA InsertTypes ==
    ASSUME TypeOK, NEW s \in Files, NEW m \in {"subset", "strip"}, InsertJob(s, m)
    PROVE  Lifecycle!TypeOK' /\ mode' \in [Jobs -> {"subset", "strip"}]
<1>1. CASE UNCHANGED table
  BY <1>1 DEF TypeOK, Lifecycle!TypeOK
<1>2. CASE \E j \in Jobs : /\ status' = [status EXCEPT ![j] = "queued"]
                          /\ target' = [target EXCEPT ![j] = s]
                          /\ mode' = [mode EXCEPT ![j] = m]
  BY <1>2 DEF TypeOK, Lifecycle!TypeOK, Lifecycle!Statuses
<1> QED
  BY <1>1, <1>2 DEF InsertJob

(* A task that moves on stays a task.                                          *)
LEMMA StepTypes ==
    ASSUME TypeOK, NEW j \in Jobs, NEW at \in Points, Step(j, at)
    PROVE  run' \in [Jobs -> Runs]
<1>1. run[j] \in Runs
  BY DEF TypeOK
<1>2. [run[j] EXCEPT !.pc = at] \in Runs
  BY <1>1 DEF Runs
<1> QED
  BY <1>2 DEF Step, TypeOK

(* Every step of a conversion keeps the types.                                 *)
LEMMA ConvertTypeOK == ASSUME TypeOK, NEW j \in Jobs, Convert(j) PROVE TypeOK'
<1>0. run[j] \in Runs /\ target[j] \in Files /\ file[target[j]] \in Forms
      /\ version[target[j]] + 1 \in Nat
  BY DEF TypeOK, Lifecycle!TypeOK
<1>1. CASE Claim(j)
  <2>1. run' \in [Jobs -> Runs]
    BY <1>1, Idle DEF Claim, TypeOK, Runs, IdleRun, Points
  <2>2. Lifecycle!TypeOK'
    BY <1>1 DEF Claim, TypeOK, Lifecycle!TypeOK, Lifecycle!Statuses
  <2> QED
    BY <1>1, <2>1, <2>2 DEF Claim, TypeOK
<1>2. CASE ReadAndConvert(j)
  <2>1. run' \in [Jobs -> Runs]
    <3>1. CASE Step(j, "fail")
      BY <3>1, StepTypes DEF Points
    <3>2. ASSUME NEW out \in Forms, NEW at \in {"touch", "copy"},
                 run' = [run EXCEPT ![j].pc = at, ![j].read = file[target[j]], ![j].out = out]
          PROVE  run' \in [Jobs -> Runs]
      <4>1. [run[j] EXCEPT !.pc = at, !.read = file[target[j]], !.out = out] \in Runs
        BY <1>0 DEF Runs, Points
      <4> QED
        BY <3>2, <4>1 DEF TypeOK
    <3> QED
      BY <1>0, <1>2, <3>1, <3>2, OutputsAreForms DEF ReadAndConvert
  <2>2. UNCHANGED <<disk, row, table, backups, left>> /\ UNCHANGED RestOfSystem
    BY <1>2 DEF ReadAndConvert
  <2> QED
    BY <2>1, <2>2 DEF TypeOK, Lifecycle!TypeOK
<1>3. CASE BackupCopy(j) \/ BackupRecord(j)
  <2>1. /\ run' \in [Jobs -> Runs]
        /\ copies' \subseteq Jobs \X Forms /\ records' \subseteq Jobs \X Forms
    <3>1. PICK at \in {"record", "write", "fail"} : Step(j, at)
      BY <1>3 DEF BackupCopy, BackupRecord
    <3>2. run' \in [Jobs -> Runs]
      BY <3>1, StepTypes DEF Points
    <3>3. run[j].read \in Forms
      BY <1>0 DEF Runs
    <3> QED
      BY <1>0, <1>3, <3>2, <3>3 DEF BackupCopy, BackupRecord, TypeOK
  <2>2. UNCHANGED <<disk, row, table, left>> /\ UNCHANGED RestOfSystem
    BY <1>3 DEF BackupCopy, BackupRecord
  <2> QED
    BY <2>1, <2>2 DEF TypeOK, Lifecycle!TypeOK
<1>4. CASE WriteReplace(j) \/ Touch(j)
  <2>1. /\ run' \in [Jobs -> Runs] /\ file' \in [Files -> Forms]
        /\ version' \in [Files -> Nat]
    <3>1. CASE WriteReplace(j)
      <4>1. run' \in [Jobs -> Runs]
        BY <3>1, StepTypes DEF WriteReplace, Points
      <4>2. run[j].out \in Forms
        BY <1>0 DEF Runs
      <4> QED
        BY <1>0, <3>1, <4>1, <4>2 DEF WriteReplace, TypeOK
    <3>2. CASE Touch(j)
      <4>1. [run[j] EXCEPT !.pc = "job", !.meta = version[target[j]] + 1] \in Runs
        BY <1>0 DEF Runs, Points
      <4> QED
        BY <1>0, <3>2, <4>1 DEF Touch, TypeOK
    <3> QED
      BY <1>4, <3>1, <3>2
  <2> QED
    BY <1>4, <2>1 DEF WriteReplace, Touch, TypeOK, Lifecycle!TypeOK
<1>5. CASE SettleJob(j) \/ FailJob(j)
  <2>0. PICK end \in Outcomes \cup {"failed"} :
          status' = [status EXCEPT ![j] = end] /\ UNCHANGED target
    BY <1>5 DEF SettleJob, FailJob
  <2>1. Lifecycle!TypeOK'
    BY <2>0 DEF TypeOK, Lifecycle!TypeOK, Lifecycle!Statuses, Lifecycle!Settled
  <2>3. run' \in [Jobs -> Runs]
    <3>1. ASSUME NEW s \in Outcomes, run' = [run EXCEPT ![j].pc = "row", ![j].outcome = s]
          PROVE  run' \in [Jobs -> Runs]
      <4>1. [run[j] EXCEPT !.pc = "row", !.outcome = s] \in Runs
        BY <1>0 DEF Runs, Points
      <4> QED
        BY <3>1, <4>1 DEF TypeOK
    <3>2. CASE Step(j, "failrow")
      BY <3>2, StepTypes DEF Points
    <3> QED
      BY <1>5, <3>1, <3>2 DEF SettleJob, FailJob
  <2>2. UNCHANGED <<disk, row, backups, left, mode>> /\ UNCHANGED RestOfSystem
    BY <1>5 DEF SettleJob, FailJob
  <2> QED
    BY <2>1, <2>2, <2>3 DEF TypeOK
<1>6. CASE SettleRow(j) \/ FailRow(j)
  <2>1. Outcomes \subseteq RowStatuses /\ Forms \subseteq Hashes /\ "failed" \in RowStatuses
    BY DEF RowStatuses, Hashes
  <2>2. run' \in [Jobs -> Runs]
    BY <1>6, Idle DEF SettleRow, FailRow, TypeOK
  <2>3. row' \in [Files -> Rows]
    <3>1. /\ [status |-> run[j].outcome, sha |-> run[j].out, meta |-> run[j].meta,
             cfg |-> run[j].cfg, rev |-> run[j].rev] \in Rows
          /\ [row[target[j]] EXCEPT !.status = "failed"] \in Rows
      <4>1. row[target[j]] \in Rows
        BY <1>0 DEF TypeOK
      <4>2. Revisions \subseteq Revisions \cup {-1}
        OBVIOUS
      <4> QED
        BY <1>0, <2>1, <4>1, <4>2 DEF Rows, Runs
    <3> QED
      BY <1>0, <1>6, <3>1 DEF SettleRow, FailRow, TypeOK
  <2>4. UNCHANGED <<disk, table, backups, left>> /\ UNCHANGED RestOfSystem
    BY <1>6 DEF SettleRow, FailRow
  <2> QED
    BY <2>2, <2>3, <2>4 DEF TypeOK, Lifecycle!TypeOK
<1>7. CASE ErrorIn(j)
  <2>1. run' \in [Jobs -> Runs] /\ left' \in [Kinds -> Nat]
    <3>1. Step(j, "fail") /\ left' = [left EXCEPT !["error"] = left["error"] - 1] /\ left["error"] > 0
      BY <1>7 DEF ErrorIn
    <3> QED
      BY <3>1, StepTypes DEF Points, TypeOK, Kinds
  <2>2. UNCHANGED <<disk, row, table, backups>> /\ UNCHANGED RestOfSystem
    BY <1>7 DEF ErrorIn
  <2> QED
    BY <2>1, <2>2 DEF TypeOK, Lifecycle!TypeOK
<1> QED
  BY <1>1, <1>2, <1>3, <1>4, <1>5, <1>6, <1>7 DEF Convert

(* Every step of a scan keeps the types.                                       *)
LEMMA ScanTypeOK == ASSUME TypeOK, Scan PROVE TypeOK'
<1>0. /\ scan \in Scans /\ row \in [Files -> Rows]
      /\ \A s \in Files : version[s] \in Nat /\ file[s] \in Forms /\ file[s] \in Hashes
      /\ cfg \in Configs /\ rev \in Revisions
  BY DEF TypeOK, Hashes
<1>1. ASSUME scan' \in Scans, UNCHANGED <<row, table, left>>, UNCHANGED OutsideScan
      PROVE  TypeOK'
  BY <1>1 DEF TypeOK, Lifecycle!TypeOK
<1>2. CASE ScanBegin
  <2>1. /\ scan' = [IdleScan EXCEPT !.pc = "walk", !.cfg = cfg, !.rev = rev]
        /\ left' = [left EXCEPT !["scan"] = left["scan"] - 1] /\ left["scan"] > 0
    BY <1>2 DEF ScanBegin
  <2>3. scan' \in Scans
    BY <1>0, <2>1, Idle DEF Scans, ScanPoints
  <2>4. left' \in [Kinds -> Nat]
    BY <2>1 DEF TypeOK, Kinds
  <2>2. UNCHANGED <<row, table>> /\ UNCHANGED OutsideScan
    BY <1>2 DEF ScanBegin
  <2> QED
    BY <2>2, <2>3, <2>4 DEF TypeOK, Lifecycle!TypeOK
<1>3. CASE ScanWalked \/ ScanEnd
  BY <1>0, <1>1, <1>3, Idle DEF ScanWalked, ScanEnd, Scans, ScanPoints
<1>4. CASE ScanLoadExisting
  BY <1>0, <1>1, <1>4 DEF ScanLoadExisting, Scans, ScanPoints
<1>5. CASE ScanLoadActive
  BY <1>0, <1>1, <1>5 DEF ScanLoadActive, Scans, ScanPoints
<1>6. CASE ScanFiltered
  BY <1>0, <1>1, <1>6, Idle DEF ScanFiltered, Scans, ScanPoints
<1>7. ASSUME NEW s \in Files, ScanDiscover(s) PROVE TypeOK'
  <2>1. [scan EXCEPT !.meta[s] = version[s], !.todo = @ \cup {s}] \in Scans
    BY <1>0 DEF Scans
  <2> QED
    BY <1>1, <1>7, <2>1 DEF ScanDiscover
<1>8. ASSUME NEW s \in Files, ScanInspect(s) PROVE TypeOK'
  <2>1. PICK verdict \in Verdicts :
          scan' = [scan EXCEPT !.todo = @ \ {s}, !.verdict[s] = verdict, !.sha[s] = file[s]]
    BY <1>8 DEF ScanInspect, Verdicts
  <2>2. scan' \in Scans
    BY <1>0, <2>1 DEF Scans
  <2> QED
    BY <1>1, <1>8, <2>2 DEF ScanInspect
<1>9. ASSUME NEW s \in Files, ScanUpdateRow(s) \/ ScanEnqueue(s) PROVE TypeOK'
  <2>1. [scan EXCEPT !.verdict[s] = "none"] \in Scans
    BY <1>0 DEF Scans, Verdicts
  <2>2. PICK sha \in Hashes :
          row' \in {[row EXCEPT ![s] = [@ EXCEPT !.sha = sha, !.meta = scan.meta[s]]],
                   [row EXCEPT ![s] = [[NoRow EXCEPT !.status = "null"]
                                         EXCEPT !.sha = sha, !.meta = scan.meta[s]]],
                   [row EXCEPT ![s] = [status |-> "skipped", sha |-> sha, meta |-> scan.meta[s],
                                       cfg |-> scan.cfg, rev |-> scan.rev]]}
    <3>1. scan.sha[s] \in Hashes /\ "metadata" \in Hashes
      BY <1>0 DEF Scans, Hashes
    <3> QED
      BY <1>9, <3>1 DEF ScanUpdateRow, ScanEnqueue
  <2>3. row' \in [Files -> Rows]
    <3>1. /\ [row[s] EXCEPT !.sha = sha, !.meta = scan.meta[s]] \in Rows
          /\ [[NoRow EXCEPT !.status = "null"] EXCEPT !.sha = sha, !.meta = scan.meta[s]] \in Rows
          /\ [status |-> "skipped", sha |-> sha, meta |-> scan.meta[s],
              cfg |-> scan.cfg, rev |-> scan.rev] \in Rows
      BY <1>0, Idle DEF Rows, Scans, RowStatuses
    <3> QED
      BY <1>0, <2>2, <3>1
  <2>4. Lifecycle!TypeOK' /\ mode' \in [Jobs -> {"subset", "strip"}]
    <3>1. UNCHANGED table \/ InsertJob(s, "subset")
      BY <1>9 DEF ScanUpdateRow, ScanEnqueue
    <3> QED
      BY <3>1, InsertTypes DEF TypeOK, Lifecycle!TypeOK
  <2>5. scan' \in Scans /\ UNCHANGED <<OutsideScan, left>>
    BY <1>9, <2>1 DEF ScanUpdateRow, ScanEnqueue
  <2> QED
    BY <2>3, <2>4, <2>5 DEF TypeOK
<1> QED
  BY <1>2, <1>3, <1>4, <1>5, <1>6, <1>7, <1>8, <1>9 DEF Scan

(* Every step of a user or of a request keeps the types.                       *)
LEMMA UsersTypeOK == ASSUME TypeOK, Users PROVE TypeOK'
<1>0. /\ \A s \in Files : /\ version[s] \in Nat /\ file[s] \in Forms /\ file[s] \in Hashes
                          /\ row[s] \in Rows /\ row[s].meta \in Nat /\ asking[s] \in Inquiries
      /\ \A r \in records : target[r[1]] \in Files /\ r[2] \in Forms
  BY DEF TypeOK, Hashes, Rows, Lifecycle!TypeOK
<1>1. ASSUME NEW s \in Files, Register(s) PROVE TypeOK'
  <2>1. [NoRow EXCEPT !.status = "null", !.sha = file[s], !.meta = version[s]] \in Rows
    BY <1>0, Idle DEF Rows, RowStatuses
  <2> QED
    BY <1>1, <2>1 DEF Register, TypeOK, Lifecycle!TypeOK
<1>2. ASSUME NEW s \in Files, CheckRequest(s) PROVE TypeOK'
  BY <1>2 DEF CheckRequest, TypeOK, Lifecycle!TypeOK
<1>3. ASSUME NEW s \in Files, InsertRequest(s) PROVE TypeOK'
  <2>1. /\ \E m \in {"subset", "strip"} : InsertJob(s, m)
        /\ requested' \subseteq Files /\ byUser' \subseteq Jobs
        /\ UNCHANGED <<first, disk, row, run, backups, scan, settings, left, analyses>>
    BY <1>3 DEF InsertRequest, TypeOK
  <2>2. Lifecycle!TypeOK' /\ mode' \in [Jobs -> {"subset", "strip"}]
    BY <2>1, InsertTypes
  <2> QED
    BY <2>1, <2>2 DEF TypeOK
<1>4. CASE CancelQueued
  <2>1. Lifecycle!TypeOK'
    BY <1>4 DEF CancelQueued, TypeOK, Lifecycle!TypeOK, Lifecycle!Statuses, Lifecycle!Settled
  <2> QED
    BY <1>4, <2>1 DEF CancelQueued, TypeOK
<1>5. CASE ChangeSettings
  <2>1. /\ left' = [left EXCEPT !["change"] = left["change"] - 1] /\ left["change"] > 0
        /\ cfg' \in Configs /\ rev' \in {rev, rev + 1}
        /\ UNCHANGED <<first, disk, row, table, run, backups, scan, requested, byUser, analyses>>
    BY <1>5 DEF ChangeSettings, TypeOK
  <2>2. left' \in [Kinds -> Nat]
    BY <2>1 DEF TypeOK, Kinds
  <2> QED
    BY <2>1, <2>2 DEF TypeOK, Lifecycle!TypeOK, Revisions
<1>6. ASSUME NEW s \in Files,
             AnalysisMiss(s) \/ AnalyseFile(s) \/ StoreAnalysis(s) \/ DropAnalysis(s)
      PROVE  TypeOK'
  <2>1. asking' \in [Files -> Inquiries]
    <3>1. /\ Unasked \in Inquiries /\ [asking[s] EXCEPT !.pc = "store", !.of = file[s]] \in Inquiries
          /\ [Unasked EXCEPT !.pc = "file", !.meta = row[s].meta] \in Inquiries
      BY <1>0, Idle DEF Inquiries
    <3> QED
      BY <1>6, <3>1 DEF AnalysisMiss, AnalyseFile, StoreAnalysis, DropAnalysis, TypeOK
  <2>2. analysis' \in [Files -> Answers]
    <3>1. [meta |-> asking[s].meta, of |-> asking[s].of] \in Answers
      BY <1>0 DEF Inquiries, Answers
    <3> QED
      BY <1>6, <3>1 DEF AnalysisMiss, AnalyseFile, StoreAnalysis, DropAnalysis, TypeOK
  <2>3. left' \in [Kinds -> Nat]
    <3>1. \/ UNCHANGED left
          \/ left["analysis"] > 0 /\ left' = [left EXCEPT !["analysis"] = left["analysis"] - 1]
      BY <1>6 DEF AnalysisMiss, AnalyseFile, StoreAnalysis, DropAnalysis
    <3> QED
      BY <3>1 DEF TypeOK, Kinds
  <2>4. UNCHANGED Elsewhere
    BY <1>6 DEF AnalysisMiss, AnalyseFile, StoreAnalysis, DropAnalysis
  <2> QED
    BY <2>1, <2>2, <2>3, <2>4 DEF TypeOK, Lifecycle!TypeOK
<1>7. ASSUME NEW r \in records, Restore(r) \/ RestoreUncommitted(r) PROVE TypeOK'
  <2>1. /\ file' \in [Files -> Forms] /\ version' \in [Files -> Nat]
        /\ UNCHANGED <<first, table, run, backups, scan, requested, settings, byUser, asking>>
    BY <1>0, <1>7 DEF Restore, RestoreUncommitted, PutBack, TypeOK
  <2>2. row' \in [Files -> Rows] /\ analysis' \in [Files -> Answers]
    <3>1. CASE Restore(r)
      <4>1. [status |-> "restored", sha |-> "empty", meta |-> version[target[r[1]]] + 1,
             cfg |-> "null", rev |-> -1] \in Rows
        BY <1>0 DEF Rows, RowStatuses, Hashes
      <4> QED
        BY <1>0, <3>1, <4>1, Idle DEF Restore, TypeOK
    <3>2. CASE RestoreUncommitted(r)
      BY <3>2 DEF RestoreUncommitted, TypeOK
    <3> QED
      BY <1>7, <3>1, <3>2
  <2>3. left' \in [Kinds -> Nat]
    <3>1. PICK kind \in {"restore", "error"} :
            left[kind] > 0 /\ left' = [left EXCEPT ![kind] = left[kind] - 1]
      BY <1>7 DEF Restore, RestoreUncommitted
    <3> QED
      BY <3>1 DEF TypeOK, Kinds
  <2> QED
    BY <2>1, <2>2, <2>3 DEF TypeOK, Lifecycle!TypeOK
<1> QED
  BY <1>1, <1>2, <1>3, <1>4, <1>5, <1>6, <1>7 DEF Users

(* Every step keeps the types.                                                 *)
LEMMA NextTypeOK == ASSUME TypeOK, [Next]_vars PROVE TypeOK'
<1>1. ASSUME NEW r \in records, PruneFile(r) \/ PruneRecord(r) PROVE TypeOK'
  BY <1>1 DEF PruneFile, PruneRecord, TypeOK, Lifecycle!TypeOK
<1>2. CASE CrashAndRecover
  <2>1. Lifecycle!TypeOK'
    BY <1>2 DEF CrashAndRecover, TypeOK, Lifecycle!TypeOK, Lifecycle!Statuses
  <2>2. /\ run' \in [Jobs -> Runs] /\ scan' \in Scans /\ requested' = {}
        /\ asking' \in [Files -> Inquiries] /\ left' \in [Kinds -> Nat]
        /\ UNCHANGED <<first, disk, row, mode, backups, settings, byUser, analysis>>
    BY <1>2, Idle DEF CrashAndRecover, TypeOK, Kinds
  <2> QED
    BY <2>1, <2>2 DEF TypeOK
<1>3. CASE UNCHANGED vars
  BY <1>3 DEF vars, TypeOK, Lifecycle!TypeOK
<1> QED
  BY <1>1, <1>2, <1>3, ConvertTypeOK, ScanTypeOK, UsersTypeOK DEF Next

-------------------------------------------------------------------------------
(* The jobs table.                                                             *)

(* Each step inserts a job for a subtitle without an active one, or leaves the *)
(* subtitles of the jobs alone, makes no job active and forgets none.          *)
LEMMA TableStep ==
    ASSUME TypeOK, [Next]_vars
    PROVE  \/ \E s \in Files, m \in {"subset", "strip"} :
                 InsertJob(s, m) /\ (ScanEnqueue(s) \/ InsertRequest(s))
           \/ /\ UNCHANGED <<target, mode>>
              /\ \A j \in Jobs : /\ status'[j] \in Active => status[j] \in Active
                                 /\ status[j] # "absent" => status'[j] # "absent"
<1> DEFINE Calm == /\ UNCHANGED <<target, mode>>
                   /\ \A j \in Jobs : /\ status'[j] \in Active => status[j] \in Active
                                      /\ status[j] # "absent" => status'[j] # "absent"
<1>0. UNCHANGED table => Calm
  OBVIOUS
<1>1. ASSUME NEW j \in Jobs, Convert(j) PROVE Calm
  <2>1. CASE UNCHANGED table
    BY <1>0, <2>1
  <2>2. CASE Claim(j) \/ SettleJob(j) \/ FailJob(j)
    <3>1. CASE Claim(j)
      BY <3>1 DEF Claim, TypeOK, Lifecycle!TypeOK
    <3>2. CASE SettleJob(j) \/ FailJob(j)
      <4>1. PICK end \in Outcomes \cup {"failed"} :
              status' = [status EXCEPT ![j] = end] /\ UNCHANGED <<target, mode>>
        BY <3>2 DEF SettleJob, FailJob
      <4> QED
        BY <4>1 DEF TypeOK, Lifecycle!TypeOK
    <3> QED
      BY <2>2, <3>1, <3>2
  <2>3. \/ UNCHANGED table
        \/ Claim(j) \/ SettleJob(j) \/ FailJob(j)
    BY <1>1 DEF Convert, ReadAndConvert, BackupCopy, BackupRecord, WriteReplace, Touch,
                SettleRow, ErrorIn, FailRow
  <2> QED
    BY <2>1, <2>2, <2>3
<1>2. CASE Scan
  <2>1. UNCHANGED table \/ \E s \in Files : ScanEnqueue(s)
    BY <1>2 DEF Scan, ScanBegin, ScanDiscover, ScanWalked, ScanLoadExisting, ScanLoadActive,
                ScanInspect, ScanUpdateRow, ScanFiltered, ScanEnd
  <2>2. ASSUME NEW s \in Files, ScanEnqueue(s) PROVE InsertJob(s, "subset")
    BY <2>2 DEF ScanEnqueue
  <2> QED
    BY <1>0, <2>1, <2>2
<1>3. CASE Users
  <2>1. \/ UNCHANGED table
        \/ CancelQueued
        \/ \E s \in Files : InsertRequest(s)
    BY <1>3 DEF Users, Register, CheckRequest, ChangeSettings, AnalysisMiss,
                AnalyseFile, StoreAnalysis, DropAnalysis, Restore, RestoreUncommitted, PutBack
  <2>2. CASE CancelQueued
    BY <2>2 DEF CancelQueued, TypeOK, Lifecycle!TypeOK
  <2>3. ASSUME NEW s \in Files, InsertRequest(s)
        PROVE  InsertJob(s, "subset") \/ InsertJob(s, "strip")
    BY <2>3 DEF InsertRequest
  <2> QED
    BY <1>0, <2>1, <2>2, <2>3
<1>4. ASSUME NEW r \in records, PruneFile(r) \/ PruneRecord(r) PROVE Calm
  BY <1>0, <1>4 DEF PruneFile, PruneRecord
<1>5. CASE CrashAndRecover
  BY <1>5 DEF CrashAndRecover, TypeOK, Lifecycle!TypeOK
<1>6. CASE UNCHANGED vars
  BY <1>0, <1>6 DEF vars
<1> QED
  BY <1>1, <1>2, <1>3, <1>4, <1>5, <1>6 DEF Next

(* Jobs that exist keep subtitle and mode, and stay.                           *)
LEMMA JobsStay ==
    ASSUME TypeOK, [Next]_vars, NEW j \in Jobs, status[j] # "absent"
    PROVE  status'[j] # "absent" /\ target'[j] = target[j] /\ mode'[j] = mode[j]
<1>1. ASSUME NEW s \in Files, NEW m \in {"subset", "strip"}, InsertJob(s, m)
      PROVE  status'[j] # "absent" /\ target'[j] = target[j] /\ mode'[j] = mode[j]
  BY <1>1 DEF InsertJob, TypeOK, Lifecycle!TypeOK
<1> QED
  BY <1>1, TableStep

(* A subtitle never gets a second active job.                                  *)
LEMMA NextOneActive ==
    ASSUME TypeOK, Lifecycle!OneActivePerSubtitle, [Next]_vars
    PROVE  Lifecycle!OneActivePerSubtitle'
<1>1. ASSUME NEW s \in Files, NEW m \in {"subset", "strip"}, InsertJob(s, m)
      PROVE  Lifecycle!OneActivePerSubtitle'
  <2>1. CASE UNCHANGED table
    BY <2>1 DEF Lifecycle!OneActivePerSubtitle
  <2>2. ASSUME ~HasActive(s), NEW j \in Jobs, status[j] = "absent",
               status' = [status EXCEPT ![j] = "queued"], target' = [target EXCEPT ![j] = s]
        PROVE  Lifecycle!OneActivePerSubtitle'
    <3>1. \A i \in Jobs \ {j} : status'[i] = status[i] /\ target'[i] = target[i]
      BY <2>2 DEF TypeOK, Lifecycle!TypeOK
    <3>2. target'[j] = s
      BY <2>2 DEF TypeOK, Lifecycle!TypeOK
    <3>3. \A i \in Jobs : status[i] \in Active => target[i] # s
      BY <2>2 DEF HasActive
    <3> QED
      BY <3>1, <3>2, <3>3 DEF Lifecycle!OneActivePerSubtitle
  <2> QED
    BY <1>1, <2>1, <2>2 DEF InsertJob
<1> QED
  BY <1>1, TableStep DEF Lifecycle!OneActivePerSubtitle

-------------------------------------------------------------------------------
(* A working task has its file to itself.                                      *)

(* It does while nobody touches its task, its job, its file or its backups.    *)
LEMMA Undisturbed ==
    ASSUME NEW q \in Jobs, OwnsFile(q), run'[q] = run[q],
           run[q].pc \in Working =>
              /\ status'[q] = status[q] /\ target'[q] = target[q] /\ mode'[q] = mode[q]
              /\ file'[target[q]] = file[target[q]]
              /\ <<q, run[q].read>> \in copies => <<q, run[q].read>> \in copies'
              /\ <<q, run[q].read>> \in records => <<q, run[q].read>> \in records'
    PROVE  OwnsFile(q)'
BY DEF OwnsFile, Working

(* What a step of a conversion does to its own task, and leaves to the others. *)
LEMMA OwnStep ==
    ASSUME TypeOK, NEW j \in Jobs, OwnsFile(j), Convert(j) PROVE OwnsFile(j)'
<1>0. run[j] \in Runs /\ target[j] \in Files
  BY DEF TypeOK, Lifecycle!TypeOK
<1>1. ASSUME NEW at \in Points \ Working, Step(j, at) PROVE OwnsFile(j)'
  <2>1. run'[j].pc = at
    BY <1>0, <1>1 DEF Step, TypeOK, Runs
  <2> QED
    BY <2>1 DEF OwnsFile, Working
<1>2. CASE Claim(j)
  <2>1. run'[j].pc = "read" /\ status'[j] = "running"
    BY <1>2 DEF Claim, TypeOK, Lifecycle!TypeOK, IdleRun
  <2> QED
    BY <2>1 DEF OwnsFile
<1>3. CASE ReadAndConvert(j)
  <2>1. UNCHANGED <<file, status, target, mode>>
    BY <1>3 DEF ReadAndConvert
  <2>2. CASE Step(j, "fail")
    BY <1>1, <2>2 DEF Points, Working
  <2>3. ASSUME NEW out \in Outputs(mode[j], file[target[j]]), ~Refused(j),
               run' = [run EXCEPT ![j].pc = IF out = file[target[j]] THEN "touch" ELSE "copy",
                                  ![j].read = file[target[j]], ![j].out = out]
        PROVE  OwnsFile(j)'
    <3>1. /\ run'[j].pc = IF out = file[target[j]] THEN "touch" ELSE "copy"
          /\ run'[j].read = file[target[j]] /\ run'[j].out = out
      BY <1>0, <2>3 DEF TypeOK, Runs
    <3>2. status[j] = "running"
      BY <1>3 DEF ReadAndConvert, OwnsFile, Working
    <3>3. mode[j] = "subset" => ~Embedded(file[target[j]])
      BY <2>3 DEF Refused
    <3> QED
      BY <2>1, <3>1, <3>2, <3>3 DEF OwnsFile
  <2> QED
    BY <1>3, <2>2, <2>3 DEF ReadAndConvert
<1>4. CASE BackupCopy(j)
  <2>1. /\ run[j].pc = "copy" /\ run'[j] = [run[j] EXCEPT !.pc = "record"]
        /\ UNCHANGED <<file, status, target, mode>>
        /\ copies' = copies \cup {<<j, file[target[j]]>>}
    BY <1>4 DEF BackupCopy, Step, TypeOK
  <2>2. run'[j].pc = "record" /\ run'[j].read = run[j].read
    BY <1>0, <2>1 DEF Runs
  <2> QED
    BY <2>1, <2>2 DEF OwnsFile, Working
<1>5. CASE BackupRecord(j)
  <2>1. CASE Step(j, "fail")
    BY <1>1, <2>1 DEF Points, Working
  <2>2. CASE Step(j, "write") /\ records' = records \cup {<<j, run[j].read>>} /\ UNCHANGED copies
    <3>1. /\ run[j].pc = "record" /\ run'[j] = [run[j] EXCEPT !.pc = "write"]
          /\ UNCHANGED <<file, status, target, mode>>
      BY <1>5, <2>2 DEF BackupRecord, Step, TypeOK
    <3>2. run'[j].pc = "write" /\ run'[j].read = run[j].read
      BY <1>0, <3>1 DEF Runs
    <3> QED
      BY <2>2, <3>1, <3>2 DEF OwnsFile, Working
  <2> QED
    BY <1>5, <2>1, <2>2 DEF BackupRecord
<1>6. CASE WriteReplace(j)
  <2>1. /\ run[j].pc = "write" /\ run'[j] = [run[j] EXCEPT !.pc = "touch"]
        /\ UNCHANGED <<status, target, mode>>
        /\ file'[target[j]] = run[j].out
    BY <1>0, <1>6 DEF WriteReplace, Step, TypeOK
  <2>2. run'[j].pc = "touch" /\ run'[j].out = run[j].out
    BY <1>0, <2>1 DEF Runs
  <2> QED
    BY <2>1, <2>2 DEF OwnsFile, Working
<1>7. CASE Touch(j)
  <2>1. /\ run[j].pc = "touch" /\ run'[j].pc = "job" /\ run'[j].out = run[j].out
        /\ UNCHANGED <<file, status, target, mode>>
    BY <1>0, <1>7 DEF Touch, TypeOK, Runs
  <2> QED
    BY <2>1 DEF OwnsFile, Working
<1>8. CASE SettleJob(j)
  <2>1. run'[j].pc = "row"
    BY <1>0, <1>8 DEF SettleJob, TypeOK, Runs
  <2> QED
    BY <2>1 DEF OwnsFile, Working
<1>9. CASE SettleRow(j) \/ FailRow(j)
  <2>1. run'[j].pc = "idle"
    BY <1>9 DEF SettleRow, FailRow, TypeOK, IdleRun
  <2> QED
    BY <2>1 DEF OwnsFile, Working
<1>10. CASE ErrorIn(j) \/ FailJob(j)
  BY <1>1, <1>10 DEF ErrorIn, FailJob, Points, Working
<1> QED
  BY <1>2, <1>3, <1>4, <1>5, <1>6, <1>7, <1>8, <1>9, <1>10 DEF Convert

(* What a conversion leaves alone: the other tasks and jobs, the other files,  *)
(* and the others' backups.                                                    *)
LEMMA OthersApart ==
    ASSUME TypeOK, NEW j \in Jobs, Convert(j)
    PROVE  /\ \A q \in Jobs \ {j} : run'[q] = run[q] /\ status'[q] = status[q]
           /\ UNCHANGED <<target, mode, first>>
           /\ \A c \in copies \cup records : c[1] # j =>
                 /\ c \in copies => c \in copies'
                 /\ c \in records => c \in records'
           /\ UNCHANGED file \/ WriteReplace(j)
<1> USE DEF Step
<1>1. CASE Claim(j) \/ SettleJob(j) \/ FailJob(j)
  BY <1>1 DEF Claim, SettleJob, FailJob, TypeOK, Lifecycle!TypeOK
<1>2. CASE ReadAndConvert(j) \/ Touch(j) \/ SettleRow(j) \/ FailRow(j) \/ ErrorIn(j)
  BY <1>2 DEF ReadAndConvert, Touch, SettleRow, FailRow, ErrorIn, TypeOK
<1>3. CASE BackupCopy(j) \/ BackupRecord(j)
  BY <1>3 DEF BackupCopy, BackupRecord, TypeOK
<1>4. CASE WriteReplace(j)
  BY <1>4 DEF WriteReplace, TypeOK
<1> QED
  BY <1>1, <1>2, <1>3, <1>4 DEF Convert

(* No step of anybody comes between a task and its file.  Jobs of one subtitle *)
(* exclude each other, a restore waits until none is active, and retention     *)
(* spares the backups of jobs that run.                                        *)
LEMMA NextOwnsFile ==
    ASSUME FilesInv, [Next]_vars, NEW q \in Jobs PROVE OwnsFile(q)'
<1>0. /\ TypeOK /\ OwnsFile(q) /\ Lifecycle!OneActivePerSubtitle
      /\ run[q] \in Runs /\ target[q] \in Files
      /\ run[q].pc \in Working => status[q] = "running"
  BY DEF FilesInv, TypeOK, Lifecycle!TypeOK, OwnsFile
<1>1. run[q].pc \in Working => target'[q] = target[q] /\ mode'[q] = mode[q]
  BY <1>0, JobsStay
<1>2. ASSUME NEW j \in Jobs, Convert(j) PROVE OwnsFile(q)'
  <2>1. CASE q = j
    BY <1>0, <1>2, <2>1, OwnStep
  <2>2. CASE q # j
    <3>1. /\ run'[q] = run[q] /\ status'[q] = status[q]
          /\ <<q, run[q].read>> \in copies => <<q, run[q].read>> \in copies'
          /\ <<q, run[q].read>> \in records => <<q, run[q].read>> \in records'
          /\ UNCHANGED file \/ WriteReplace(j)
      BY <1>0, <1>2, <2>2, OthersApart
    <3>2. ASSUME run[q].pc \in Working, WriteReplace(j) PROVE file'[target[q]] = file[target[q]]
      <4>1. status[q] = "running" /\ status[j] = "running"
        BY <1>0, <3>2 DEF WriteReplace, FilesInv, OwnsFile, Working
      <4>2. target[q] # target[j]
        BY <1>0, <2>2, <4>1 DEF Lifecycle!OneActivePerSubtitle
      <4> QED
        BY <1>0, <3>2, <4>2 DEF WriteReplace, TypeOK
    <3> QED
      BY <1>0, <1>1, <3>1, <3>2, Undisturbed
  <2> QED
    BY <2>1, <2>2
<1>3. ASSUME UNCHANGED <<run, file, copies, records>>,
             status[q] = "running" => status'[q] = "running"
      PROVE  OwnsFile(q)'
  BY <1>0, <1>1, <1>3, Undisturbed
<1>4. ASSUME NEW s \in Files, NEW m, InsertJob(s, m)
      PROVE  status[q] = "running" => status'[q] = "running"
  <2>1. CASE UNCHANGED table
    BY <2>1
  <2>2. ASSUME NEW j \in Jobs, status[j] = "absent", status' = [status EXCEPT ![j] = "queued"]
        PROVE  status[q] = "running" => status'[q] = "running"
    BY <1>0, <2>2 DEF TypeOK, Lifecycle!TypeOK
  <2> QED
    BY <1>4, <2>1, <2>2 DEF InsertJob
<1>5. CASE Scan
  <2>1. UNCHANGED <<run, file, copies, records>>
    BY <1>5 DEF Scan, ScanBegin, ScanDiscover, ScanWalked, ScanLoadExisting, ScanLoadActive,
                ScanInspect, ScanUpdateRow, ScanFiltered, ScanEnqueue, ScanEnd
  <2>2. UNCHANGED table \/ \E s \in Files : InsertJob(s, "subset")
    BY <1>5 DEF Scan, ScanBegin, ScanDiscover, ScanWalked, ScanLoadExisting, ScanLoadActive,
                ScanInspect, ScanUpdateRow, ScanFiltered, ScanEnqueue, ScanEnd
  <2> QED
    BY <1>3, <1>4, <2>1, <2>2
<1>6. ASSUME NEW s \in Files, InsertRequest(s) PROVE OwnsFile(q)'
  <2>1. UNCHANGED <<run, file, copies, records>> /\ \E m \in {"subset", "strip"} : InsertJob(s, m)
    BY <1>6 DEF InsertRequest
  <2> QED
    BY <1>3, <1>4, <2>1
<1>7. CASE CancelQueued \/ ChangeSettings
  BY <1>3, <1>7 DEF CancelQueued, ChangeSettings, TypeOK, Lifecycle!TypeOK
<1>8. ASSUME NEW s \in Files,
             \/ Register(s) \/ CheckRequest(s) \/ AnalysisMiss(s) \/ AnalyseFile(s)
             \/ StoreAnalysis(s) \/ DropAnalysis(s)
      PROVE  OwnsFile(q)'
  BY <1>3, <1>8 DEF Register, CheckRequest, AnalysisMiss, AnalyseFile, StoreAnalysis,
                    DropAnalysis
<1>9. ASSUME NEW r \in records, Restore(r) \/ RestoreUncommitted(r) PROVE OwnsFile(q)'
  <2>1. CanRestore(r) /\ PutBack(r)
    BY <1>9 DEF Restore, RestoreUncommitted
  <2>2. run[q].pc \in Working => target[q] # target[r[1]]
    BY <1>0, <2>1 DEF CanRestore, HasActive
  <2>3. run[q].pc \in Working => file'[target[q]] = file[target[q]]
    BY <1>0, <2>1, <2>2 DEF PutBack, TypeOK
  <2> QED
    BY <1>0, <2>1, <2>3, Undisturbed DEF PutBack
<1>10. ASSUME NEW r \in records, PruneFile(r) \/ PruneRecord(r) PROVE OwnsFile(q)'
  <2>1. UNCHANGED <<run, table, file>>
    BY <1>10 DEF PruneFile, PruneRecord
  <2>2. CASE PruneFile(r)
    <3>1. copies' = copies \ {r} /\ run[r[1]].pc = "idle" /\ UNCHANGED records
      BY <2>2 DEF PruneFile
    <3>2. run[q].pc \in Working => r # <<q, run[q].read>>
      BY <3>1 DEF Working
    <3> QED
      BY <1>0, <2>1, <3>1, <3>2, Undisturbed
  <2>3. CASE PruneRecord(r)
    BY <1>0, <2>1, <2>3 DEF PruneRecord, OwnsFile, Working
  <2> QED
    BY <1>10, <2>2, <2>3
<1>11. CASE CrashAndRecover
  BY <1>11 DEF CrashAndRecover, IdleRun, OwnsFile, Working
<1>12. CASE UNCHANGED vars
  BY <1>3, <1>12 DEF vars
<1> QED
  <2>1. ASSUME Users PROVE OwnsFile(q)'
    BY <1>6, <1>7, <1>8, <1>9, <2>1 DEF Users
  <2> QED
    BY <1>2, <1>5, <1>10, <1>11, <1>12, <2>1 DEF Next

-------------------------------------------------------------------------------
(* Backups.                                                                    *)

(* The only steps that touch a file's content or its backups.                  *)
LEMMA BackupStep ==
    ASSUME TypeOK, [Next]_vars
    PROVE  /\ UNCHANGED first
           /\ \/ UNCHANGED <<file, copies, records>>
              \/ \E j \in Jobs : BackupCopy(j) \/ BackupRecord(j) \/ WriteReplace(j)
              \/ /\ UNCHANGED <<copies, records>>
                 /\ \E r \in records : CanRestore(r) /\ PutBack(r)
              \/ /\ RetentionDays > 0 /\ UNCHANGED file
                 /\ copies' \subseteq copies /\ records' \subseteq records
<1>1. ASSUME NEW j \in Jobs, Convert(j)
      PROVE  /\ UNCHANGED first
             /\ \/ UNCHANGED <<file, copies, records>>
                \/ BackupCopy(j) \/ BackupRecord(j) \/ WriteReplace(j)
  BY <1>1 DEF Convert, Claim, ReadAndConvert, BackupCopy, BackupRecord, WriteReplace, Touch,
              SettleJob, SettleRow, ErrorIn, FailJob, FailRow
<1>2. CASE Scan
  BY <1>2 DEF Scan, ScanBegin, ScanDiscover, ScanWalked, ScanLoadExisting, ScanLoadActive,
              ScanInspect, ScanUpdateRow, ScanFiltered, ScanEnqueue, ScanEnd
<1>3. CASE Users
  <2>1. ASSUME NEW r \in records, Restore(r) \/ RestoreUncommitted(r)
        PROVE  UNCHANGED first /\ UNCHANGED <<copies, records>> /\ CanRestore(r) /\ PutBack(r)
    BY <2>1 DEF Restore, RestoreUncommitted, PutBack
  <2>2. \/ UNCHANGED first /\ UNCHANGED <<file, copies, records>>
        \/ \E r \in records : Restore(r) \/ RestoreUncommitted(r)
    BY <1>3 DEF Users, Register, CheckRequest, InsertRequest, CancelQueued, ChangeSettings,
                AnalysisMiss, AnalyseFile, StoreAnalysis, DropAnalysis
  <2> QED
    BY <2>1, <2>2
<1>4. ASSUME NEW r \in records, PruneFile(r) \/ PruneRecord(r)
      PROVE  /\ UNCHANGED first
             /\ RetentionDays > 0 /\ UNCHANGED file
             /\ copies' \subseteq copies /\ records' \subseteq records
  BY <1>4 DEF PruneFile, PruneRecord
<1>5. CASE CrashAndRecover
  BY <1>5 DEF CrashAndRecover
<1>6. CASE UNCHANGED vars
  BY <1>6 DEF vars
<1> QED
  BY <1>1, <1>2, <1>3, <1>4, <1>5, <1>6 DEF Next

(* Every backup is that of a job, whose subtitle is known for good.            *)
LEMMA NextBackupsOfJobs ==
    ASSUME FilesInv, [Next]_vars
    PROVE  \A c \in copies' \cup records' :
              c[1] \in Jobs /\ status'[c[1]] # "absent"
<1>0. /\ TypeOK
      /\ \A c \in copies \cup records : c[1] \in Jobs /\ status[c[1]] # "absent"
  BY DEF FilesInv, TypeOK
<1>1. \A j \in Jobs : status[j] # "absent" => status'[j] # "absent"
  BY <1>0, JobsStay
<1>2. ASSUME NEW j \in Jobs, BackupCopy(j) \/ BackupRecord(j) \/ WriteReplace(j),
             NEW c \in copies' \cup records'
      PROVE  c[1] \in Jobs /\ status[c[1]] # "absent"
  <2>1. status[j] = "running"
    BY <1>2 DEF BackupCopy, BackupRecord, WriteReplace, FilesInv, OwnsFile, Working
  <2>2. c \in copies \cup records \/ c[1] = j
    BY <1>2 DEF BackupCopy, BackupRecord, WriteReplace
  <2> QED
    BY <1>0, <2>1, <2>2
<1>3. \A c \in copies' \cup records' : c[1] \in Jobs /\ status[c[1]] # "absent"
  BY <1>0, <1>2, BackupStep
<1> QED
  BY <1>1, <1>3

(* The first content of a file is there while it is in the file or among the   *)
(* backups of the subtitle's jobs.                                             *)
Kept(s) == file[s] = first[s] \/ \E c \in copies : target[c[1]] = s /\ c[2] = first[s]

(* It stays so, and every record keeps its file and the first content beside   *)
(* it.  A write or restore finds a copy of what it replaces; a copy that is    *)
(* lost to a twin of the same second leaves the twin.                          *)
LEMMA NextKept ==
    ASSUME FilesInv, OriginalRecoverable, RetentionDays = 0, [Next]_vars
    PROVE  RecordsAreComplete' /\ OriginalRecoverable'
<1>0. /\ TypeOK /\ records \subseteq copies
      /\ \A r \in records : \E c \in copies :
            target[c[1]] = target[r[1]] /\ c[2] = first[target[r[1]]]
      /\ \A s \in Files : Kept(s)
      /\ \A j \in Jobs : OwnsFile(j) /\ target[j] \in Files
      /\ \A c \in copies \cup records : c[1] \in Jobs /\ target[c[1]] \in Files
  BY DEF FilesInv, RecordsAreComplete, OriginalRecoverable, Kept, TypeOK, Lifecycle!TypeOK
<1>1. \A c \in copies : target'[c[1]] = target[c[1]]
  BY <1>0, JobsStay DEF FilesInv
<1>2. UNCHANGED first
  BY <1>0, BackupStep
<1>3. SUFFICES RecordsAreComplete' /\ \A s \in Files : Kept(s)'
  BY DEF OriginalRecoverable, Kept
<1>4. ASSUME copies \subseteq copies', UNCHANGED records,
             NEW s \in Files, file'[s] = file[s] \/ \E r \in records : target[r[1]] = s
      PROVE  RecordsAreComplete' /\ Kept(s)'
  <2>1. RecordsAreComplete'
    BY <1>0, <1>1, <1>2, <1>4 DEF RecordsAreComplete
  <2>2. Kept(s)'
    BY <1>0, <1>1, <1>2, <1>4 DEF Kept
  <2> QED
    BY <2>1, <2>2
<1>5. ASSUME NEW j \in Jobs, BackupCopy(j) PROVE RecordsAreComplete' /\ \A s \in Files : Kept(s)'
  BY <1>0, <1>1, <1>2, <1>5 DEF BackupCopy, RecordsAreComplete, Kept
<1>6. ASSUME NEW j \in Jobs, BackupRecord(j) PROVE RecordsAreComplete' /\ \A s \in Files : Kept(s)'
  <2> DEFINE mine == <<j, run[j].read>>
  <2>1. /\ UNCHANGED <<file, target>> /\ mine \in copies
        /\ run[j].read = file[target[j]]
    BY <1>0, <1>6 DEF BackupRecord, OwnsFile
  <2>2. \E c \in copies : target[c[1]] = target[j] /\ c[2] = first[target[j]]
    BY <1>0, <2>1 DEF Kept
  <2>3. CASE records' = records \cup {mine} /\ UNCHANGED copies
    BY <1>0, <1>2, <2>1, <2>2, <2>3 DEF RecordsAreComplete, Kept
  <2>4. ASSUME NEW r \in records, target[r[1]] = target[j], r[2] = run[j].read, mine \notin records,
               copies' = copies \ {mine}, UNCHANGED records
        PROVE  RecordsAreComplete' /\ \A s \in Files : Kept(s)'
    <3>1. r \in copies'
      BY <1>0, <2>4
    <3>2. ASSUME NEW c \in copies
          PROVE  \E d \in copies' : target[d[1]] = target[c[1]] /\ d[2] = c[2]
      BY <2>4, <3>1, <3>2
    <3>3. records \subseteq copies'
      BY <1>0, <2>4
    <3> QED
      BY <1>0, <1>2, <2>1, <2>4, <3>2, <3>3 DEF RecordsAreComplete, Kept
  <2>5. CASE UNCHANGED <<copies, records>>
    BY <1>0, <1>2, <2>1, <2>5 DEF RecordsAreComplete, Kept
  <2> QED
    BY <1>6, <2>3, <2>4, <2>5 DEF BackupRecord
<1>7. ASSUME NEW j \in Jobs, WriteReplace(j) PROVE RecordsAreComplete' /\ \A s \in Files : Kept(s)'
  <2>1. <<j, run[j].read>> \in records /\ UNCHANGED <<copies, records>>
    BY <1>0, <1>7 DEF WriteReplace, OwnsFile
  <2>2. \A s \in Files : file'[s] = file[s] \/ s = target[j]
    BY <1>0, <1>7 DEF WriteReplace, TypeOK
  <2>3. \A s \in Files : file'[s] = file[s] \/ \E r \in records : target[r[1]] = s
    BY <2>1, <2>2
  <2> QED
    BY <1>0, <1>4, <2>1, <2>3
<1>8. ASSUME NEW r \in records, PutBack(r), UNCHANGED <<copies, records>>
      PROVE  RecordsAreComplete' /\ \A s \in Files : Kept(s)'
  <2>1. \A s \in Files : file'[s] = file[s] \/ s = target[r[1]]
    BY <1>0, <1>8 DEF PutBack, TypeOK
  <2> QED
    BY <1>0, <1>4, <1>8, <2>1
<1>9. CASE UNCHANGED <<file, copies, records>>
  BY <1>0, <1>1, <1>2, <1>9 DEF RecordsAreComplete, Kept
<1> QED
  BY <1>0, <1>5, <1>6, <1>7, <1>8, <1>9, BackupStep

-------------------------------------------------------------------------------
(* Size and mtime.                                                             *)

(* A content noted with the metadata m is that of the file, should the file    *)
(* still have this metadata.                                                   *)
Fits(m, s, form) == m <= version[s] /\ (m = version[s] => form = file[s])

RowFits(s)     == /\ row[s].meta <= version[s]
                  /\ row[s].sha \in Forms => Fits(row[s].meta, s, row[s].sha)
AnswerFits(s)  == Fits(analysis[s].meta, s, analysis[s].of)
InquiryFits(s) == /\ asking[s].meta <= version[s]
                  /\ asking[s].pc = "store" => Fits(asking[s].meta, s, asking[s].of)
VerdictFits(s) == /\ scan.meta[s] <= version[s]
                  /\ scan.verdict[s] # "none" => Fits(scan.meta[s], s, scan.sha[s])
                  /\ scan.pc = "walk" => scan.verdict[s] = "none"
ResultFits(j)  == run[j].pc \in {"job", "row"} =>
                     status[j] # "absent" /\ Fits(run[j].meta, target[j], run[j].out)

(* Whatever anybody noted of a file with its metadata, at whatever time, fits. *)
StampsInv ==
    /\ \A s \in Files : /\ version[s] >= 1
                        /\ RowFits(s) /\ AnswerFits(s) /\ InquiryFits(s) /\ VerdictFits(s)
    /\ \A j \in Jobs : ResultFits(j)

(* Before the first step no row, answer or verdict holds anything.             *)
LEMMA InitStamps == Init => StampsInv
<1> SUFFICES ASSUME Init PROVE StampsInv
  OBVIOUS
<1>1. ASSUME NEW s \in Files
      PROVE  version[s] >= 1 /\ RowFits(s) /\ AnswerFits(s) /\ InquiryFits(s) /\ VerdictFits(s)
  <2>1. /\ version[s] = 1 /\ row[s].meta = 0 /\ row[s].sha = "empty"
        /\ analysis[s].meta = 0 /\ asking[s].meta = 0 /\ asking[s].pc = "idle"
        /\ scan.meta[s] = 0 /\ scan.verdict[s] = "none"
    BY DEF Init, NoRow, NoAnswer, Unasked, IdleScan
  <2> QED
    BY <2>1 DEF RowFits, AnswerFits, InquiryFits, VerdictFits, Fits, Forms
<1>2. ASSUME NEW j \in Jobs PROVE ResultFits(j)
  BY DEF Init, IdleRun, ResultFits
<1> QED
  BY <1>1, <1>2 DEF StampsInv

(* A file is as it was, or its metadata has moved on.                          *)
LEMMA DiskStep ==
    ASSUME TypeOK, [Next]_vars, NEW s \in Files
    PROVE  \/ version'[s] = version[s] /\ file'[s] = file[s]
           \/ version'[s] = version[s] + 1
<1>1. ASSUME NEW j \in Jobs, Convert(j), ~UNCHANGED disk
      PROVE  (version'[s] = version[s] /\ file'[s] = file[s]) \/ version'[s] = version[s] + 1
  <2>1. WriteReplace(j) \/ Touch(j)
    BY <1>1 DEF Convert, Claim, ReadAndConvert, BackupCopy, BackupRecord, SettleJob, SettleRow,
                ErrorIn, FailJob, FailRow
  <2> QED
    BY <2>1 DEF WriteReplace, Touch, TypeOK
<1>2. CASE Scan
  BY <1>2 DEF Scan, ScanBegin, ScanDiscover, ScanWalked, ScanLoadExisting, ScanLoadActive,
              ScanInspect, ScanUpdateRow, ScanFiltered, ScanEnqueue, ScanEnd
<1>3. CASE Users
  <2>1. ASSUME NEW r \in records, PutBack(r)
        PROVE  (version'[s] = version[s] /\ file'[s] = file[s]) \/ version'[s] = version[s] + 1
    BY <2>1 DEF PutBack, TypeOK
  <2>2. UNCHANGED disk \/ \E r \in records : PutBack(r)
    BY <1>3 DEF Users, Register, CheckRequest, InsertRequest, CancelQueued, ChangeSettings,
                AnalysisMiss, AnalyseFile, StoreAnalysis, DropAnalysis, Restore, RestoreUncommitted
  <2> QED
    BY <2>1, <2>2
<1>4. ASSUME NEW r \in records, PruneFile(r) \/ PruneRecord(r)
      PROVE  UNCHANGED disk
  BY <1>4 DEF PruneFile, PruneRecord
<1>5. CASE CrashAndRecover
  BY <1>5 DEF CrashAndRecover
<1>6. CASE UNCHANGED vars
  BY <1>6 DEF vars
<1> QED
  BY <1>1, <1>2, <1>3, <1>4, <1>5, <1>6 DEF Next

(* So what fits goes on to fit.                                                *)
FitsThen(m, s, form) == m <= version'[s] /\ (m = version'[s] => form = file'[s])

LEMMA FitsOn ==
    ASSUME TypeOK, [Next]_vars, NEW s \in Files, NEW m \in Nat, NEW form
    PROVE  /\ version[s] \in Nat /\ version[s] <= version'[s]
           /\ m <= version[s] => m <= version'[s]
           /\ Fits(m, s, form) => FitsThen(m, s, form)
<1>1. version[s] \in Nat
  BY DEF TypeOK
<1> QED
  BY <1>1, DiskStep DEF Fits, FitsThen

(* Who writes into rows.                                                       *)
LEMMA RowStep ==
    ASSUME [Next]_vars
    PROVE  \/ UNCHANGED row
           \/ \E j \in Jobs : SettleRow(j) \/ FailRow(j)
           \/ \E t \in Files : Register(t) \/ ScanUpdateRow(t) \/ ScanEnqueue(t)
           \/ \E r \in records : Restore(r)
<1>1. ASSUME NEW j \in Jobs, Convert(j) PROVE UNCHANGED row \/ SettleRow(j) \/ FailRow(j)
  BY <1>1 DEF Convert, Claim, ReadAndConvert, BackupCopy, BackupRecord, WriteReplace, Touch,
              SettleJob, ErrorIn, FailJob
<1>2. CASE Scan
  BY <1>2 DEF Scan, ScanBegin, ScanDiscover, ScanWalked, ScanLoadExisting, ScanLoadActive,
              ScanInspect, ScanFiltered, ScanEnd
<1>3. CASE Users
  BY <1>3 DEF Users, CheckRequest, InsertRequest, CancelQueued, ChangeSettings,
              AnalysisMiss, AnalyseFile, StoreAnalysis, DropAnalysis, RestoreUncommitted
<1>4. ASSUME NEW r \in records, PruneFile(r) \/ PruneRecord(r) PROVE UNCHANGED row
  BY <1>4 DEF PruneFile, PruneRecord
<1> QED
  BY <1>1, <1>2, <1>3, <1>4 DEF Next, CrashAndRecover, vars

(* The row of a subtitle: who writes a content into it noted the metadata      *)
(* before.                                                                     *)
LEMMA NextRowFits ==
    ASSUME FilesInv, StampsInv, [Next]_vars, NEW s \in Files PROVE RowFits(s)'
<1>0. /\ TypeOK /\ RowFits(s) /\ VerdictFits(s) /\ row[s] \in Rows /\ scan \in Scans
      /\ row[s].meta \in Nat /\ scan.meta[s] \in Nat /\ version[s] \in Nat
      /\ file[s] \in Forms
  BY DEF FilesInv, StampsInv, TypeOK, Rows, Scans
<1>1. CASE UNCHANGED <<row[s].meta, row[s].sha>>
  BY <1>0, <1>1, FitsOn DEF RowFits, Fits, FitsThen
<1>2. ASSUME row'[s].meta = scan.meta[s],
             row'[s].sha = "metadata" \/ (scan.verdict[s] # "none" /\ row'[s].sha = scan.sha[s])
      PROVE  RowFits(s)'
  <2>1. "metadata" \notin Forms
    BY DEF Forms
  <2> QED
    BY <1>0, <1>2, <2>1, FitsOn DEF RowFits, VerdictFits, Fits, FitsThen
<1>3. ASSUME NEW j \in Jobs, SettleRow(j) \/ FailRow(j) PROVE RowFits(s)'
  <2>1. run[j] \in Runs /\ run[j].meta \in Nat /\ target[j] \in Files
    BY <1>0 DEF TypeOK, Runs, Lifecycle!TypeOK
  <2>2. CASE FailRow(j)
    BY <1>0, <1>1, <2>2 DEF FailRow, TypeOK, Rows
  <2>3. CASE SettleRow(j) /\ target[j] = s
    <3>1. row'[s].meta = run[j].meta /\ row'[s].sha = run[j].out
      BY <1>0, <2>3 DEF SettleRow, TypeOK
    <3>2. Fits(run[j].meta, s, run[j].out)
      BY <2>3 DEF SettleRow, StampsInv, ResultFits
    <3> QED
      BY <1>0, <2>1, <3>1, <3>2, FitsOn DEF RowFits, Fits, FitsThen
  <2>4. CASE SettleRow(j) /\ target[j] # s
    BY <1>1, <2>4, <1>0 DEF SettleRow, TypeOK
  <2> QED
    BY <1>3, <2>2, <2>3, <2>4
<1>4. ASSUME NEW t \in Files, Register(t) PROVE RowFits(s)'
  <2>1. CASE t = s
    <3>1. row'[s].meta = version[s] /\ row'[s].sha = file[s] /\ UNCHANGED disk
      BY <1>4, <2>1 DEF Register, TypeOK, NoRow, FilesInv
    <3> QED
      BY <1>0, <3>1 DEF RowFits, Fits
  <2>2. CASE t # s
    BY <1>0, <1>1, <1>4, <2>2 DEF Register, TypeOK
  <2> QED
    BY <2>1, <2>2
<1>5. ASSUME NEW t \in Files, ScanUpdateRow(t) \/ ScanEnqueue(t) PROVE RowFits(s)'
  <2>1. CASE t = s
    <3>1. PICK sha \in {"metadata", scan.sha[s]} :
            /\ sha = "metadata" \/ scan.verdict[s] # "none"
            /\ row' \in {[row EXCEPT ![s] = [@ EXCEPT !.sha = sha, !.meta = scan.meta[s]]],
                        [row EXCEPT ![s] = [[NoRow EXCEPT !.status = "null"]
                                              EXCEPT !.sha = sha, !.meta = scan.meta[s]]],
                        [row EXCEPT ![s] = [status |-> "skipped", sha |-> sha, meta |-> scan.meta[s],
                                            cfg |-> scan.cfg, rev |-> scan.rev]]}
      BY <1>5, <2>1 DEF ScanUpdateRow, ScanEnqueue
    <3>2. row'[s].meta = scan.meta[s] /\ row'[s].sha = sha
      <4>1. ASSUME NEW old \in Rows, row'[s] = [old EXCEPT !.sha = sha, !.meta = scan.meta[s]]
            PROVE  row'[s].meta = scan.meta[s] /\ row'[s].sha = sha
        BY <4>1 DEF Rows
      <4>2. [NoRow EXCEPT !.status = "null"] \in Rows
        BY Idle DEF Rows, RowStatuses
      <4>3. CASE row' = [row EXCEPT ![s] = [status |-> "skipped", sha |-> sha, meta |-> scan.meta[s],
                                            cfg |-> scan.cfg, rev |-> scan.rev]]
        BY <1>0, <4>3 DEF TypeOK
      <4>4. CASE row' = [row EXCEPT ![s] = [[NoRow EXCEPT !.status = "null"]
                                              EXCEPT !.sha = sha, !.meta = scan.meta[s]]]
        BY <1>0, <4>1, <4>2, <4>4 DEF TypeOK
      <4>5. CASE row' = [row EXCEPT ![s] = [row[s] EXCEPT !.sha = sha, !.meta = scan.meta[s]]]
        BY <1>0, <4>1, <4>5 DEF TypeOK
      <4> QED
        BY <3>1, <4>3, <4>4, <4>5
    <3> QED
      BY <1>2, <3>1, <3>2
  <2>2. CASE t # s
    <3>1. row'[s] = row[s]
      BY <1>0, <1>5, <2>2 DEF ScanUpdateRow, ScanEnqueue, TypeOK
    <3> QED
      BY <1>1, <3>1
  <2> QED
    BY <2>1, <2>2
<1>6. ASSUME NEW r \in records, Restore(r) PROVE RowFits(s)'
  <2>1. CASE target[r[1]] = s
    <3>1. row'[s].meta = version[s] + 1 /\ row'[s].sha = "empty" /\ version'[s] = version[s] + 1
      BY <1>0, <1>6, <2>1 DEF Restore, PutBack, TypeOK
    <3> QED
      BY <1>0, <3>1 DEF RowFits, Forms
  <2>2. CASE target[r[1]] # s
    BY <1>0, <1>1, <1>6, <2>2 DEF Restore, TypeOK
  <2> QED
    BY <2>1, <2>2
<1> QED
  BY <1>1, <1>3, <1>4, <1>5, <1>6, RowStep

(* The cached answer and the request that will store one.                      *)
LEMMA NextAnswerFits ==
    ASSUME FilesInv, StampsInv, [Next]_vars, NEW s \in Files
    PROVE  AnswerFits(s)' /\ InquiryFits(s)'
<1>0. /\ TypeOK /\ AnswerFits(s) /\ InquiryFits(s) /\ RowFits(s)
      /\ analysis[s].meta \in Nat /\ asking[s].meta \in Nat /\ row[s].meta \in Nat
      /\ version[s] \in Nat /\ version[s] >= 1
      /\ asking[s] \in Inquiries
  BY DEF FilesInv, StampsInv, TypeOK, Answers, Inquiries, Rows
<1>1. ASSUME analysis'[s] = analysis[s] PROVE AnswerFits(s)'
  BY <1>0, <1>1, FitsOn DEF AnswerFits, Fits, FitsThen
<1>2. ASSUME asking'[s] = asking[s] PROVE InquiryFits(s)'
  BY <1>0, <1>2, FitsOn DEF InquiryFits, Fits, FitsThen
<1>3. ASSUME asking'[s] = Unasked PROVE InquiryFits(s)'
  BY <1>0, <1>3, FitsOn DEF InquiryFits, Unasked
<1>4. ASSUME analysis'[s] = NoAnswer PROVE AnswerFits(s)'
  BY <1>0, <1>4, FitsOn DEF AnswerFits, Fits, NoAnswer
<1>5. ASSUME NEW t \in Files, AnalysisMiss(t) PROVE AnswerFits(s)' /\ InquiryFits(s)'
  <2>1. /\ UNCHANGED analysis
        /\ asking' = [asking EXCEPT ![t] = [Unasked EXCEPT !.pc = "file", !.meta = row[t].meta]]
    BY <1>5 DEF AnalysisMiss
  <2>2. CASE t = s
    <3>1. asking'[s].pc = "file" /\ asking'[s].meta = row[s].meta
      BY <1>0, <2>1, <2>2 DEF TypeOK, Unasked
    <3> QED
      BY <1>0, <1>1, <2>1, <3>1, FitsOn DEF InquiryFits, RowFits
  <2>3. CASE t # s
    BY <1>0, <1>1, <1>2, <2>1, <2>3 DEF TypeOK
  <2> QED
    BY <2>2, <2>3
<1>6. ASSUME NEW t \in Files, AnalyseFile(t) PROVE AnswerFits(s)' /\ InquiryFits(s)'
  <2>1. /\ UNCHANGED <<analysis, disk>>
        /\ asking' = [asking EXCEPT ![t] = [asking[t] EXCEPT !.pc = "store", !.of = file[t]]]
    BY <1>0, <1>6 DEF AnalyseFile, TypeOK
  <2>2. CASE t = s
    <3>1. asking'[s].meta = asking[s].meta /\ asking'[s].of = file[s]
      BY <1>0, <2>1, <2>2 DEF TypeOK, Inquiries
    <3> QED
      BY <1>0, <1>1, <2>1, <3>1 DEF InquiryFits, Fits
  <2>3. CASE t # s
    BY <1>0, <1>1, <1>2, <2>1, <2>3 DEF TypeOK
  <2> QED
    BY <2>2, <2>3
<1>7. ASSUME NEW t \in Files, StoreAnalysis(t) \/ DropAnalysis(t)
      PROVE  AnswerFits(s)' /\ InquiryFits(s)'
  <2>1. asking'[s] = asking[s] \/ asking'[s] = Unasked
    BY <1>0, <1>7 DEF StoreAnalysis, DropAnalysis, TypeOK
  <2>2. \/ analysis'[s] = analysis[s]
        \/ /\ asking[s].pc = "store"
           /\ analysis'[s] = [meta |-> asking[s].meta, of |-> asking[s].of]
    BY <1>0, <1>7 DEF StoreAnalysis, DropAnalysis, TypeOK
  <2>3. ASSUME asking[s].pc = "store",
               analysis'[s] = [meta |-> asking[s].meta, of |-> asking[s].of]
        PROVE  AnswerFits(s)'
    BY <1>0, <2>3, FitsOn DEF AnswerFits, InquiryFits, Fits, FitsThen
  <2> QED
    BY <1>1, <1>2, <1>3, <2>1, <2>2, <2>3
<1>8. ASSUME NEW r \in records, Restore(r) PROVE AnswerFits(s)' /\ InquiryFits(s)'
  <2>1. UNCHANGED asking /\ (analysis'[s] = analysis[s] \/ analysis'[s] = NoAnswer)
    BY <1>0, <1>8 DEF Restore, PutBack, TypeOK
  <2> QED
    BY <1>1, <1>2, <1>4, <2>1
<1>9. CASE CrashAndRecover
  BY <1>1, <1>3, <1>9 DEF CrashAndRecover
<1>10. \/ UNCHANGED analyses
       \/ \E t \in Files : AnalysisMiss(t) \/ AnalyseFile(t) \/ StoreAnalysis(t) \/ DropAnalysis(t)
       \/ \E r \in records : Restore(r)
       \/ CrashAndRecover
  <2>1. ASSUME NEW j \in Jobs, Convert(j) PROVE UNCHANGED analyses
    BY <2>1 DEF Convert, Claim, ReadAndConvert, BackupCopy, BackupRecord, WriteReplace, Touch,
                SettleJob, SettleRow, ErrorIn, FailJob, FailRow
  <2>2. ASSUME Scan PROVE UNCHANGED analyses
    BY <2>2 DEF Scan, ScanBegin, ScanDiscover, ScanWalked, ScanLoadExisting, ScanLoadActive,
                ScanInspect, ScanUpdateRow, ScanFiltered, ScanEnqueue, ScanEnd
  <2>3. CASE Users
    BY <2>3 DEF Users, Register, CheckRequest, InsertRequest, CancelQueued, ChangeSettings,
                RestoreUncommitted, PutBack
  <2>4. ASSUME NEW r \in records, PruneFile(r) \/ PruneRecord(r) PROVE UNCHANGED analyses
    BY <2>4 DEF PruneFile, PruneRecord
  <2> QED
    BY <2>1, <2>2, <2>3, <2>4 DEF Next, vars
<1>11. CASE UNCHANGED analyses
  BY <1>1, <1>2, <1>11
<1> QED
  BY <1>5, <1>6, <1>7, <1>8, <1>9, <1>10, <1>11

(* Only the scan itself and a restart move the scan.                           *)
LEMMA ScanStep ==
    ASSUME [Next]_vars PROVE UNCHANGED scan \/ Scan \/ CrashAndRecover
<1>1. ASSUME NEW j \in Jobs, Convert(j) PROVE UNCHANGED scan
  BY <1>1 DEF Convert, Claim, ReadAndConvert, BackupCopy, BackupRecord, WriteReplace, Touch,
              SettleJob, SettleRow, ErrorIn, FailJob, FailRow
<1>2. ASSUME Users PROVE UNCHANGED scan
  BY <1>2 DEF Users, Register, CheckRequest, InsertRequest, CancelQueued, ChangeSettings,
              AnalysisMiss, AnalyseFile, StoreAnalysis, DropAnalysis, Restore,
              RestoreUncommitted, PutBack
<1>3. ASSUME NEW r \in records, PruneFile(r) \/ PruneRecord(r) PROVE UNCHANGED scan
  BY <1>3 DEF PruneFile, PruneRecord
<1> QED
  BY <1>1, <1>2, <1>3 DEF Next, vars

(* The scan: the walk notes the metadata before a filter task reads the file.  *)
LEMMA NextVerdictFits ==
    ASSUME FilesInv, StampsInv, [Next]_vars, NEW s \in Files PROVE VerdictFits(s)'
<1>0. /\ TypeOK /\ VerdictFits(s) /\ scan \in Scans /\ scan.meta[s] \in Nat
      /\ version[s] \in Nat /\ version[s] >= 1
  BY DEF FilesInv, StampsInv, TypeOK, Scans
<1>1. CASE /\ scan'.meta[s] = scan.meta[s] /\ (scan'.pc = "walk" => scan.pc = "walk")
           /\ scan'.verdict[s] = "none" \/ UNCHANGED <<scan.verdict[s], scan.sha[s]>>
  BY <1>0, <1>1, FitsOn DEF VerdictFits, Fits, FitsThen
<1>2. CASE scan'.meta[s] = 0 /\ scan'.verdict[s] = "none"
  BY <1>0, <1>2, FitsOn DEF VerdictFits
<1>3. CASE ScanBegin \/ ScanEnd \/ CrashAndRecover
  <2>1. scan'.meta[s] = 0 /\ scan'.verdict[s] = "none"
    <3>1. CASE ScanBegin
      BY <3>1 DEF ScanBegin, IdleScan
    <3>2. CASE ScanEnd \/ CrashAndRecover
      BY <3>2 DEF ScanEnd, CrashAndRecover, IdleScan
    <3> QED
      BY <1>3, <3>1, <3>2
  <2> QED
    BY <1>2, <2>1
<1>4. CASE ScanWalked \/ ScanLoadExisting \/ ScanLoadActive \/ ScanFiltered
  <2>1. /\ scan'.meta = scan.meta /\ scan'.verdict = scan.verdict /\ scan'.sha = scan.sha
        /\ scan'.pc # "walk"
    BY <1>0, <1>4, Idle DEF ScanWalked, ScanLoadExisting, ScanLoadActive, ScanFiltered, Scans
  <2> QED
    BY <1>1, <2>1
<1>5. ASSUME NEW t \in Files, ScanDiscover(t) PROVE VerdictFits(s)'
  <2>1. /\ scan' = [scan EXCEPT !.meta[t] = version[t], !.todo = @ \cup {t}]
        /\ scan.meta[t] = 0 /\ scan.pc = "walk" /\ UNCHANGED disk
    BY <1>5 DEF ScanDiscover
  <2>2. /\ scan'.meta = [scan.meta EXCEPT ![t] = version[t]]
        /\ scan'.verdict = scan.verdict /\ scan'.sha = scan.sha /\ scan'.pc = scan.pc
    BY <1>0, <2>1 DEF Scans
  <2>3. CASE t = s
    <3>1. scan'.meta[s] = version[s]
      BY <1>0, <2>2, <2>3 DEF Scans
    <3> QED
      BY <1>0, <2>1, <2>2, <3>1 DEF VerdictFits, Fits
  <2>4. CASE t # s
    BY <1>0, <1>1, <2>2, <2>4 DEF Scans
  <2> QED
    BY <2>3, <2>4
<1>6. ASSUME NEW t \in Files, ScanInspect(t) PROVE VerdictFits(s)'
  <2>1. PICK verdict \in Verdicts :
          scan' = [scan EXCEPT !.todo = @ \ {t}, !.verdict[t] = verdict, !.sha[t] = file[t]]
    BY <1>6 DEF ScanInspect, Verdicts
  <2>2. /\ scan'.meta = scan.meta /\ scan'.verdict = [scan.verdict EXCEPT ![t] = verdict]
        /\ scan'.sha = [scan.sha EXCEPT ![t] = file[t]]
        /\ scan.pc = "filter" /\ scan'.pc = "filter"
    BY <1>0, <1>6, <2>1 DEF ScanInspect, Scans
  <2>3. CASE t = s
    <3>1. scan'.meta[s] = scan.meta[s] /\ scan'.sha[s] = file[s]
      BY <1>0, <2>2, <2>3 DEF Scans
    <3>2. UNCHANGED disk
      BY <1>6 DEF ScanInspect
    <3> QED
      BY <1>0, <2>2, <3>1, <3>2 DEF VerdictFits, Fits
  <2>4. CASE t # s
    BY <1>0, <1>1, <2>2, <2>4 DEF Scans
  <2> QED
    BY <2>3, <2>4
<1>7. ASSUME NEW t \in Files, ScanUpdateRow(t) \/ ScanEnqueue(t) PROVE VerdictFits(s)'
  <2>1. scan' = [scan EXCEPT !.verdict[t] = "none"]
    BY <1>7 DEF ScanUpdateRow, ScanEnqueue
  <2>2. /\ scan'.meta = scan.meta /\ scan'.sha = scan.sha
        /\ scan'.verdict = [scan.verdict EXCEPT ![t] = "none"] /\ scan'.pc = scan.pc
    BY <1>0, <2>1 DEF Scans
  <2>3. scan'.verdict[s] = "none" \/ scan'.verdict[s] = scan.verdict[s]
    BY <1>0, <2>2 DEF Scans
  <2> QED
    BY <1>1, <2>2, <2>3
<1>8. CASE UNCHANGED scan
  BY <1>1, <1>8
<1> QED
  BY <1>3, <1>4, <1>5, <1>6, <1>7, <1>8, ScanStep DEF Scan

(* The result of a conversion: its metadata is taken after the last write.     *)
LEMMA NextResultFits ==
    ASSUME FilesInv, StampsInv, [Next]_vars, NEW q \in Jobs PROVE ResultFits(q)'
<1>0. /\ TypeOK /\ ResultFits(q) /\ OwnsFile(q) /\ run[q] \in Runs /\ run[q].meta \in Nat
      /\ target[q] \in Files /\ version[target[q]] \in Nat
  BY DEF FilesInv, StampsInv, TypeOK, Runs, Lifecycle!TypeOK
<1>1. ASSUME run[q].pc \in {"job", "row"}, run'[q].meta = run[q].meta, run'[q].out = run[q].out
      PROVE  ResultFits(q)'
  <2>1. status[q] # "absent"
    BY <1>0, <1>1 DEF ResultFits
  <2>2. status'[q] # "absent" /\ target'[q] = target[q]
    BY <1>0, <2>1, JobsStay
  <2> QED
    BY <1>0, <1>1, <2>2, FitsOn DEF ResultFits, Fits, FitsThen
<1>2. CASE run'[q].pc \notin {"job", "row"}
  BY <1>2 DEF ResultFits
<1>3. CASE Touch(q)
  <2>1. /\ run'[q].meta = version[target[q]] + 1 /\ run'[q].out = run[q].out
        /\ version'[target[q]] = version[target[q]] + 1 /\ UNCHANGED <<file, target>>
        /\ run[q].pc = "touch" /\ UNCHANGED status
    BY <1>0, <1>3 DEF Touch, TypeOK, Runs
  <2> QED
    BY <1>0, <2>1 DEF ResultFits, Fits, OwnsFile, Working
<1>4. CASE SettleJob(q)
  <2>1. /\ run[q].pc = "job"
        /\ run'[q].meta = run[q].meta /\ run'[q].out = run[q].out
    BY <1>0, <1>4 DEF SettleJob, TypeOK, Runs
  <2> QED
    BY <1>1, <1>2, <2>1
<1>5. CASE Convert(q) /\ ~Touch(q) /\ ~SettleJob(q)
  <2>1. ASSUME NEW at \in {"fail", "record", "write", "touch", "failrow"}, Step(q, at)
        PROVE  run'[q].pc \notin {"job", "row"}
    <3>1. run'[q] = [run[q] EXCEPT !.pc = at]
      BY <2>1 DEF Step, TypeOK, FilesInv
    <3> QED
      BY <1>0, <3>1 DEF Runs
  <2>2. CASE ReadAndConvert(q)
    <3>1. CASE Step(q, "fail")
      BY <1>2, <2>1, <3>1
    <3>2. ASSUME NEW out \in Outputs(mode[q], file[target[q]]),
                 run' = [run EXCEPT ![q].pc = IF out = file[target[q]] THEN "touch" ELSE "copy",
                                    ![q].read = file[target[q]], ![q].out = out]
          PROVE  ResultFits(q)'
      <4>1. run'[q].pc \notin {"job", "row"}
        BY <1>0, <3>2 DEF TypeOK, Runs
      <4> QED
        BY <1>2, <4>1
    <3> QED
      BY <2>2, <3>1, <3>2 DEF ReadAndConvert
  <2>3. CASE Claim(q) \/ SettleRow(q) \/ FailRow(q)
    <3>1. run'[q].pc \in {"idle", "read"}
      <4>1. CASE Claim(q)
        BY <1>0, <4>1 DEF Claim, TypeOK, IdleRun
      <4>2. CASE SettleRow(q) \/ FailRow(q)
        BY <1>0, <4>2 DEF SettleRow, FailRow, TypeOK, IdleRun
      <4> QED
        BY <2>3, <4>1, <4>2
    <3> QED
      BY <1>2, <3>1
  <2>4. CASE BackupCopy(q) \/ BackupRecord(q) \/ WriteReplace(q) \/ ErrorIn(q) \/ FailJob(q)
    <3>1. PICK at \in {"fail", "record", "write", "touch", "failrow"} : Step(q, at)
      BY <2>4 DEF BackupCopy, BackupRecord, WriteReplace, ErrorIn, FailJob
    <3> QED
      BY <1>2, <2>1, <3>1
  <2> QED
    BY <1>5, <2>2, <2>3, <2>4 DEF Convert
<1>6. CASE run'[q] = run[q]
  BY <1>1, <1>2, <1>6
<1>7. ASSUME UNCHANGED run PROVE ResultFits(q)'
  BY <1>6, <1>7
<1>8. ASSUME NEW j \in Jobs \ {q}, Convert(j) PROVE ResultFits(q)'
  BY <1>0, <1>6, <1>8, OthersApart
<1>9. CASE CrashAndRecover
  BY <1>2, <1>9 DEF CrashAndRecover, IdleRun
<1>10. \/ UNCHANGED run \/ CrashAndRecover
       \/ \E j \in Jobs : Convert(j)
  <2>1. ASSUME Scan PROVE UNCHANGED run
    BY <2>1 DEF Scan, ScanBegin, ScanDiscover, ScanWalked, ScanLoadExisting, ScanLoadActive,
                ScanInspect, ScanUpdateRow, ScanFiltered, ScanEnqueue, ScanEnd
  <2>2. ASSUME Users PROVE UNCHANGED run
    BY <2>2 DEF Users, Register, CheckRequest, InsertRequest, CancelQueued, ChangeSettings,
                AnalysisMiss, AnalyseFile, StoreAnalysis, DropAnalysis, Restore,
                RestoreUncommitted, PutBack
  <2>3. ASSUME NEW r \in records, PruneFile(r) \/ PruneRecord(r) PROVE UNCHANGED run
    BY <2>3 DEF PruneFile, PruneRecord
  <2> QED
    BY <2>1, <2>2, <2>3 DEF Next, vars
<1> QED
  BY <1>3, <1>4, <1>5, <1>7, <1>8, <1>9, <1>10

-------------------------------------------------------------------------------
(* Markers and the scan.                                                       *)

(* While only scans queue jobs: a subtitle with an active job has a row and is *)
(* seen in the snapshots that a filter task consults; a file that is going to  *)
(* be queued has no active job, and therefore, still, no markers.              *)
Unmarked(s) ==
    /\ HasActive(s) => HasRow(s)
    /\ scan.pc = "active" => (HasActive(s) => scan.existing[s].status # "absent")
    /\ scan.pc = "filter" => /\ HasActive(s) => s \in scan.active
                             /\ s \in scan.active => scan.existing[s].status # "absent"
    /\ scan.verdict[s] = "queue" => /\ scan.pc \in {"filter", "enqueue"}
                                    /\ ~HasActive(s) /\ ~MarkerSeen(file[s])

UnmarkedInv == byUser = {} => \A s \in Files : Unmarked(s)

(* No request has inserted a job and nothing is queued.                        *)
LEMMA InitUnmarked == Init => UnmarkedInv
<1> SUFFICES ASSUME Init, NEW s \in Files PROVE Unmarked(s)
  BY DEF UnmarkedInv
<1>1. ~HasActive(s) /\ scan.pc = "idle" /\ scan.verdict[s] = "none"
  BY DEF Init, HasActive, IdleScan
<1> QED
  BY <1>1 DEF Unmarked

(* While no request inserts a job, only the scan does: for the file it         *)
(* enqueues.                                                                   *)
LEMMA OnlyTheScan ==
    ASSUME TypeOK, [Next]_vars, byUser' = {}, NEW s \in Files, HasActive(s)'
    PROVE  HasActive(s) \/ ScanEnqueue(s)
<1>1. ASSUME NEW t \in Files, NEW m, InsertJob(t, m), ~UNCHANGED table
      PROVE  (HasActive(s) \/ s = t) /\ \E j \in Jobs : status'[j] # status[j]
  <2>1. PICK i \in Jobs : /\ status[i] = "absent" /\ status' = [status EXCEPT ![i] = "queued"]
                          /\ target' = [target EXCEPT ![i] = t]
    BY <1>1 DEF InsertJob
  <2>2. /\ status'[i] = "queued" /\ target'[i] = t
        /\ \A j \in Jobs \ {i} : status'[j] = status[j] /\ target'[j] = target[j]
    BY <2>1 DEF TypeOK, Lifecycle!TypeOK
  <2> QED
    BY <2>1, <2>2 DEF HasActive
<1>2. CASE UNCHANGED table
  BY <1>2 DEF HasActive
<1>3. ASSUME NEW t \in Files, NEW m, InsertJob(t, m), InsertRequest(t), ~UNCHANGED table
      PROVE  FALSE
  <2>1. PICK j \in Jobs : status'[j] # status[j]
    BY <1>1, <1>3
  <2>2. byUser' = byUser \cup {i \in Jobs : status'[i] # status[i]}
    BY <1>3 DEF InsertRequest
  <2> QED
    BY <2>1, <2>2
<1>4. CASE /\ UNCHANGED <<target, mode>>
           /\ \A j \in Jobs : status'[j] \in Active => status[j] \in Active
  BY <1>4 DEF HasActive
<1> QED
  BY <1>1, <1>2, <1>3, <1>4, TableStep

(* A row stays.                                                                *)
LEMMA RowsStay ==
    ASSUME TypeOK, [Next]_vars, NEW s \in Files, HasRow(s) \/ ScanEnqueue(s)
    PROVE  HasRow(s)'
<1>0. row[s] \in Rows
  BY DEF TypeOK
<1>1. ASSUME NEW j \in Jobs, SettleRow(j) \/ FailRow(j), HasRow(s) PROVE HasRow(s)'
  <2>1. run[j].outcome # "absent" /\ target[j] \in Files
    BY DEF TypeOK, Runs, Lifecycle!TypeOK
  <2>2. row'[s] = row[s] \/ row'[s].status \in {run[j].outcome, "failed"}
    BY <1>0, <1>1, <2>1 DEF SettleRow, FailRow, TypeOK, Rows
  <2> QED
    BY <1>1, <2>1, <2>2 DEF HasRow
<1>2. ASSUME NEW t \in Files, Register(t), HasRow(s) PROVE HasRow(s)'
  BY <1>2 DEF Register, HasRow, TypeOK
<1>3. ASSUME NEW t \in Files, ScanUpdateRow(t), HasRow(s) PROVE HasRow(s)'
  <2>1. CASE t = s
    <3>1. PICK sha : row' = [row EXCEPT ![s] = [row[s] EXCEPT !.sha = sha, !.meta = scan.meta[s]]]
      BY <1>3, <2>1 DEF ScanUpdateRow
    <3>2. row'[s].status = row[s].status
      BY <1>0, <3>1 DEF TypeOK, Rows
    <3> QED
      BY <1>3, <3>2 DEF HasRow
  <2>2. CASE t # s
    BY <1>3, <2>2 DEF ScanUpdateRow, HasRow, TypeOK
  <2> QED
    BY <2>1, <2>2
<1>4. ASSUME ScanEnqueue(s) PROVE HasRow(s)'
  <2>1. PICK old \in Rows :
          /\ old.status # "absent"
          /\ row' = [row EXCEPT ![s] = [old EXCEPT !.sha = scan.sha[s], !.meta = scan.meta[s]]]
    <3>1. CASE HasRow(s)
      BY <1>0, <1>4, <3>1 DEF ScanEnqueue, HasRow
    <3>2. CASE ~HasRow(s)
      <4>1. /\ [NoRow EXCEPT !.status = "null"] \in Rows
            /\ [NoRow EXCEPT !.status = "null"].status # "absent"
        BY Idle DEF Rows, RowStatuses, NoRow
      <4> QED
        BY <1>4, <3>2, <4>1 DEF ScanEnqueue
    <3> QED
      BY <3>1, <3>2
  <2>2. row'[s].status = old.status
    BY <2>1 DEF TypeOK, Rows
  <2> QED
    BY <2>1, <2>2 DEF HasRow
<1>5. ASSUME NEW t \in Files \ {s}, ScanEnqueue(t), HasRow(s) PROVE HasRow(s)'
  BY <1>5 DEF ScanEnqueue, HasRow, TypeOK
<1>6. ASSUME NEW r \in records, Restore(r), HasRow(s) PROVE HasRow(s)'
  BY <1>6 DEF Restore, HasRow, TypeOK
<1>7. CASE UNCHANGED row /\ HasRow(s)
  BY <1>7 DEF HasRow
<1> QED
  BY <1>1, <1>2, <1>3, <1>4, <1>5, <1>6, <1>7, RowStep

(* A file changes under a job of its own, or by a restore while no scan runs.  *)
LEMMA FilesStay ==
    ASSUME FilesInv, [Next]_vars, NEW s \in Files, scan.pc # "idle", ~HasActive(s)
    PROVE  file'[s] = file[s]
<1>1. ASSUME NEW j \in Jobs, Convert(j) PROVE file'[s] = file[s]
  <2>1. CASE WriteReplace(j)
    <3>1. status[j] = "running"
      BY <2>1 DEF WriteReplace, FilesInv, OwnsFile, Working
    <3>2. target[j] # s
      BY <3>1 DEF HasActive
    <3> QED
      BY <2>1, <3>2 DEF WriteReplace, FilesInv, TypeOK
  <2> QED
    BY <1>1, <2>1, OthersApart DEF FilesInv
<1>2. ASSUME Scan PROVE UNCHANGED file
  BY <1>2 DEF Scan, ScanBegin, ScanDiscover, ScanWalked, ScanLoadExisting, ScanLoadActive,
              ScanInspect, ScanUpdateRow, ScanFiltered, ScanEnqueue, ScanEnd
<1>3. ASSUME Users PROVE UNCHANGED file
  BY <1>3 DEF Users, Register, CheckRequest, InsertRequest, CancelQueued, ChangeSettings,
              AnalysisMiss, AnalyseFile, StoreAnalysis, DropAnalysis, Restore,
              RestoreUncommitted, CanRestore
<1>4. ASSUME NEW r \in records, PruneFile(r) \/ PruneRecord(r) PROVE UNCHANGED file
  BY <1>4 DEF PruneFile, PruneRecord
<1>5. CASE CrashAndRecover \/ UNCHANGED vars
  BY <1>5 DEF CrashAndRecover, vars
<1> QED
  BY <1>1, <1>2, <1>3, <1>4, <1>5 DEF Next

(* Each step keeps it.  Who comes before the snapshot of the active jobs is in *)
(* it; nobody comes after it but the scan itself.                              *)
LEMMA NextUnmarked ==
    ASSUME FilesInv, UnmarkedInv, [Next]_vars, byUser' = {}, NEW s \in Files
    PROVE  Unmarked(s)'
<1>0. /\ TypeOK /\ scan \in Scans /\ Unmarked(s)
      /\ HasRow(s) \/ ScanEnqueue(s) => HasRow(s)'
      /\ HasActive(s)' => HasActive(s) \/ ScanEnqueue(s)
  <2>1. byUser = {}
    <3>1. byUser \subseteq byUser'
      <4>1. ASSUME NEW j \in Jobs, Convert(j) PROVE UNCHANGED byUser
        BY <4>1 DEF Convert, Claim, ReadAndConvert, BackupCopy, BackupRecord, WriteReplace,
                    Touch, SettleJob, SettleRow, ErrorIn, FailJob, FailRow
      <4>2. ASSUME Scan PROVE UNCHANGED byUser
        BY <4>2 DEF Scan, ScanBegin, ScanDiscover, ScanWalked, ScanLoadExisting, ScanLoadActive,
                    ScanInspect, ScanUpdateRow, ScanFiltered, ScanEnqueue, ScanEnd
      <4>3. ASSUME Users PROVE byUser \subseteq byUser'
        BY <4>3 DEF Users, Register, CheckRequest, InsertRequest, CancelQueued, ChangeSettings,
                    AnalysisMiss, AnalyseFile, StoreAnalysis, DropAnalysis, Restore,
                    RestoreUncommitted, PutBack
      <4>4. ASSUME NEW r \in records, PruneFile(r) \/ PruneRecord(r) PROVE UNCHANGED byUser
        BY <4>4 DEF PruneFile, PruneRecord
      <4> QED
        BY <4>1, <4>2, <4>3, <4>4 DEF Next, CrashAndRecover, vars
    <3> QED
      BY <3>1
  <2>2. TypeOK /\ scan \in Scans
    BY DEF FilesInv, TypeOK
  <2> QED
    BY <2>1, <2>2, OnlyTheScan, RowsStay DEF UnmarkedInv
<1>1. HasActive(s)' => HasRow(s)'
  BY <1>0 DEF Unmarked
<1>2. ASSUME scan.pc # "enqueue", HasActive(s)' PROVE HasActive(s)
  BY <1>0, <1>2 DEF ScanEnqueue
<1>3. ASSUME scan.verdict[s] = "queue"
      PROVE  /\ scan.pc \in {"filter", "enqueue"} /\ ~MarkerSeen(file'[s])
             /\ scan'.verdict[s] = "queue" => ~HasActive(s)'
  <2>1. ~HasActive(s) /\ ~MarkerSeen(file[s]) /\ scan.pc \in {"filter", "enqueue"}
    BY <1>0, <1>3 DEF Unmarked
  <2>2. file'[s] = file[s]
    BY <2>1, FilesStay
  <2>3. ASSUME ScanEnqueue(s) PROVE scan'.verdict[s] = "none"
    BY <1>0, <2>3 DEF ScanEnqueue, Scans
  <2> QED
    BY <1>0, <2>1, <2>2, <2>3
<1>4. CASE /\ scan'.pc = scan.pc /\ scan'.existing = scan.existing /\ scan'.active = scan.active
           /\ scan'.verdict[s] = "none" \/ scan'.verdict[s] = scan.verdict[s]
  BY <1>0, <1>1, <1>2, <1>3, <1>4 DEF Unmarked
<1>5. CASE scan'.pc \in {"walk", "idle"} /\ scan'.verdict[s] = "none"
  BY <1>1, <1>5 DEF Unmarked
<1>6. CASE ScanBegin \/ ScanEnd \/ CrashAndRecover
  <2>1. CASE ScanBegin
    BY <1>5, <2>1 DEF ScanBegin, IdleScan
  <2>2. CASE ScanEnd \/ CrashAndRecover
    BY <1>5, <2>2 DEF ScanEnd, CrashAndRecover, IdleScan
  <2> QED
    BY <1>6, <2>1, <2>2
<1>7. CASE ScanWalked
  <2>1. scan.pc = "walk" /\ scan'.pc = "existing" /\ scan'.verdict = scan.verdict
    BY <1>0, <1>7 DEF ScanWalked, Scans
  <2> QED
    BY <1>1, <1>3, <2>1 DEF Unmarked
<1>8. CASE ScanLoadExisting
  <2>1. /\ scan.pc = "existing" /\ scan'.pc = "active" /\ scan'.verdict = scan.verdict
        /\ scan'.existing = row
    BY <1>0, <1>8 DEF ScanLoadExisting, Scans
  <2>2. HasActive(s)' => row[s].status # "absent"
    BY <1>0, <1>2, <2>1 DEF Unmarked, HasRow
  <2> QED
    BY <1>1, <1>3, <2>1, <2>2 DEF Unmarked
<1>9. CASE ScanLoadActive
  <2>1. /\ scan.pc = "active" /\ scan'.pc = "filter" /\ scan'.verdict = scan.verdict
        /\ scan'.existing = scan.existing /\ scan'.active = {t \in Files : HasActive(t)}
    BY <1>0, <1>9 DEF ScanLoadActive, Scans
  <2>2. s \in scan'.active <=> HasActive(s)
    BY <2>1
  <2>3. HasActive(s) => scan.existing[s].status # "absent"
    BY <1>0, <2>1 DEF Unmarked
  <2> QED
    BY <1>1, <1>2, <1>3, <2>1, <2>2, <2>3 DEF Unmarked
<1>10. CASE ScanFiltered
  <2>1. scan.pc = "filter" /\ scan'.pc = "enqueue" /\ scan'.verdict = scan.verdict
    BY <1>0, <1>10, Idle DEF ScanFiltered, Scans
  <2> QED
    BY <1>1, <1>3, <2>1 DEF Unmarked
<1>11. ASSUME NEW t \in Files, ScanDiscover(t) PROVE Unmarked(s)'
  <2>1. /\ scan'.pc = scan.pc /\ scan'.existing = scan.existing /\ scan'.active = scan.active
        /\ scan'.verdict = scan.verdict
    BY <1>0, <1>11 DEF ScanDiscover, Scans
  <2> QED
    BY <1>4, <2>1
<1>12. ASSUME NEW t \in Files, ScanInspect(t) PROVE Unmarked(s)'
  <2>1. PICK verdict \in Verdicts :
          /\ scan' = [scan EXCEPT !.todo = @ \ {t}, !.verdict[t] = verdict, !.sha[t] = file[t]]
          /\ verdict = "queue" => ~SkippedUnread(t) /\ ~MarkerSeen(file[t])
    BY <1>12 DEF ScanInspect, Verdicts
  <2>2. /\ scan.pc = "filter" /\ scan'.pc = "filter"
        /\ scan'.existing = scan.existing /\ scan'.active = scan.active
        /\ scan'.verdict = [scan.verdict EXCEPT ![t] = verdict]
    BY <1>0, <1>12, <2>1 DEF ScanInspect, Scans
  <2>3. CASE t # s
    BY <1>0, <1>4, <2>2, <2>3 DEF Scans
  <2>4. CASE t = s
    <3>1. scan'.verdict[s] = verdict /\ UNCHANGED file
      BY <1>0, <1>12, <2>2, <2>4 DEF ScanInspect, Scans
    <3>2. HasActive(s)' => s \in scan.active /\ scan.existing[s].status # "absent"
      BY <1>0, <1>2, <2>2 DEF Unmarked
    <3>3. verdict = "queue" => ~HasActive(s)' /\ ~MarkerSeen(file'[s])
      BY <2>1, <2>4, <3>1, <3>2 DEF SkippedUnread
    <3>4. s \in scan.active => scan.existing[s].status # "absent"
      BY <1>0, <2>2 DEF Unmarked
    <3> QED
      BY <1>1, <2>2, <3>1, <3>2, <3>3, <3>4 DEF Unmarked
  <2> QED
    BY <2>3, <2>4
<1>13. ASSUME NEW t \in Files, ScanUpdateRow(t) \/ ScanEnqueue(t) PROVE Unmarked(s)'
  <2>1. scan' = [scan EXCEPT !.verdict[t] = "none"]
    BY <1>13 DEF ScanUpdateRow, ScanEnqueue
  <2>2. /\ scan'.pc = scan.pc /\ scan'.existing = scan.existing /\ scan'.active = scan.active
        /\ scan'.verdict = [scan.verdict EXCEPT ![t] = "none"]
    BY <1>0, <2>1 DEF Scans
  <2>3. scan'.verdict[s] = "none" \/ scan'.verdict[s] = scan.verdict[s]
    BY <1>0, <2>2 DEF Scans
  <2> QED
    BY <1>4, <2>2, <2>3
<1>14. CASE UNCHANGED scan
  BY <1>4, <1>14
<1> QED
  BY <1>6, <1>7, <1>8, <1>9, <1>10, <1>11, <1>12, <1>13, <1>14, ScanStep DEF Scan

-------------------------------------------------------------------------------
(* Theorems.                                                                   *)

(* The inductive invariant: FilesInv needs that the first content is kept, for *)
(* the next record is complete only if a copy of it exists.                    *)
LEMMA FilesAndOriginals == Spec => [](FilesInv /\ OriginalRecoverable)
<1>1. Init => FilesInv /\ OriginalRecoverable
  BY InitFiles DEF Init, OriginalRecoverable
<1>2. FilesInv /\ OriginalRecoverable /\ [Next]_vars => FilesInv' /\ OriginalRecoverable'
  <2> SUFFICES ASSUME FilesInv, OriginalRecoverable, [Next]_vars
               PROVE  FilesInv' /\ OriginalRecoverable'
    OBVIOUS
  <2>1. TypeOK'
    BY NextTypeOK DEF FilesInv
  <2>2. Lifecycle!OneActivePerSubtitle'
    BY NextOneActive DEF FilesInv
  <2>3. \A j \in Jobs : OwnsFile(j)'
    BY NextOwnsFile
  <2>4. \A c \in copies' \cup records' : status'[c[1]] # "absent"
    BY NextBackupsOfJobs
  <2>5. RetentionDays = 0 => RecordsAreComplete'
    BY NextKept
  <2>6. OriginalRecoverable'
    <3>1. CASE RetentionDays = 0
      BY <3>1, NextKept
    <3>2. CASE RetentionDays # 0
      BY <3>2 DEF OriginalRecoverable
    <3> QED
      BY <3>1, <3>2
  <2> QED
    BY <2>1, <2>2, <2>3, <2>4, <2>5, <2>6 DEF FilesInv
<1> QED
  BY <1>1, <1>2, PTL DEF Spec

(* One active job per subtitle, a conversion alone with its file, restorable   *)
(* records: whatever is done by however many jobs, scans, users and restarts.  *)
THEOREM FilesInvariant == Spec => []FilesInv
BY FilesAndOriginals, PTL

(* While backups are kept for ever, no sequence of conversions, strips, errors,*)
(* restores and crashes loses what a subtitle contained at first.              *)
THEOREM OriginalsSurvive == Spec => []OriginalRecoverable
BY FilesAndOriginals, PTL

(* Nothing comes between the read of a job and its write: it replaces what it  *)
(* read, with that content in a recorded backup.                               *)
THEOREM ReplacementsAreSafe == Spec => ReplacesWhatItRead
<1>1. ASSUME FilesInv, [Next]_vars, NEW j \in Jobs, file' # file, run[j].pc = "write",
             run'[j].pc = "touch"
      PROVE  /\ file[target[j]] = run[j].read
             /\ <<j, run[j].read>> \in records \cap copies
             /\ mode[j] = "subset" => ~Embedded(file[target[j]])
  BY <1>1 DEF FilesInv, OwnsFile
<1>2. FilesInv /\ [Next]_vars =>
        [\A j \in Jobs :
          (file' # file /\ run[j].pc = "write" /\ run'[j].pc = "touch") =>
          /\ file[target[j]] = run[j].read
          /\ <<j, run[j].read>> \in records \cap copies
          /\ mode[j] = "subset" => ~Embedded(file[target[j]])]_vars
  BY <1>1
<1> QED
  BY <1>2, FilesInvariant, PTL DEF Spec, ReplacesWhatItRead

(* What is noted with a file's metadata goes on to fit.                        *)
LEMMA StampsInvariant == Spec => []StampsInv
<1>1. FilesInv /\ StampsInv /\ [Next]_vars => StampsInv'
  <2> SUFFICES ASSUME FilesInv, StampsInv, [Next]_vars PROVE StampsInv'
    OBVIOUS
  <2>1. \A s \in Files : version'[s] >= 1
    BY FitsOn DEF FilesInv, StampsInv, TypeOK
  <2>2. \A s \in Files : RowFits(s)' /\ AnswerFits(s)' /\ InquiryFits(s)' /\ VerdictFits(s)'
    BY NextRowFits, NextAnswerFits, NextVerdictFits
  <2>3. \A j \in Jobs : ResultFits(j)'
    BY NextResultFits
  <2> QED
    BY <2>1, <2>2, <2>3 DEF StampsInv
<1> QED
  BY <1>1, InitStamps, FilesInvariant, PTL DEF Spec

(* A row whose size and mtime are those of the file holds the hash of the file *)
(* as it is, or none: a scan that trusts them misses no change.                *)
THEOREM MetadataStaysTruthful == Spec => []MetadataIsTruthful
<1>1. StampsInv => MetadataIsTruthful
  BY DEF StampsInv, RowFits, Fits, MetadataIsTruthful
<1> QED
  BY <1>1, StampsInvariant, PTL

(* A cached analysis that is served is that of the file as it is, however slow *)
(* the analysis was and whatever changed the file and the row meanwhile.       *)
THEOREM AnalysisStaysTruthful == Spec => []AnalysisIsTruthful
<1>1. StampsInv => AnalysisIsTruthful
  BY DEF StampsInv, AnswerFits, Fits, AnalysisIsTruthful, CacheHit
<1> QED
  BY <1>1, StampsInvariant, PTL

(* Until a request inserts a job, the file a scan goes on to queue carries no  *)
(* markers: a conversion would need an active job to put them there, and a     *)
(* restore an idle scan.                                                       *)
THEOREM MarkersStaySkipped == Spec => MarkersAreSkipped
<1>1. FilesInv /\ UnmarkedInv /\ [Next]_vars => UnmarkedInv'
  BY NextUnmarked DEF UnmarkedInv
<1>2. Spec => []UnmarkedInv
  BY <1>1, InitUnmarked, FilesInvariant, PTL DEF Spec
<1>3. UnmarkedInv /\ [Next]_vars =>
        [\A s \in Files :
          (byUser = {} /\ scan.verdict[s] = "queue" /\ scan'.verdict[s] = "none"
             /\ scan'.pc = "enqueue" /\ status' # status)
          => ~MarkerSeen(file[s])]_vars
  BY DEF UnmarkedInv, Unmarked
<1> QED
  BY <1>2, <1>3, PTL DEF Spec, MarkersAreSkipped

(* No task runs for a job without a row: only a claim starts one.              *)
TasksHaveRows == \A j \in Jobs : run[j].pc # "idle" => status[j] # "absent"

LEMMA NextTasksHaveRows ==
    ASSUME TypeOK, TasksHaveRows, [Next]_vars
    PROVE  TasksHaveRows'
<1> SUFFICES ASSUME NEW i \in Jobs, run'[i].pc # "idle" PROVE status'[i] # "absent"
  BY DEF TasksHaveRows
<1>1. CASE run[i].pc # "idle"
  BY <1>1, JobsStay DEF TasksHaveRows
<1>2. CASE run[i].pc = "idle"
  <2>1. ASSUME UNCHANGED run PROVE FALSE
    BY <1>2, <2>1
  <2>2. ASSUME NEW j \in Jobs, Convert(j) PROVE Claim(i)
    <3>1. \A k \in Jobs \ {j} : run'[k] = run[k]
      BY <2>2 DEF Convert, Claim, ReadAndConvert, BackupCopy, BackupRecord, WriteReplace,
                  Touch, SettleJob, SettleRow, ErrorIn, FailJob, FailRow, Step, TypeOK
    <3>2. i = j
      BY <1>2, <3>1
    <3> QED
      BY <1>2, <2>2, <3>2
      DEF Convert, ReadAndConvert, BackupCopy, BackupRecord, WriteReplace, Touch, SettleJob,
          SettleRow, ErrorIn, FailJob, FailRow
  <2>3. ASSUME Scan PROVE UNCHANGED run
    BY <2>3 DEF Scan, ScanBegin, ScanDiscover, ScanWalked, ScanLoadExisting, ScanLoadActive,
                ScanInspect, ScanUpdateRow, ScanFiltered, ScanEnqueue, ScanEnd
  <2>4. ASSUME Users PROVE UNCHANGED run
    BY <2>4 DEF Users, Register, CheckRequest, InsertRequest, CancelQueued, ChangeSettings,
                AnalysisMiss, AnalyseFile, StoreAnalysis, DropAnalysis, Restore,
                RestoreUncommitted, PutBack
  <2>5. ASSUME NEW r \in records, PruneFile(r) \/ PruneRecord(r) PROVE UNCHANGED run
    BY <2>5 DEF PruneFile, PruneRecord
  <2>6. ASSUME CrashAndRecover PROVE run'[i].pc = "idle"
    BY <2>6 DEF CrashAndRecover, IdleRun
  <2>7. ASSUME UNCHANGED vars PROVE UNCHANGED run
    BY <2>7 DEF vars
  <2>8. PICK j \in Jobs : Claim(i)
    BY <2>1, <2>2, <2>3, <2>4, <2>5, <2>6, <2>7 DEF Next
  <2> QED
    BY <2>8 DEF Claim, TypeOK, Lifecycle!TypeOK
<1> QED
  BY <1>1, <1>2

(* An insertion is one of the contract, of a single job, or leaves the table.  *)
LEMMA InsertionRefines ==
    ASSUME TypeOK, NEW s \in Files, NEW m, InsertJob(s, m)
    PROVE  [Lifecycle!Next]_Lifecycle!vars
<1>1. CASE UNCHANGED table
  BY <1>1 DEF Lifecycle!vars
<1>2. ASSUME ~HasActive(s), NEW j \in Jobs, status[j] = "absent",
             status' = [status EXCEPT ![j] = "queued"], target' = [target EXCEPT ![j] = s]
      PROVE  Lifecycle!Next
  <2>1. status' = [i \in Jobs |-> IF i \in {j} THEN "queued" ELSE status[i]]
    BY <1>2 DEF TypeOK, Lifecycle!TypeOK
  <2>2. /\ target' \in [Jobs -> Files] /\ target'[j] = s
        /\ \A i \in Jobs \ {j} : target'[i] = target[i]
    BY <1>2 DEF TypeOK, Lifecycle!TypeOK
  <2>3. Lifecycle!ActiveJobs(s) = {}
    BY <1>2 DEF HasActive, Lifecycle!ActiveJobs
  <2>4. Lifecycle!Insert({j})
    BY <1>2, <2>1, <2>2, <2>3 DEF Lifecycle!Insert
  <2> QED
    BY <2>4 DEF Lifecycle!Next
<1> QED
  BY <1>1, <1>2 DEF InsertJob

(* Every step is a move of the contract, or leaves statuses and targets alone. *)
LEMMA NextRefines ==
    ASSUME FilesInv, TasksHaveRows, [Next]_vars
    PROVE  [Lifecycle!Next]_Lifecycle!vars
<1> USE DEF Lifecycle!vars
<1>0. TypeOK /\ \A j \in Jobs : OwnsFile(j)
  BY DEF FilesInv
<1>1. ASSUME NEW j \in Jobs, Convert(j) PROVE [Lifecycle!Next]_Lifecycle!vars
  <2>1. CASE Claim(j)
    BY <2>1 DEF Claim, Lifecycle!Next, Lifecycle!Start
  <2>2. CASE SettleJob(j)
    <3>1. status[j] = "running"
      BY <1>0, <2>2 DEF SettleJob, OwnsFile, Working
    <3>2. PICK o \in Outcomes : status' = [status EXCEPT ![j] = o] /\ UNCHANGED target
      BY <2>2 DEF SettleJob
    <3>3. Lifecycle!Finish(j, o)
      BY <3>1, <3>2 DEF Lifecycle!Finish
    <3> QED
      BY <3>3 DEF Lifecycle!Next
  <2>3. CASE FailJob(j)
    <3>1. Lifecycle!Fail(j)
      BY <2>3 DEF FailJob, TasksHaveRows, Lifecycle!Fail
    <3> QED
      BY <3>1 DEF Lifecycle!Next
  <2>4. CASE UNCHANGED table
    BY <2>4
  <2> QED
    BY <1>1, <2>1, <2>2, <2>3, <2>4
    DEF Convert, ReadAndConvert, BackupCopy, BackupRecord, WriteReplace, Touch, SettleRow,
        ErrorIn, FailRow
<1>2. CASE Scan
  <2>1. ASSUME NEW s \in Files, ScanEnqueue(s) PROVE [Lifecycle!Next]_Lifecycle!vars
    BY <1>0, <2>1, InsertionRefines DEF ScanEnqueue
  <2>2. UNCHANGED table \/ \E s \in Files : ScanEnqueue(s)
    BY <1>2 DEF Scan, ScanBegin, ScanDiscover, ScanWalked, ScanLoadExisting, ScanLoadActive,
                ScanInspect, ScanUpdateRow, ScanFiltered, ScanEnd
  <2> QED
    BY <2>1, <2>2
<1>3. CASE Users
  <2>1. ASSUME NEW s \in Files, InsertRequest(s) PROVE [Lifecycle!Next]_Lifecycle!vars
    BY <1>0, <2>1, InsertionRefines DEF InsertRequest
  <2>2. CASE CancelQueued
    BY <2>2 DEF CancelQueued, Lifecycle!Next, Lifecycle!CancelQueued
  <2>3. UNCHANGED table \/ CancelQueued \/ \E s \in Files : InsertRequest(s)
    BY <1>3 DEF Users, Register, CheckRequest, ChangeSettings, AnalysisMiss, AnalyseFile,
                StoreAnalysis, DropAnalysis, Restore, RestoreUncommitted, PutBack
  <2> QED
    BY <2>1, <2>2, <2>3
<1>4. ASSUME NEW r \in records, PruneFile(r) \/ PruneRecord(r) PROVE UNCHANGED table
  BY <1>4 DEF PruneFile, PruneRecord
<1>5. CASE CrashAndRecover
  BY <1>5 DEF CrashAndRecover, Lifecycle!Next, Lifecycle!Requeue
<1>6. CASE UNCHANGED vars
  BY <1>6 DEF vars
<1> QED
  BY <1>1, <1>2, <1>3, <1>4, <1>5, <1>6 DEF Next

(* Conversions, scans, requests, cancellations and restarts treat the jobs     *)
(* table as its contract says (JobLifecycle): a job is queued only beside no   *)
(* active job of its subtitle, only a queued job starts, only a running one    *)
(* succeeds, and one that failed, at any point of its life, has a row.         *)
THEOREM ConversionsImplementLifecycle == Spec => Lifecycle!Spec
<1>1. Init => Lifecycle!Init /\ TasksHaveRows
  BY DEF Init, Lifecycle!Init, TasksHaveRows, IdleRun
<1>2. FilesInv /\ TasksHaveRows /\ [Next]_vars => TasksHaveRows'
  BY NextTasksHaveRows DEF FilesInv
<1>3. FilesInv /\ TasksHaveRows /\ [Next]_vars => [Lifecycle!Next]_Lifecycle!vars
  BY NextRefines
<1> QED
  BY <1>1, <1>2, <1>3, FilesInvariant, PTL DEF Spec, Lifecycle!Spec

===============================================================================
