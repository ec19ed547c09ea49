# ArisSubSet: a TLA+ verification project

ArisSubSet embeds subsets of fonts into ASS/SSA subtitle files: it scans watched
directories, queues conversion jobs, backs each subtitle up and replaces it in place.
This directory holds TLA+ models of its core, the TLC configurations that check them, and
proofs checked by TLAPS. `PROJECT.json` lists the runs, the mutants that show each property
to be sensitive to a bug, the source lines behind every definition, the hazards and findings.

    tlc -workers 2 -config JobQueueSafety.cfg MCJobQueue     # model-check one configuration
    tlapm JobQueueProofs.tla                                 # check the proofs of a module

## The system

One Rust process (tokio), one SQLite database, a pool of Python font workers, a web UI.

| Component | Source | State | Operations | What is hard |
|---|---|---|---|---|
| Jobs table | `migrations/0001`, `0002` | `jobs.status`, `subtitle_id`, partial unique index on active jobs | insert, claim, settle, cancel, requeue | every part of the program writes it |
| Conversion queue | `processor.rs` 56-158, 992-1049; `main.rs` | mpsc channel, local queue, task set, memory semaphore, pause flag, parallelism | announce, receive, dispatch, join, acquire, claim, fail, recover | lost ids, bounded channel, cancellation while waiting, crash |
| Conversion | `processor.rs` 173-931 | the subtitle file, its row | read, check, subset, back up, replace, settle | several non-atomic steps on file and database |
| Analysis cache | `api.rs` 796-866 | three columns of a file's row | look up, analyse, store | stored after a slow read while the file changes |
| Scanner | `scanner.rs` | snapshots of rows and active jobs, candidates | walk, filter, mark, sync, enqueue | decides on stale snapshots while jobs convert |
| Backups | `backup.rs` | files under `/backups`, `backups` rows | create, restore, prune | two-step create and prune, restore against jobs and scans |
| Runtime settings, scheduler | `state.rs`, `scanner.rs` 35-80 | options, intervals, revision, `runtime_settings`, a watch channel | load, set, save, announce, sleep | memory and database updated separately, a change that meets the scheduler's turn |
| Scan control, walk | `fs_walk.rs`, `state.rs` | pause/cancel flags, walking thread, bounded channel | pause, cancel, walk | cancellation against blocking, lost cancel |
| Font index | `indexer.rs`, `font_inspect.rs` | `font_files` rows and faces, index revision, memoised hashes | rebuild, prune, bump, look up, memoise | files that change meanwhile, unreadable directories, a revision later than the rows |
| Subset cache | `cache.rs`, `processor.rs` 690-872 | cache files and rows, per-key locks | look up, publish, touch, evict | lock order, eviction of a file in use |
| Font worker pool | `font_worker.rs`, `workers/font_worker.py` | child processes, leases | request, time out, restart, retry | late answers, lost workers |
| Authentication | `auth.rs` | attempts per address, sessions | login, lock out, expire, clean | windows and limits at their boundary |
| Subtitle text | `ass.rs`, `processor.rs` 228-560 | the text, the fonts made so far | parse, embed, rename, draw, strip, encode | several readings of one text that must agree; stripping as the inverse of converting |
| API, events, metrics, configuration, UI | `api.rs`, `events.rs`, ... | none of their own | call the above | clients that go away mid-request |

How they interact: API handlers and the scanner insert rows in `jobs` and send the ids on the
channel; the job loop receives ids and spawns tasks; a task reads the subtitle, asks the cache
and the workers for subset fonts, calls `backup::create`, replaces the file and updates `jobs`
and `subtitle_files`; the next scan reads these rows to decide what to skip. Restore takes the
scanner's guard and looks at active jobs. A restart requeues what was running.

What makes each component correct is stated as the properties below. `PROJECT.json` lists the
hazards of the code, each with the properties that are about it, and a note where a property
leaves a part of the hazard open.

## Modules

* **JobLifecycle** is the abstract contract of the jobs table: `status` and `target`
  (`subtitle_id`), and the moves `Insert`, `Start`, `Finish`, `Fail`, `CancelQueued`, `Requeue`.
  Its two promises, `OneActivePerSubtitle` and `SettledStaysSettled`, are proved (in
  JobQueueProofs). JobQueue
  is shown to implement it (`ImplementsLifecycle == Lifecycle!Spec`, an INSTANCE whose
  variables `status` and `target` are the detailed ones), by TLC and by proof; SubtitleFiles
  has the same table, is proved to implement it too (`ConversionsImplementLifecycle`), and checks
  `OneActivePerSubtitle` as part of `FilesInv`.
* **JobQueue** models dispatching. The table and the saved parallelism survive a crash; all else
  is process memory: `sender` (who is about to send an id: a handler, a scan, the recovery),
  `channel`, `pending`, the loop's control point `loop` with its copy `limit` of the parallelism,
  `task` (the control point of each spawned task), the semaphore `memQueue`/`memFree`, `paused`,
  `parallelism`, and `life` (how far `main` has come). One action per await-to-await step:
  `LoopReceive`/`LoopJoin`/`LoopTick` are the branches of `select!`, `LoopCheck` the pause test,
  `LoopDispatch` one turn of the inner `while`, `SizeJob`..`FailJob` the task. Error paths are
  actions of their own (`...Error`), a dropped HTTP future is `DropRequest`.
* **SubtitleFiles** models what a job does to a file, the scan, manual requests, restore,
  retention and restarts. A conversion is the chain `Claim`, `ReadAndConvert`, `BackupCopy`,
  `BackupRecord`, `WriteReplace`, `Touch`, `SettleJob`, `SettleRow`, each a separate step because
  the code awaits between them; `ErrorIn` is an error before any of them, `FailJob`/`FailRow` are
  `fail_job`. A scan is `ScanBegin` .. `ScanEnd` with the snapshots the code takes.
  Restore is one step: it holds a write transaction of SQLite and the scan guard, so that only
  its failure to commit is visible (`RestoreUncommitted`). A page that asks for the analysis of a
  file is `AnalysisMiss` (row and stamp are read), `AnalyseFile` (the slow read) and
  `StoreAnalysis`, or `DropAnalysis` when the request is given up; jobs, scans and restores go on
  in between.
* **SubtitleForms** is what the two models of a subtitle share: the ten forms of a content that
  a scan or a job can tell apart, and `Outputs`, what each job may turn a form into. A job looks for
  markers in the whole text (`Marker`), a scan in the first mebibyte of the file (`MarkerSeen`); the
  forms in `Late` are those whose first marker lies behind it.
* **SubtitleText** opens the forms: styles, dialogue lines of characters, breaks and override
  tags, marker comments and the `[Fonts]` section. `ReadSubtitle` parses a document,
  `EmbedFont` is a turn of the loop over the fonts of `process_subset_job` (skipped, missing or
  embedded), `WorkerFails` its error, `WriteSubset` makes glyphs of the drawings and rewrites the
  text, and `StripSubtitle` is the clean job, whose inspections may fail one by one.
  Its run checks the `Outputs` that SubtitleFiles relies on (`TextInv`).
* **FontCodec** is the encoding of font files as text, group by group, as functions on sequences;
  SubtitleText encodes and decodes with it.
* **ScanControl** models the frame around a scan. `WalkControl` is two atomics (`paused`,
  `cancelled`), and each handler stores them one after the other (`CancelFirst`, `CancelSecond`,
  `ResumeFirst`, `ResumeSecond`); the scan looks at them one after the other too (`look`). The scan
  task goes from `StartScan` over `BeginScan`, `SpawnWalk`, `RecvEvent`, `JoinWalk`, the filter tasks and the
  batches of `enqueue_candidates` to `SettleProgress`, `ClearAgain` and `ReleaseScan`. Each walk is
  a thread with a channel of its own (`walk[w]`, `chan[w]`); the thread of a cancelled walk stays
  behind and ends by itself.
* **FontWorkerPool** models a request as a task (`Ask`, `Lease`, `Write`, `Read`, `KillWorker`,
  `SpawnWorker`, `Return`) with one retry, a worker as a process with two pipes, and a caller that
  may go away (`DropCaller`) while its task goes on. `Stop`, `Noise`, `Timeout` are what the
  environment may do, each at the price of one of `MaxFaults`.
* **SubsetCache** models the lookup of a key (`BeginLookup`, `LockKey`, `CheckFile`, `Generate`,
  `LockPublish`, `Publish`, `Read`, `Leave`) and maintenance (`BeginMaintain` .. `EndMaintain`). The
  map of weak references is `table`: a lock that nobody has any more is forgotten (`CacheLock`).
  Metadata that cannot be read makes a lookup remove a good file (`MisjudgeFile`), a publisher fail
  after its rename without counting the file (`PublishUncounted`), and the listing skip an entry
  (`ListFiles`). Each leaves the metric wrong, until a maintenance that misses no file sets it again;
  the history variable `measured` says whether that is so, and `maint.whole` whether the maintenance
  under way will.
* **FontIndex** models a rebuild in the order of the code: the rows are loaded once
  (`StartRebuild`), files are compared with them one by one (`Visit`), batches are inspected
  (`Inspect`) and written in one transaction (`WriteResults`), rows of fully walked directories
  are pruned (`Prune`), the revision counts up in memory (`BumpRevision`) and in the database
  (`SaveRevision`). Beside it run conversions as far as they use the index: the lookup, the memo
  of a hash, and the revision they record. `WriteDisk` is whoever owns the font files.
* **RuntimeSettings** models a handler as `Change`, `Save`, `Notify` and the scheduler as
  `ReadInterval`, `Sleep`, `Hear`, `TimerFires`, `EndScan`.
* **MCJobQueue, MCSubtitleFiles, MCSubtitleText, MCScanControl, MCFontWorkerPool,
  MCSubsetCache, MCFontIndex, MCRuntimeSettings** are the instances for TLC.
* **JobQueueProofs, SubtitleFilesProofs, SubtitleTextProofs, ScanControlProofs,
  FontWorkerPoolProofs, SubsetCacheProofs, FontIndexProofs** hold the proofs about the module of
  their name; JobQueueProofs also those about JobLifecycle, and ScanControlProofs those about
  RuntimeSettings, whose scheduler starts the scans. **DataProofs** has what several of them cite:
  lemmas about sequences used as queues, sums over finite sets, functions defined by recursion up
  to a bound and the flattening of sequences, and the proof that the encoding of FontCodec can be
  undone.

Operators named in a comment "Mutant of X" are deliberate bugs used to show that the
properties notice them; no specification uses them.

### Abstractions

* In SubtitleFiles a content is one of ten forms (`Forms`): what the properties tell apart is
  embedded fonts, subset markers, whether a scan sees them, and who wrote them. `Outputs` says what a
  job may write. SubtitleText has no sizes and leaves open which markers a scan sees.
* In SubtitleText a character is a code point, a font name its lower case form with '@' and a
  different letter case noted apart, and an override tag one of `\fn`, `\r`, `\b`, `\i`, `\p` with
  its argument; a tag that merely begins like one of them (`\bord`, `\iclip`, `\pos`) is that tag
  with an argument that is no number, as the code reads it. Sections come in the usual order, and
  a parenthesised name (`\fn(...)`) does not occur. The worker is external: a font it made is one
  of the constant `FontFiles`, and inspecting those bytes tells what was put there, as far as it can be
  read back: `ReadAs` is what `parse_font_subset_map` makes of a name, which it cuts off at a comma and
  does not find at all behind a brace. `Words` are the
  names there are, of styles and (normalised) of fonts; `TextAssumption` says that documents are
  built from them, that no indexed face is the empty name, and that a digest is neither empty nor
  the name of the drawing font. `MaxSalt` is the last salt `stable_font_name` tries, the largest
  `u32` in the code; a job that finds no free one would panic and fail, so the loop goes on only
  with a free one. `EnoughFiles` bounds the fonts a run makes by those in `FontFiles`.
* Size and mtime are one number per file that grows with every write or touch. The code compares
  whole seconds of mtime, so two writes of equal length within a second look alike to it: not
  modelled.
* A database statement or transaction is atomic (SQLite with one writer).
* Job ids are drawn in any order; nothing in the code compares them except the order of recovery,
  which the model leaves open.
* Nobody else edits the subtitles while the program works on them: the program's README asks for
  this.
* A batch of `enqueue_candidates` is one transaction in JobQueue (`EnqueueBatch`); SubtitleFiles
  inserts its candidates one by one, which allows more interleavings than the code.
* Modules meet at their edges, each leaving the other's inside open: a scan of ScanControl decides
  nothing about a file (SubtitleFiles does); a conversion of FontIndex or SubsetCache does nothing
  but use the index or the cache; in RuntimeSettings a scan is one control point of the scheduler.
* A time limit or timer is an action that may happen as soon as it is armed: no clock is kept, so a
  result does not depend on how long anything takes.
* A font file has a stamp for its size and mtime, and every write gives it another one. A content
  determines its names (`Provides`) or is understood by no inspection (`Unreadable`).
* `query_candidates` orders candidates by weight and slant; the model takes any.
* The lookups of a conversion in SubsetCache follow each other; what a key is the hash of, and the
  order of age in which files are evicted, are left out: any file may be next.
* FontIndex reads the stamp of a file when its event is received; the walking thread has read it up
  to 256 entries earlier. As a write gives a new stamp, that is as if the write came later, between
  walk and inspection, which the model has.
* The HTTP futures of RuntimeSettings are not dropped between change and announcement; `SaveError`
  has the same effect on memory and database.
* In SubtitleFiles any number of jobs may run and each failure of the environment costs a unit of
  `Budget`; dispatch order and limits are JobQueue's subject.

## Runs

| Run | Shows |
|---|---|
| `queue_safety` (JobQueueSafety) | `QueueInv` (types, `OneActivePerSubtitle`, `WorkIsClaimed`, `DispatchedOnce`, `WaitersWait`, ...), `ExclusiveWork`, `NoOrphan`, `MemoryBudget`, `ImplementsLifecycle`, `OutcomeIsFinal` |
| `queue_live` (JobQueueLive) | `SendersAreServed` (the recovery is one), `JobsAreProcessed`, across a restart |
| `conversions` (Conversions) | `FilesInv` (types, one active job, `OwnsFile`, `RecordsAreComplete`), `OriginalRecoverable`, `ReplacesWhatItRead`, `AnalysisIsTruthful` |
| `scanning` (Scanning) | `MetadataIsTruthful`, `MarkersAreSkipped` while no user asks for a job; backups expire meanwhile |
| `text` (Text) | `TextInv` (types, one name per font, forms), `CharactersAreEmbedded`, `StripUndoesConversion`, `ForeignFontsStay` |
| `scan_control` (ScanControl) | `ScanInv` (`TypeOK`, `GuardCoversScan`, `StageIsSettled`, `SummaryAddsUp`), `NothingMissed`, `CancelledWasAsked`, `PauseHolds`, `CancelEndsScan`, `ScanEnds` |
| `worker_pool` (WorkerPool) | `PoolInv` (`TypeOK`, `WaitersQueue`, `LeasesConserved`, `PipesQuiet`), `AnswerIsOwn`, `OneFaultIsMasked`, `RequestsEnd` |
| `cache` (Cache) | `CacheInv` (`TypeOK`, `LocksFit`, `ExclusiveKey`), `ReadFindsFile`, `GaugeIsExact`, `LookupsEnd` |
| `index` (Index) | `IndexInv` (`TypeOK`, `HashOfOwnPath`), `RowsAreTruthful`, `IndexMatchesDisk`, `PrunesOnlyTheGone`, `PartialsAreCurrent` |
| `settings` (Settings) | `SettingsInv` (`TypeOK`, `ChangesAreHeard`, `OneLateScan`), `AcknowledgedSurvives`, `ScheduleFollows` |
| `automatic_redo`, `restore_race` | TLC refutes a sentence of the program's README, see Findings |

Bounds. Three jobs over two subtitles of different size give every race of the queue: two jobs of
one subtitle (one cancelled while it waits for memory), a third that competes for memory, and a
channel of one slot that is full as soon as two ids are announced. `MaxParallelism = 2` lets the
limit be lowered under two running tasks. One fault per process life and one crash allow an
orphan to be created and adopted. For files, two jobs of one subtitle are enough for every
interleaving the table admits (at most one is active); two scans are needed for a decision based
on what the first one queued. One error, one crash, one restore and one request for an analysis
at any step is what a backup or a stamp must survive at once; fonts and markers from elsewhere are
among the initial forms of the scanning run, with markers that a scan sees and such that it does
not. The text run reads every line of
three atoms out of nine beside a line that shares a drawing with it, and longer subtitles with
tags, drawings, fonts from elsewhere and a name from another conversion, under all 32 option sets; the fonts have every length
modulo three, the digests of two names collide twice, one name has a comma and one a
brace, with and without a section for comments, a line of the `[Fonts]` section holds four
characters so that most fonts fill several, and any inspection may fail. A buffer of one slot blocks the walking thread at once; two walks
make the detached thread of the first meet the second; of three directories two share a file and
one is missing, and three requests allow a pause, its end and a cancel. Three requests for two workers make one of
them wait; two faults exhaust the single retry. Two conversions, the maintenance, two keys, one fault (a failed call of any kind) and a
quota below one file make publication, reading and eviction meet on one lock. Two font
directories, one inside the other, of which either may be unreadable, two events (writes, errors
or crashes) and two rebuilds, the first over an empty or a complete index, give a file that
changes between walk and inspection, and a row that is pruned while its file is hashed. Two
handlers are enough for changes that overlap; the environment's interval is above what a request
may set. `CHECK_DEADLOCK FALSE` wherever a bound counts
jobs, scans, requests or writes: they run out, and nothing is left to do.

Symmetry is used in runs without liveness only, on job ids and on the hashes of options, which
are compared for equality and nothing else.

Fairness (`JobQueue!Fairness`). Weak fairness for steps of the loop, of tasks and of `main` that
stay possible, because tokio keeps polling ready futures. Strong fairness for `Send`
(tokio's mpsc queues waiting senders in order, while another sender may take the slot in the
model), and for `LoopReceive` and `LoopJoin` (branches of a `select!`, which polls from a random
start). No fairness for requests, user controls, errors or crashes. `JobsAreProcessed` is
conditional on the user eventually leaving the queue unpaused.

In the other modules, too, steps that stay possible are taken (weak fairness), and nothing is
assumed of users, faults, timers or crashes. Strong fairness is assumed where the code waits in a
FIFO queue or a random choice: `LockKey` and `LockPublish` of SubsetCache (tokio's mutex is fair
while the model lets anybody take it), `RecvEvent` and `JoinWalk` of ScanControl and `Hear` of
RuntimeSettings (branches of a `select!`). The queue of FontWorkerPool is modelled as a sequence
and needs only weak fairness; a worker that hangs is not assumed to answer, the time limit alone
ends its request (`TimeoutHung`).

## Findings

* **An unmarked subset is queued again** (`NoAutomaticRedo`). With renaming switched off the
  output holds `[Fonts]` but no marker; after an option changes, a scan queues it again, the job
  is refused and the recorded success becomes failed.
* **A restore is overwritten in the row** (`RestoreSticks`). A job settles `jobs` before
  `subtitle_files`; a restore between the two ends with the row of the subset.

In both the original stays recoverable (`OriginalRecoverable`).

Four limits of what the code promises are part of the properties rather than findings: a manual
job that ends between a scan's inspection and its insert is seen by neither test of the scan
(`MarkersAreSkipped` is about scans alone); of two overlapping changes of one setting a restart
may load the older (`AcknowledgedSurvives` is about changes that do not overlap); a rebuild that
fails or dies between its writes and the revision announces nothing (`PartialsAreCurrent` excepts
that time); and a scan looks for markers in the first mebibyte only. The program's README (line 51)
says without that limit that scans skip what carries markers. With renaming off the drawing font is
the only marker and stands behind all other fonts, so that a scan may queue such a subset, whose job
is refused and whose recorded success becomes failed, as in the first finding
(`MarkersAreSkipped` is about the markers a scan sees). A job that is recovered after it had replaced its file is refused by the check for
embedded fonts and fails, which `OriginalRecoverable` allows. The interval that the environment
sets has no upper limit, that of a request seven days (`Delays`).

The model of the text shows limits of its own, which its properties name as exceptions because no
text of the repository promises more (its README, line 51, says that cleaning is not the same as
restoring the backup):

* Text behind a drawing that became a glyph stays in the drawing font, for nothing selects the old
  font again, and tags in the blocks that open and close the drawing are lost
  (`CharactersAreEmbedded` is about the text before the first such drawing of a line).
* A line of encoded font data that begins with `[` and ends with `]` is read as a section header
  and cuts its font off (`DataReadable`). So does a font from elsewhere that stood in lines of
  another length and gets such a line when it is written again (`SourceReadable`; the subtitle
  `Wide` of the run is one, and shows that the exception is needed).
* A font name with a comma comes back cut off when its subtitle is cleaned: the worker reads the
  original name from the font up to the comma, and `process_strip_job` lets that go before the full
  name in the comment. A name with a brace is not read from the font at all and comes back from the
  comment, unless there is no `[Script Info]` section that could hold one (`NamesReadBack`; the
  subtitles `Comma` and `Brace` of the run, which show that both exceptions are needed).
* A drawing font whose inspection fails is taken out by its name all the same, and its drawings
  are lost; the forms `drawn` and `drawn_late` stand for what is left.
* A font that only `\N` or `\h` uses is renamed without a recorded name; the Arial assumed for a
  line of unknown style is embedded under a new name and nothing is renamed to it; '@' and letter
  case of names are not restored (`Comparable` says what is compared).
* A font block that cannot be decoded is dropped when a subtitle is cleaned.

## Proofs

Every theorem is for all values of the constants that satisfy the named assumption of its module.

The table at the end of this section says which property of which run each theorem states.

`JobQueueProofs`. About the contract: every behaviour of JobLifecycle has at most one active job per
subtitle (`OneActive`), and a settled job only ever turns into failed (`SettledStays`). About the
queue, from `QueueAssumption` (positive capacity, parallelism and budget; a job costs at
least one permit and at most the budget, which the clamp of `memory_permits_for_size` ensures):

* `QueueInvariant`: `Spec => []QueueInv`. `ExclusiveWork` is not inductive: it needs that a
  working task owns a running row (`WorkIsClaimed`) and that the table admits one active job per
  subtitle (`OneActivePerSubtitle`). The first needs that no task exists before the recovery
  resets running rows (`QuietStart`); the second is inherited from the contract, and the step
  towards the contract needs that every id in circulation has a row (`RowsExist`).
  `FailureOwnsRow` is what `OutcomeIsFinal` adds; `DispatchedOnce` and `WaitersWait` say that an id
  is in one place only, for which `DataProofs` has the facts about sequences without repetition.
* `NothingOrphaned`: `Spec => []NoOrphan`, from where each id is (the invariant above) and what
  each action does with the id it takes out of one place.
* `ExclusiveConversion`: `Spec => []ExclusiveWork`.
* `QueueImplementsLifecycle`: `Spec => ImplementsLifecycle`; `InsertRefines` and `NextRefines` map
  each action to a move of the contract or to a stutter.
* `OutcomesAreFinal`: `Spec => OutcomeIsFinal`.
* `BudgetKept`: `Spec => []MemoryBudget`. Free permits and the permits of the tasks that hold some
  add up to the budget: each step of a task moves what it holds by what the semaphore moves.

Sums over finite sets (`BudgetKept`, `MetricIsExact`, the tally of a scan) are recursive in the
library. `DataProofs` proves what is needed of them (a sum over a set with one element more, a sum
that agrees on two functions, a sum of zeros) by taking a smallest set for which the claim would
fail: no theorem with an operator parameter is used.

`SubtitleFilesProofs`, from `FilesAssumption`:

* `FilesInvariant`, `OriginalsSurvive`, `ReplacementsAreSafe`. A task at work has the running job
  of its subtitle, and by `OneActivePerSubtitle` no other task has; a restore and the retention are
  excluded while it does. So it has the file to itself, from the read to the end (`OwnsFile`), and
  what it replaces is what it read and recorded. `OriginalRecoverable` is inductive only together
  with `RecordsAreComplete`, and the other way round: a restore writes over a content that may be
  the first one, which is safe because a subtitle with any record has a copy of its first content;
  a new record is complete because the first content was recoverable before.
* `MetadataStaysTruthful`, `AnalysisStaysTruthful`. Both follow from `StampsInv`: everything noted
  together with a size and mtime (a row, a cached answer, a verdict of the scan, the result of a
  conversion, a request under way) either has a stamp the file has left behind, or fits the content
  it has now (`Fits`). It is inductive because metadata is read before the content and every write
  moves it.
* `MarkersStaySkipped`. The scan decides from two snapshots, the rows and then the active jobs, and
  from a file it reads later. `UnmarkedInv` keeps what makes them enough while no request inserts a
  job: a subtitle with an active job has a row, was seen in both snapshots once they are taken, and
  a file waiting to be queued has no active job and no markers that a scan sees. Only a job or a restore could write
  markers into it; a job would have been seen, and a restore waits until no scan runs.

* `ConversionsImplementLifecycle`: `Spec => Lifecycle!Spec`, one step per group of actions. A
  request or a scan that inserts a job does it in one transaction with the test for an active one
  (`InsertionRefines`); a task settles only the row it owns, which is running
  (`OwnsFile`); and an error at any point finds a row to fail (`TasksHaveRows`). Both modules on the
  jobs thus keep the same contract, each with the moves the other leaves out.

`FontWorkerPoolProofs`, from `PoolAssumption`: `PoolInvariant` (each worker is free once or leased
once, waiting tasks are queued once, and a live free worker has empty pipes), `AnswersAreOwn`,
`OneFaultMasked`. Two faults are counted per failed request through `FaultsCounted`; the pipes of
a free worker must be quiet because otherwise a request would fail through what an earlier one
left there, without a fault of its own.

`SubsetCacheProofs`, from `CacheAssumption`: `LocksExclude` and `FilesStayForReaders`. The weak
references are the crux: `cache_lock` forgets dead ones and may use their lock again for another
key. `LocksFit` keeps that the reference of a key is the lock of everybody who deals with it, that
no two keys share one and who holds which mutex. A new lock is unused because there is one
identity more than there are conversions (`Pigeonhole`, `FreshLock`). Exclusion per key follows
from `LocksFit` alone, and that a file found is there when it is read from both. `MetricIsExact`
rests on `GaugeInv`: the lock of maintenance is held from the listing to the end, so that what
maintenance counts down from a listing that missed nothing is the total of the files until it stores
it, and outside of that the metric is, once such a maintenance measured it and as long as no call
failed that hid a file from it. What an eviction counts down is the
size the listing found, also of a file that a lookup has removed meanwhile (`seen`).

`ScanControlProofs`, from `ScanAssumption`: `ScanInvariant`, `EachFileOnce`, `CancelsAreAsked` and
`PausesHold`, for any tree of directories, any buffer, concurrency and batch size. The inductive
invariant ties the guard and the progress to the control point of the scan (`FrameInv`), says how
far each walking thread is, the detached ones included (`WalksInv`), and that the last walk is that
of the root the scan is at (`RootInv`). `TallyInv` is the heart of `EachFileOnce`: what the scan has
counted is, without repetition, what the thread has met less what is still in the channel, and the
proof carries along at which places of the listing the entries in the channel were met. `CountInv`
takes this through the filter tasks to the numbers of the summary. `AskInv` and `PauseInv` relate
the two flags, which are stored and read one after the other, to the requests that asked for them.

`FontIndexProofs`, from `IndexAssumption`: `IndexInvariant`, `RowsStayTruthful`, `RebuildsAgree`,
`PrunesAreJustified` and `PartialsStayCurrent`, for any paths, contents, directories that overlap in
any way, and batch size. None of the five is inductive alone:

* `LoadInv`: the rows that a rebuild loaded at its beginning are still those of the table for every
  path it has not seen, although conversions write memoised hashes beside it; what it has found and
  not written yet has the id of its row.
* `TruthInv` (for `RowsStayTruthful`): every description (a row, metadata of the walk, a result)
  either has a stamp its file has left behind, or has the names of the file. It survives a write
  between walk and inspection because the stamp is that of the walk and stamps do not come back.
* `GoneInv` (for `PrunesAreJustified`): whatever the walk of a trusted root passed was seen, or was
  absent at some time since the rebuild began.
* `CalmInv` (for `RebuildsAgree`): in a rebuild that nobody disturbs every root it passed is trusted,
  results agree with the files, and so does the row of every seen file that no result is pending
  for; after the prune, nothing is left of the others.
* `DirtyInv` and `KnownInv` (for `PartialsStayCurrent`): rows that changed since the revision did are
  announced by the rebuild that changed them unless it broke, and what was learnt under the present
  revision holds as long as no row changed since.
* `TakenInv` (for `HashOfOwnPath`): a conversion that took a font knows an id that no other path has
  had or will get.

About RuntimeSettings, also in `ScanControlProofs`, from `SettingsAssumption`: `SettingsInvariant`
and `AcknowledgedIsLoaded`.
`OneLateScan` rests on `SwitchedOff` (after a late scan, unless a change was announced since, the
scheduler reads zero); `AcknowledgedSurvives` on `Undisturbed` (while no other change of its kind
has met it, a handler is alone and saves what memory holds). Each holds for any number of requests
that overlap in any way.

`DataProofs`: `RoundTrip`, decoding what was encoded gives the bytes back, for every sequence of
bytes. The functions work group by group, so that no induction is needed. Elsewhere something is
defined by recursion over a sequence (the tags of a block, the atoms and the drawings of a line,
`FlattenSeq`). `UpTo` states induction up to a bound for a *set* of good numbers, without an
operator as a parameter: if a number were bad there would be a smallest one. From it follow that such
a recursion has a function whose values stay in a set (`RecursionExists`), that two that start and go
on alike agree (`RecursionAgrees`), and that a flattened sequence has the elements of its pieces and
no others (`FlattenElements`), each piece at its place (`FlattenPlaces`).

`SubtitleTextProofs`, from `TextAssumption`: `CharactersStayEmbedded`, `TextsCorrect`,
`ForeignFontsAreKept` and `ConversionsAreUndone`, for any subtitles, options, digests, fonts and
lengths of lines, and any order of the loop over the fonts. They rest on `LoopInv`, the invariant of
that loop:

* `NamesInv`: a font has one name, a name belongs to one font, and no name is the drawing font's.
  `StableNameIsFree` gives the step: the first salt whose digest nobody has is used.
* `UsesInv`: each use of a font by the text as it was read is still to do, missing, left out by the
  options or served by an embedded font that holds the character; what was served stays served
  (`ServedStays`), and a round of the loop serves all uses of its font (`NowServed`).

The loop works for the text as it was *read*; the result is about the text as it was *rewritten*.
Two simulations close that gap. Reading a renamed text goes through renamed states, tag by tag and
atom by atom (`TagFollows`, `TagsFollow`, `LinesFollow`), although styles are renamed by one function
and tags by another, and an embedded name is looked up as it is (`UsesFollow`). And the rewriting of the
drawings leaves a line as it was up to the first glyph (`RewriteKeeps`, `DrawingsRewritten`,
`BeginningKept`). For `TextsCorrect` it remains what a clean job leaves: of a text that nobody
converted and that has no marker, no marker, and no fonts where there were none
(`StripMakesNoMarker`); the other forms have both possibilities.

For `ForeignFontsAreKept`, `SectionReadsBack` shows that `parse_embedded_fonts` is the inverse of
`build_fonts_section` on fonts without a header-like line: the blocks of the fonts lie one after the
other in the section (`SectionLaidOut`, from `FlattenPlaces`), each ends at its blank line and holds
the encoded data, however long the lines are (`BlockRead`, `CutJoins`), which decode to what was
encoded (`RoundTrip`), and nothing but the first line of a block is read as a font (`FlattenPicks`).
Only a subtitle without fonts is ever converted (`ConvertedBare`), so that none of the fonts found in
one that has some was made here.

`ConversionsAreUndone` says that cleaning is the inverse of converting. `MadeInv` is what a conversion
leaves for it to find: names given are digests, an embedded font is one the subtitle asked for or the
drawing font (`LoopFont`, `DrawingFont`), and the converted text is what the rewriting made of lines
traced to those of the source (`DrawnFrom`). From there, part by part:

* Drawings. `AllTraced` relates what was written to what was read: an atom of the line, or a block and
  a glyph for a stretch of it. `RewriteTraces` keeps it atom by atom, and a drawing that is known stays
  known (`Grown`), so that a glyph written for the first line still means the same when the last one is
  done. `DrawingsRestored` puts the stretches back, from the drawings the worker finds in the font
  (`DrawingsFound`).
* Names. The section reads back, so that the worker is asked about every font (`OwnFontsRead`,
  `MapsFound`). Every name that was changed has a comment (`CommentsNameAll`), for those that the worker
  does not read; those it reads, it reads as they were (`NamesReadBack`). Comments and maps only name what was given (`OwnComments`, `WaysBack`), and a name was
  given once (`NamesInv`): renamed twice, each name of the subtitle is what it was, or belongs to a
  font of which the text has no character (`NameRestored`).
* The rest. Every comment is named by itself, every font by its content or as the drawing font, and no
  line of the section looks like a header: nothing is left (`ConvertedIsUndone`).

The property excepts subtitles that ask for a digest (`NoDigestInUse`), as one does into which a line of
a converted subtitle was copied: cleaning renames that font too, and TLC shows it at once when the
exception is taken away (`Copied` in MCSubtitleText is such a subtitle). The code cannot tell the two apart.

Only model-checked: the liveness properties, because the prover has no rule for fairness.

| Run | Theorems |
|---|---|
| `queue_safety` | `QueueInvariant` (`QueueInv`), `ExclusiveConversion` (`ExclusiveWork`), `NothingOrphaned` (`NoOrphan`), `BudgetKept` (`MemoryBudget`), `QueueImplementsLifecycle` (`ImplementsLifecycle`), `OutcomesAreFinal` (`OutcomeIsFinal`) |
| `conversions` | `FilesInvariant` (`FilesInv`), `OriginalsSurvive` (`OriginalRecoverable`), `ReplacementsAreSafe` (`ReplacesWhatItRead`), `AnalysisStaysTruthful` (`AnalysisIsTruthful`); `ConversionsImplementLifecycle` |
| `scanning` | `MetadataStaysTruthful` (`MetadataIsTruthful`), `MarkersStaySkipped` (`MarkersAreSkipped`) |
| `text` | `TextsCorrect` (`TextInv`), `CharactersStayEmbedded` (`CharactersAreEmbedded`), `ConversionsAreUndone` (`StripUndoesConversion`), `ForeignFontsAreKept` (`ForeignFontsStay`) |
| `scan_control` | `ScanInvariant` (`ScanInv`), `EachFileOnce` (`NothingMissed`), `CancelsAreAsked` (`CancelledWasAsked`), `PausesHold` (`PauseHolds`) |
| `worker_pool` | `PoolInvariant` (`PoolInv`), `AnswersAreOwn` (`AnswerIsOwn`), `OneFaultMasked` (`OneFaultIsMasked`) |
| `cache` | `LocksExclude` (`CacheInv`), `FilesStayForReaders` (`ReadFindsFile`), `MetricIsExact` (`GaugeIsExact`) |
| `index` | `IndexInvariant` (`IndexInv`), `RowsStayTruthful` (`RowsAreTruthful`), `RebuildsAgree` (`IndexMatchesDisk`), `PrunesAreJustified` (`PrunesOnlyTheGone`), `PartialsStayCurrent` (`PartialsAreCurrent`) |
| `settings` | `SettingsInvariant` (`SettingsInv`), `AcknowledgedIsLoaded` (`AcknowledgedSurvives`) |

## Not modelled

* Authentication (`auth.rs`): a limiter of login attempts and session rows that handlers read
  before they act. No modelled state depends on it.
* Database access (`db.rs`, `sqlx.rs`): SQLite is external and its statements and transactions are
  atomic; migrations run once, before anything else.
* Events, metrics, the failure log, the parsing of the configuration, models and the web UI:
  reporting and presentation without influence on the modelled state.
* Of the API: listings, formatting, uploads and downloads; handlers that change state are actions
  of the components they call.
* Of the text: byte order marks, UTF-16, the splitting of lines into fields, sections in an unusual
  order, and the wording of comments. A line of encoded font data that begins with `FONTNAME:` would
  be read as the start of another font; no such line occurs in the model.
* What fontTools computes in the Python workers, what `font_inspect.rs` reads out of a font file
  (a constant function from contents to names), and the choice among candidates by weight and
  slant (any candidate): they are functions of their inputs, and numeric or string handling.
