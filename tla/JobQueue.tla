------------------------------- MODULE JobQueue -------------------------------
(***************************************************************************)
(* The conversion queue: the jobs table, the bounded notification channel  *)
(* (job_tx), the handlers and scans that insert jobs and then send their   *)
(* ids, the controlled job loop with its local queue, the tasks it spawns, *)
(* the memory semaphore, pause / cancel / parallelism controls, and a      *)
(* restart of the process with recover_incomplete_jobs.                    *)
(*                                                                         *)
(* The table survives a restart; every other variable is process memory.   *)
(* What a conversion does to files and to subtitle rows is in              *)
(* SubtitleFiles; here it either ends with an outcome or with an error.    *)
(***************************************************************************)
EXTENDS Integers, SequencesExt

CONSTANTS Jobs,            \* job ids
          Subtitles,       \* subtitle_files ids
          Capacity,        \* config.job_queue_size
          MaxParallelism,  \* upper clamp of conversion_parallelism
          MemoryMb,        \* config.max_conversion_memory_mb
          Cost,            \* Cost[s]: memory_permits_for_size of subtitle s
          MaxFaults,       \* bound on database errors and dropped requests per process life
          MaxCrashes       \* bound on restarts

ASSUME QueueAssumption ==
    /\ Subtitles # {}
    /\ Capacity \in Nat \ {0}
    /\ MaxParallelism \in Nat \ {0}
    /\ MemoryMb \in Nat \ {0}
    /\ Cost \in [Subtitles -> 1..MemoryMb]
    /\ MaxFaults \in Nat
    /\ MaxCrashes \in Nat

VARIABLES
    status, target,   \* the jobs table (see JobLifecycle)
    saved,            \* conversion_parallelism in runtime_settings
    life,             \* how far main has come
    sender,           \* sender[j]: who is about to send id j on job_tx
    channel,          \* the mpsc channel
    pending,          \* VecDeque of the job loop
    loop, limit,      \* control point of the loop, its copy of the parallelism
    task,             \* task[j]: control point of the task spawned for j
    memQueue,         \* tasks waiting in the memory semaphore, FIFO
    memFree,          \* free permits of the semaphore
    paused, parallelism,
    faults, crashes   \* bounded counters of what the environment did

table    == <<status, target>>
controls == <<paused, parallelism, saved>>
memory   == <<memQueue, memFree>>
queues   == <<channel, pending>>
loopVars == <<loop, limit>>
env      == <<faults, crashes>>
vars     == <<table, controls, life, sender, queues, loopVars, task, memory, env>>

Lifecycle == INSTANCE JobLifecycle

Active     == Lifecycle!Active
Outcomes   == Lifecycle!Outcomes
Statuses   == Lifecycle!Statuses
Senders    == {"none", "handler", "scan", "recovery"}
TaskStates == {"none", "sizing", "memwait", "claim", "work", "failing", "ended"}

QueuesOK ==
    /\ channel \in Seq(Jobs) /\ Len(channel) <= Capacity
    /\ pending \in Seq(Jobs)
    /\ memQueue \in Seq(Jobs)

PausedOK == paused \in BOOLEAN

TypeOK ==
    /\ QueuesOK
    /\ PausedOK
    /\ status \in [Jobs -> Statuses]
    /\ target \in [Jobs -> Subtitles]
    /\ saved \in 1..MaxParallelism
    /\ life \in {"starting", "recovering", "up"}
    /\ sender \in [Jobs -> Senders]
    /\ loop \in {"select", "check", "dispatch"}
    /\ limit \in 1..MaxParallelism
    /\ task \in [Jobs -> TaskStates]
    /\ memFree \in Int
    /\ parallelism \in 1..MaxParallelism
    /\ faults \in 0..MaxFaults
    /\ crashes \in 0..MaxCrashes

(* Mutant of HasActive: looks for queued jobs only. *)
HasQueued(s) == \E j \in Jobs : status[j] = "queued" /\ target[j] = s

(* The partial unique index on active jobs, and the guards of the INSERTs. *)
HasActive(s) == \E j \in Jobs : status[j] \in Active /\ target[j] = s

Spawned      == {j \in Jobs : task[j] # "none"}      \* active.len(): joined tasks are gone
Holding      == {j \in Jobs : task[j] \in {"claim", "work"}}

Fault == faults < MaxFaults /\ faults' = faults + 1

(* Mutant of Serving: requests are served while the process still recovers. *)
ServingEarly == life \in {"starting", "recovering", "up"}

(* Requests, scans and controls exist once main got past the recovery. *)
Serving == life = "up"

HasSlot == Cardinality(Spawned) < limit

Init ==
    /\ status = [j \in Jobs |-> "absent"]
    /\ target = [j \in Jobs |-> CHOOSE s \in Subtitles : TRUE]
    /\ saved \in 1..MaxParallelism
    /\ life = "starting"
    /\ sender = [j \in Jobs |-> "none"]
    /\ channel = <<>> /\ pending = <<>>
    /\ loop = "select" /\ limit = 1
    /\ task = [j \in Jobs |-> "none"]
    /\ memQueue = <<>> /\ memFree = MemoryMb
    /\ paused = FALSE /\ parallelism = saved
    /\ faults = 0 /\ crashes = 0

-------------------------------------------------------------------------------
(* Inserting and announcing jobs.                                              *)

(* The transaction that inserts one queued job per subtitle of S, which have   *)
(* no active job; the ids are announced afterwards, by who.                    *)
InsertJobs(S, who) ==
    /\ Serving
    /\ \A s \in S : ~HasActive(s)
    /\ \E id \in [S -> {j \in Jobs : status[j] = "absent"}] :
          /\ \A s, t \in S : id[s] = id[t] => s = t
          /\ status' = [j \in Jobs |-> IF \E s \in S : id[s] = j THEN "queued" ELSE status[j]]
          /\ target' = [j \in Jobs |-> IF \E s \in S : id[s] = j
                                       THEN CHOOSE s \in S : id[s] = j ELSE target[j]]
          /\ sender' = [j \in Jobs |-> IF \E s \in S : id[s] = j THEN who ELSE sender[j]]
    /\ UNCHANGED <<controls, life, queues, loopVars, task, memory, env>>

(* enqueue_subtitle_id, for process, strip, retry and upload requests. *)
EnqueueRequest(s) == InsertJobs({s}, "handler")

(* One batch of enqueue_candidates: the candidates without an active job.  The *)
(* next batch starts when every id of this one was sent.                       *)
EnqueueBatch(S) ==
    /\ S # {}
    /\ \A j \in Jobs : sender[j] # "scan"
    /\ InsertJobs(S, "scan")

(* job_tx.send(id).await: waits while the channel is full. *)
Send(j) ==
    /\ sender[j] # "none"
    /\ Len(channel) < Capacity
    /\ channel' = Append(channel, j)
    /\ sender' = [sender EXCEPT ![j] = "none"]
    /\ UNCHANGED <<table, controls, life, pending, loopVars, task, memory, env>>

(* The client goes away between the INSERT and the end of send: the request's  *)
(* future is dropped and the id is never sent.                                 *)
DropRequest(j) ==
    /\ sender[j] = "handler"
    /\ Fault
    /\ sender' = [sender EXCEPT ![j] = "none"]
    /\ UNCHANGED <<table, controls, life, queues, loopVars, task, memory, crashes>>

-------------------------------------------------------------------------------
(* The controlled job loop.                                                    *)

(* Mutant of LoopReceive: ids received while paused are not kept. *)
LoopReceiveDropping ==
    /\ loop = "select"
    /\ life # "starting"
    /\ channel # <<>>
    /\ pending' = IF paused THEN pending ELSE Append(pending, Head(channel))
    /\ channel' = Tail(channel)
    /\ loop' = "check"
    /\ UNCHANGED <<table, controls, life, sender, limit, task, memory, env>>

(* Mutant of LoopReceive: the channel is left alone while paused. *)
LoopReceiveUnpaused ==
    /\ loop = "select" /\ ~paused
    /\ life # "starting"
    /\ channel # <<>>
    /\ pending' = Append(pending, Head(channel))
    /\ channel' = Tail(channel)
    /\ loop' = "check"
    /\ UNCHANGED <<table, controls, life, sender, limit, task, memory, env>>

LoopReceive ==
    /\ loop = "select"
    /\ life # "starting"
    /\ channel # <<>>
    /\ pending' = Append(pending, Head(channel))
    /\ channel' = Tail(channel)
    /\ loop' = "check"
    /\ UNCHANGED <<table, controls, life, sender, limit, task, memory, env>>

LoopJoin(j) ==
    /\ loop = "select"
    /\ task[j] = "ended"
    /\ task' = [task EXCEPT ![j] = "none"]
    /\ loop' = "check"
    /\ UNCHANGED <<table, controls, life, sender, queues, limit, memory, env>>

LoopTick ==
    /\ loop = "select"
    /\ life # "starting"
    /\ loop' = "check"
    /\ UNCHANGED <<table, controls, life, sender, queues, limit, task, memory, env>>

(* conversion_paused, then conversion_parallelism. *)
LoopCheck ==
    /\ loop = "check"
    /\ IF paused
       THEN loop' = "select" /\ UNCHANGED limit
       ELSE loop' = "dispatch" /\ limit' = parallelism
    /\ UNCHANGED <<table, controls, life, sender, queues, task, memory, env>>

(* Below the limit: take the next id, and spawn a task if the row still says   *)
(* queued; an id that was cancelled meanwhile is discarded.                    *)
LoopDispatch ==
    /\ loop = "dispatch"
    /\ HasSlot
    /\ pending # <<>>
    /\ pending' = Tail(pending)
    /\ task' = IF status[Head(pending)] = "queued"
               THEN [task EXCEPT ![Head(pending)] = "sizing"]
               ELSE task
    /\ UNCHANGED <<table, controls, life, sender, channel, loopVars, memory, env>>

(* job_is_runnable fails: unwrap_or(false) discards the id of a queued job.    *)
LoopDispatchError ==
    /\ loop = "dispatch"
    /\ HasSlot
    /\ pending # <<>>
    /\ Fault
    /\ pending' = Tail(pending)
    /\ UNCHANGED <<table, controls, life, sender, channel, loopVars, task, memory, crashes>>

(* The copy of the parallelism goes out of scope. *)
LoopIdle ==
    /\ loop = "dispatch"
    /\ ~HasSlot \/ pending = <<>>
    /\ loop' = "select" /\ limit' = 1
    /\ UNCHANGED <<table, controls, life, sender, queues, task, memory, env>>

-------------------------------------------------------------------------------
(* A spawned task: acquire_job_memory, process_job, fail_job.                  *)

Goto(j, point) == task' = [task EXCEPT ![j] = point]
KeepLoop       == UNCHANGED <<controls, life, sender, queues, loopVars>>

SizeJob(j) ==
    /\ task[j] = "sizing"
    /\ Goto(j, "memwait")
    /\ memQueue' = Append(memQueue, j)
    /\ UNCHANGED <<table, memFree, env>> /\ KeepLoop

SizeJobError(j) ==
    /\ task[j] = "sizing"
    /\ Fault
    /\ Goto(j, "failing")
    /\ UNCHANGED <<table, memory, crashes>> /\ KeepLoop

(* The semaphore serves its waiters in order. *)
AcquireMemory(j) ==
    /\ memQueue # <<>> /\ Head(memQueue) = j
    /\ Cost[target[j]] <= memFree
    /\ memQueue' = Tail(memQueue)
    /\ memFree' = memFree - Cost[target[j]]
    /\ Goto(j, "claim")
    /\ UNCHANGED <<table, env>> /\ KeepLoop

(* Mutant of ReleaseMemory: gives one permit back, however many were taken. *)
ReleaseOne(j) == memFree' = memFree + 1 /\ UNCHANGED memQueue

(* The permit of acquire_many is dropped. *)
ReleaseMemory(j) == memFree' = memFree + Cost[target[j]] /\ UNCHANGED memQueue

(* Mutant of Claim: the UPDATE does not ask for status='queued'. *)
ClaimAny(j) ==
    /\ task[j] = "claim"
    /\ status' = [status EXCEPT ![j] = "running"]
    /\ Goto(j, "work")
    /\ UNCHANGED <<target, memory, env>> /\ KeepLoop

(* UPDATE jobs SET status='running' ... AND status='queued'. *)
Claim(j) ==
    /\ task[j] = "claim"
    /\ IF status[j] = "queued"
       THEN /\ status' = [status EXCEPT ![j] = "running"]
            /\ Goto(j, "work")
            /\ UNCHANGED memory
       ELSE /\ Goto(j, "ended")
            /\ ReleaseMemory(j)
            /\ UNCHANGED status
    /\ UNCHANGED <<target, env>> /\ KeepLoop

ClaimError(j) ==
    /\ task[j] = "claim"
    /\ Fault
    /\ Goto(j, "failing")
    /\ ReleaseMemory(j)
    /\ UNCHANGED <<table, crashes>> /\ KeepLoop

(* The conversion ends and its job row is settled. *)
FinishJob(j, outcome) ==
    /\ task[j] = "work"
    /\ status' = [status EXCEPT ![j] = outcome]
    /\ Goto(j, "ended")
    /\ ReleaseMemory(j)
    /\ UNCHANGED <<target, env>> /\ KeepLoop

(* The job row is settled, then the update of subtitle_files fails. *)
FinishJobError(j, outcome) ==
    /\ task[j] = "work"
    /\ Fault
    /\ status' = [status EXCEPT ![j] = outcome]
    /\ Goto(j, "failing")
    /\ ReleaseMemory(j)
    /\ UNCHANGED <<target, crashes>> /\ KeepLoop

(* Any error of the conversion: the permit is dropped before fail_job runs. *)
WorkError(j) ==
    /\ task[j] = "work"
    /\ Goto(j, "failing")
    /\ ReleaseMemory(j)
    /\ UNCHANGED <<table, env>> /\ KeepLoop

FailJob(j) ==
    /\ task[j] = "failing"
    /\ status' = [status EXCEPT ![j] = "failed"]
    /\ Goto(j, "ended")
    /\ UNCHANGED <<target, memory, env>> /\ KeepLoop

(* The result of fail_job is ignored: the row keeps its status. *)
FailJobError(j) ==
    /\ task[j] = "failing"
    /\ Fault
    /\ Goto(j, "ended")
    /\ UNCHANGED <<table, memory, crashes>> /\ KeepLoop

-------------------------------------------------------------------------------
(* Controls.                                                                   *)

(* Mutant of CancelQueued: cancels every row that is not running. *)
CancelRest ==
    /\ Serving
    /\ \E j \in Jobs : status[j] = "queued"
    /\ status' = [j \in Jobs |-> IF status[j] \in {"absent", "running"}
                               THEN status[j] ELSE "cancelled"]
    /\ UNCHANGED <<target, controls, life, sender, queues, loopVars, task, memory, env>>

CancelQueued ==
    /\ Serving
    /\ \E j \in Jobs : status[j] = "queued"
    /\ status' = [j \in Jobs |-> IF status[j] = "queued" THEN "cancelled" ELSE status[j]]
    /\ UNCHANGED <<target, controls, life, sender, queues, loopVars, task, memory, env>>

SetPaused ==
    /\ Serving
    /\ paused' = ~paused
    /\ UNCHANGED <<table, parallelism, saved, life, sender, queues, loopVars, task, memory, env>>

(* Memory first, then the database, whose error leaves the two different. *)
SetParallelism(n) ==
    /\ Serving
    /\ parallelism' = n
    /\ \/ saved' = n /\ UNCHANGED faults
       \/ saved' = saved /\ Fault
    /\ UNCHANGED <<table, paused, life, sender, queues, loopVars, task, memory, crashes>>

-------------------------------------------------------------------------------
(* Restart.                                                                    *)

(* The process dies at any point; the next one loads its settings. *)
Crash ==
    /\ crashes < MaxCrashes
    /\ crashes' = crashes + 1
    /\ life' = "starting"
    /\ sender' = [j \in Jobs |-> "none"]
    /\ channel' = <<>> /\ pending' = <<>>
    /\ loop' = "select" /\ limit' = 1
    /\ task' = [j \in Jobs |-> "none"]
    /\ memQueue' = <<>> /\ memFree' = MemoryMb
    /\ paused' = FALSE /\ parallelism' = saved
    /\ faults' = 0
    /\ UNCHANGED <<table, saved>>

(* Mutant of Recover: failed jobs are tried again. *)
RecoverFailed ==
    /\ life = "starting"
    /\ life' = "recovering"
    /\ status' = [j \in Jobs |-> IF status[j] \in {"running", "failed"} THEN "queued" ELSE status[j]]
    /\ sender' = [j \in Jobs |-> IF status'[j] = "queued" THEN "recovery" ELSE "none"]
    /\ UNCHANGED <<target, controls, queues, loopVars, task, memory, env>>

(* The job loop is spawned, then recover_incomplete_jobs resets the running    *)
(* rows and selects the queued ones, to be sent one by one.                    *)
Recover ==
    /\ life = "starting"
    /\ life' = "recovering"
    /\ status' = [j \in Jobs |-> IF status[j] = "running" THEN "queued" ELSE status[j]]
    /\ sender' = [j \in Jobs |-> IF status[j] \in Active THEN "recovery" ELSE "none"]
    /\ UNCHANGED <<target, controls, queues, loopVars, task, memory, env>>

(* Every recovered id was sent: main goes on and starts to serve requests. *)
Serve ==
    /\ life = "recovering"
    /\ \A j \in Jobs : sender[j] # "recovery"
    /\ life' = "up"
    /\ UNCHANGED <<table, controls, sender, queues, loopVars, task, memory, env>>

-------------------------------------------------------------------------------
LoopStep ==
    \/ LoopReceive
    \/ \E j \in Jobs : LoopJoin(j)
    \/ LoopTick
    \/ LoopCheck
    \/ LoopDispatch
    \/ LoopDispatchError
    \/ LoopIdle

TaskStep(j) ==
    \/ SizeJob(j)
    \/ SizeJobError(j)
    \/ AcquireMemory(j)
    \/ Claim(j)
    \/ ClaimError(j)
    \/ \E o \in Outcomes : FinishJob(j, o)
    \/ \E o \in Outcomes : FinishJobError(j, o)
    \/ WorkError(j)
    \/ FailJob(j)
    \/ FailJobError(j)

Control ==
    \/ CancelQueued
    \/ SetPaused
    \/ \E n \in 1..MaxParallelism : SetParallelism(n)

Next ==
    \/ \E s \in Subtitles : EnqueueRequest(s)
    \/ \E S \in SUBSET Subtitles : EnqueueBatch(S)
    \/ \E j \in Jobs : Send(j) \/ DropRequest(j)
    \/ LoopStep
    \/ \E j \in Jobs : TaskStep(j)
    \/ Control
    \/ Crash \/ Recover \/ Serve

Spec == Init /\ [][Next]_vars

(* The runtime keeps polling the loop, the tasks and the blocked senders: mpsc *)
(* serves its senders in order, and select! polls its ready branches from a    *)
(* random start, so none is passed over for ever.  Requests, controls, errors  *)
(* and crashes owe nothing.                                                    *)
Fairness ==
    /\ WF_vars(Recover) /\ WF_vars(Serve)
    /\ SF_vars(LoopReceive) /\ WF_vars(LoopTick) /\ WF_vars(LoopCheck)
    /\ WF_vars(LoopDispatch) /\ WF_vars(LoopIdle)
    /\ \A j \in Jobs :
         /\ SF_vars(Send(j))
         /\ SF_vars(LoopJoin(j))
         /\ WF_vars(SizeJob(j)) /\ WF_vars(AcquireMemory(j)) /\ WF_vars(Claim(j))
         /\ WF_vars(WorkError(j) \/ \E o \in Outcomes : FinishJob(j, o))
         /\ WF_vars(FailJob(j))

FairSpec == Spec /\ Fairness
-------------------------------------------------------------------------------
(* Properties.                                                                 *)

(* The queue implements the jobs table's contract: every step of dispatching,  *)
(* claiming, failing, cancelling and recovering is one of its moves.           *)
ImplementsLifecycle == Lifecycle!Spec

(* At most one queued or running job per subtitle (migrations/0002, the INSERT *)
(* ... WHERE NOT EXISTS of the scanner), whatever requests, scans, failures    *)
(* and restarts do.                                                            *)
OneActivePerSubtitle == Lifecycle!OneActivePerSubtitle

(* Two conversions never work on one subtitle at the same time, although a job *)
(* cancelled while it waits for memory frees its subtitle for another job.     *)
ExclusiveWork ==
    \A i, j \in Jobs :
        (task[i] = "work" /\ task[j] = "work" /\ target[i] = target[j]) => i = j

(* A task converts only while its row says running: a cancelled job is never   *)
(* converted, even if its task was already waiting for memory.                 *)
WorkIsClaimed == \A j \in Jobs : task[j] = "work" => status[j] = "running"

(* The ids in circulation are those of inserted rows. *)
Known == {j \in Jobs : status[j] # "absent"}

RowsExist ==
    /\ channel \in Seq(Known) /\ pending \in Seq(Known) /\ memQueue \in Seq(Known)
    /\ \A j \in Jobs : (sender[j] # "none" \/ task[j] # "none") => j \in Known

(* A process that has not recovered yet holds no id. *)
QuietStart ==
    life = "starting" =>
        /\ loop = "select" /\ channel = <<>> /\ pending = <<>> /\ memQueue = <<>>
        /\ \A j \in Jobs : task[j] = "none" /\ sender[j] = "none"

(* While nothing went wrong in the database, a task about to fail still owns    *)
(* its running row.                                                            *)
FailureOwnsRow ==
    faults = 0 => \A j \in Jobs : task[j] = "failing" => status[j] = "running"

(* An id announced or taken by this process is in one place only, once: with   *)
(* its sender, in the channel, in the loop's queue, or in a task.  So no job   *)
(* gets two tasks, the recovered ones included.                                *)
DispatchedOnce ==
    /\ IsInjective(channel) /\ IsInjective(pending)
    /\ \A j \in Jobs :
          /\ Contains(channel, j) => ~Contains(pending, j)
          /\ Contains(channel, j) \/ Contains(pending, j)
                => sender[j] = "none" /\ task[j] = "none"
          /\ sender[j] # "none" => task[j] = "none"

(* Who waits in the semaphore is a task that waits for memory, and once. *)
WaitersWait ==
    /\ IsInjective(memQueue)
    /\ \A j \in Jobs : Contains(memQueue, j) => task[j] = "memwait"

(* Without a database error or a dropped request since the process started, a  *)
(* queued row is announced, waiting or in a task that will claim it, and a     *)
(* running one is that of a task.                                              *)
Owned(j) ==
    /\ status[j] = "queued" =>
          \/ sender[j] # "none" \/ Contains(channel, j) \/ Contains(pending, j)
          \/ task[j] \in {"sizing", "memwait", "claim"}
    /\ status[j] = "running" => task[j] \in {"work", "failing"}

(* No row is forgotten that this process found or inserted.                    *)
NoOrphan == (faults = 0 /\ life # "starting") => \A j \in Jobs : Owned(j)

(* The inductive invariant behind ExclusiveWork, NoOrphan and OutcomeIsFinal:  *)
(* one active job per subtitle, a working or failing task owns its running     *)
(* row, every id that circulates has a row and is in one place.                *)
QueueInv ==
    /\ TypeOK
    /\ OneActivePerSubtitle
    /\ WorkIsClaimed
    /\ RowsExist
    /\ QuietStart
    /\ FailureOwnsRow
    /\ DispatchedOnce
    /\ WaitersWait

(* The permits of the semaphore: free ones and those of the tasks that hold    *)
(* some make up the budget, on every path out of a task; none is given twice.  *)
Held         == MapThenSumSet(LAMBDA j : Cost[target[j]], Holding)
MemoryBudget == memFree >= 0 /\ memFree + Held = MemoryMb

(* With neither errors nor dropped requests, a settled outcome is final.       *)
OutcomeIsFinal ==
    [][faults' = 0 => \A j \in Jobs :
          status[j] \in Lifecycle!Settled => status'[j] = status[j]]_vars

(* Nobody who announces a job waits for ever, not even while paused: the loop  *)
(* keeps moving ids from the channel to its own queue.  The recovery announces *)
(* ids, too, more than the channel has slots for, before the server starts.    *)
SendersAreServed == \A j \in Jobs : (sender[j] # "none") ~> (sender[j] = "none")

(* Once the user leaves the queue unpaused and nothing fails, every queued job *)
(* leaves the queue and every running job settles, also what a dead process    *)
(* left queued or running: its successor takes it over.                        *)
JobsAreProcessed ==
    <>[](~paused /\ faults = 0) =>
        \A j \in Jobs : []((status[j] \in Active) => <>(status[j] \in Lifecycle!Settled))

===============================================================================
