---------------------------- MODULE JobQueueProofs ----------------------------
(***************************************************************************)
(* Proofs about JobQueue, for every set of jobs and subtitles, capacity,   *)
(* parallelism, memory budget and number of faults and crashes.            *)
(***************************************************************************)
EXTENDS JobQueue, DataProofs

USE DEF Lifecycle!Active, Lifecycle!Outcomes, Lifecycle!Settled, Lifecycle!Statuses,
        Active, Outcomes, Statuses

-------------------------------------------------------------------------------
(* The contract of the jobs table (JobLifecycle), proved from its own actions: *)
(* every writer that implements it can rely on this.                           *)

(* The table starts empty and well typed. *)
LEMMA ContractInit == Lifecycle!Init => Lifecycle!TypeOK /\ Lifecycle!OneActivePerSubtitle
BY DEF Lifecycle!Init, Lifecycle!TypeOK, Lifecycle!OneActivePerSubtitle

(* Inserting never puts a second active job beside one: the subtitle of a new   *)
(* job had none, and no other new job has it.                                  *)
LEMMA ContractInsert ==
    ASSUME Lifecycle!TypeOK, Lifecycle!OneActivePerSubtitle,
           NEW new \in SUBSET Jobs, Lifecycle!Insert(new)
    PROVE  Lifecycle!OneActivePerSubtitle'
<1> SUFFICES ASSUME NEW i \in Jobs, NEW j \in Jobs,
                    status'[i] \in Active, status'[j] \in Active, target'[i] = target'[j]
             PROVE  i = j
  BY DEF Lifecycle!OneActivePerSubtitle
<1>1. ASSUME NEW k \in Jobs, k \notin new
      PROVE  status'[k] = status[k] /\ target'[k] = target[k]
  BY <1>1 DEF Lifecycle!Insert, Lifecycle!TypeOK
<1>2. ASSUME NEW n \in new, NEW k \in Jobs, k \notin new, target'[n] = target'[k]
      PROVE  status'[k] \notin Active
  BY <1>1, <1>2 DEF Lifecycle!Insert, Lifecycle!ActiveJobs
<1>3. CASE i \in new /\ j \in new
  BY <1>3 DEF Lifecycle!Insert
<1>4. CASE i \notin new /\ j \notin new
  BY <1>1, <1>4 DEF Lifecycle!OneActivePerSubtitle
<1>5. CASE (i \in new /\ j \notin new) \/ (i \notin new /\ j \in new)
  BY <1>2, <1>5
<1> QED
  BY <1>3, <1>4, <1>5

(* Every other step makes no job active that was not, and moves none to another *)
(* subtitle.                                                                   *)
LEMMA ContractKeepsOneActive ==
    ASSUME Lifecycle!TypeOK, Lifecycle!OneActivePerSubtitle, [Lifecycle!Next]_Lifecycle!vars
    PROVE  Lifecycle!OneActivePerSubtitle'
<1>1. ASSUME target' = target, \A j \in Jobs : status'[j] \in Active => status[j] \in Active
      PROVE  Lifecycle!OneActivePerSubtitle'
  BY <1>1 DEF Lifecycle!OneActivePerSubtitle
<1>2. ASSUME NEW j \in Jobs,
             Lifecycle!Start(j) \/ Lifecycle!Fail(j) \/ \E o \in Outcomes : Lifecycle!Finish(j, o)
      PROVE  Lifecycle!OneActivePerSubtitle'
  BY <1>1, <1>2 DEF Lifecycle!Start, Lifecycle!Fail, Lifecycle!Finish, Lifecycle!TypeOK
<1>3. CASE Lifecycle!CancelQueued \/ Lifecycle!Requeue
  BY <1>1, <1>3 DEF Lifecycle!CancelQueued, Lifecycle!Requeue, Lifecycle!TypeOK
<1>4. CASE UNCHANGED Lifecycle!vars
  BY <1>1, <1>4 DEF Lifecycle!vars
<1> QED
  BY <1>2, <1>3, <1>4, ContractInsert DEF Lifecycle!Next

(* The types are kept. *)
LEMMA ContractTypeOK ==
    ASSUME Lifecycle!TypeOK, [Lifecycle!Next]_Lifecycle!vars
    PROVE  Lifecycle!TypeOK'
BY DEF Lifecycle!TypeOK, Lifecycle!Next, Lifecycle!vars, Lifecycle!Insert, Lifecycle!Start,
       Lifecycle!Fail, Lifecycle!Finish, Lifecycle!CancelQueued, Lifecycle!Requeue

(* At most one queued or running job per subtitle, whoever writes the table.   *)
THEOREM OneActive == Lifecycle!Spec => [](Lifecycle!TypeOK /\ Lifecycle!OneActivePerSubtitle)
<1>1. Lifecycle!TypeOK /\ Lifecycle!OneActivePerSubtitle /\ [Lifecycle!Next]_Lifecycle!vars
        => (Lifecycle!TypeOK /\ Lifecycle!OneActivePerSubtitle)'
  BY ContractTypeOK, ContractKeepsOneActive
<1> QED
  BY ContractInit, <1>1, PTL DEF Lifecycle!Spec

(* One step never makes a settled job anything else than failed.               *)
LEMMA ContractKeepsSettled ==
    ASSUME Lifecycle!TypeOK, [Lifecycle!Next]_Lifecycle!vars,
           NEW j \in Jobs, status[j] \in Lifecycle!Settled
    PROVE  status'[j] \in {status[j], "failed"}
<1>1. ASSUME NEW new \in SUBSET Jobs, Lifecycle!Insert(new) PROVE status'[j] = status[j]
  BY <1>1 DEF Lifecycle!Insert, Lifecycle!TypeOK
<1>2. ASSUME NEW k \in Jobs,
             Lifecycle!Start(k) \/ Lifecycle!Fail(k) \/ \E o \in Outcomes : Lifecycle!Finish(k, o)
      PROVE  status'[j] \in {status[j], "failed"}
  BY <1>2 DEF Lifecycle!Start, Lifecycle!Fail, Lifecycle!Finish, Lifecycle!TypeOK
<1>3. CASE Lifecycle!CancelQueued \/ Lifecycle!Requeue
  BY <1>3 DEF Lifecycle!CancelQueued, Lifecycle!Requeue, Lifecycle!TypeOK
<1>4. CASE UNCHANGED Lifecycle!vars
  BY <1>4 DEF Lifecycle!vars
<1> QED
  BY <1>1, <1>2, <1>3, <1>4 DEF Lifecycle!Next

(* A settled job is never active again.                                        *)
THEOREM SettledStays == Lifecycle!Spec => Lifecycle!SettledStaysSettled
<1>1. Lifecycle!TypeOK /\ [Lifecycle!Next]_Lifecycle!vars
        => [\A j \in Jobs : status[j] \in Lifecycle!Settled =>
              status'[j] \in {status[j], "failed"}]_Lifecycle!vars
  BY ContractKeepsSettled
<1>2. Lifecycle!TypeOK /\ [Lifecycle!Next]_Lifecycle!vars => Lifecycle!TypeOK'
  BY ContractTypeOK
<1>3. Lifecycle!Init => Lifecycle!TypeOK
  BY ContractInit
<1> QED
  BY <1>1, <1>2, <1>3, PTL DEF Lifecycle!Spec, Lifecycle!SettledStaysSettled

-------------------------------------------------------------------------------
(* Type correctness.                                                           *)

(* The variables have their types in every initial state. *)
LEMMA InitTypeOK == Init => TypeOK
<1> SUFFICES ASSUME Init PROVE TypeOK
  OBVIOUS
<1>1. QueuesOK
  BY QueueAssumption DEF QueueAssumption, Init, QueuesOK
<1>2. PausedOK
  BY DEF Init, PausedOK
<1> QED
  BY <1>1, <1>2, QueueAssumption DEF QueueAssumption, Init, TypeOK, Senders, TaskStates

(* Every step keeps the queues sequences of job ids, and the channel within    *)
(* its capacity: they only grow at the end, shrink at the head, or are emptied.*)
LEMMA NextQueuesOK == QueuesOK /\ [Next]_vars => QueuesOK'
<1> SUFFICES ASSUME QueuesOK, [Next]_vars PROVE QueuesOK'
  OBVIOUS
<1> USE DEF QueuesOK, table, controls, memory, queues, loopVars, env, KeepLoop
<1>1. ASSUME UNCHANGED <<queues, memQueue>> PROVE QueuesOK'
  BY <1>1
<1>2. ASSUME NEW j \in Jobs, Send(j) PROVE QueuesOK'
  <2>1. Append(channel, j) \in Seq(Jobs) /\ Len(Append(channel, j)) = Len(channel) + 1
    BY AppendProperties
  <2>2. Len(channel) \in Nat
    BY LenProperties
  <2>3. /\ Len(channel) < Capacity /\ channel' = Append(channel, j)
        /\ UNCHANGED <<pending, memQueue>>
    BY <1>2 DEF Send
  <2> QED
    BY <2>1, <2>2, <2>3, QueueAssumption DEF QueueAssumption
<1>3. ASSUME LoopReceive PROVE QueuesOK'
  <2>1. /\ channel # <<>> /\ channel' = Tail(channel)
        /\ pending' = Append(pending, Head(channel)) /\ UNCHANGED memQueue
    BY <1>3 DEF LoopReceive
  <2>2. /\ Head(channel) \in Jobs /\ Tail(channel) \in Seq(Jobs)
        /\ Len(Tail(channel)) = Len(channel) - 1
    BY <2>1, HeadTailProperties
  <2>3. Append(pending, Head(channel)) \in Seq(Jobs)
    BY <2>2, AppendProperties
  <2>4. Len(channel) \in Nat
    BY LenProperties
  <2> QED
    BY <2>1, <2>2, <2>3, <2>4, QueueAssumption DEF QueueAssumption
<1>4. ASSUME LoopDispatch \/ LoopDispatchError PROVE QueuesOK'
  BY <1>4, HeadTailProperties DEF LoopDispatch, LoopDispatchError
<1>5. ASSUME NEW j \in Jobs, SizeJob(j) PROVE QueuesOK'
  BY <1>5, AppendProperties DEF SizeJob
<1>6. ASSUME NEW j \in Jobs, AcquireMemory(j) PROVE QueuesOK'
  BY <1>6, HeadTailProperties DEF AcquireMemory
<1>7. ASSUME Crash PROVE QueuesOK'
  BY <1>7, QueueAssumption DEF Crash, QueueAssumption
<1>8. ASSUME NEW j \in Jobs, TaskStep(j) PROVE QueuesOK'
  BY <1>1, <1>5, <1>6, <1>8
  DEF TaskStep, SizeJobError, Claim, ClaimError, FinishJob, FinishJobError, WorkError,
      FailJob, FailJobError, ReleaseMemory
<1>9. ASSUME LoopStep PROVE QueuesOK'
  BY <1>1, <1>3, <1>4, <1>9 DEF LoopStep, LoopJoin, LoopTick, LoopCheck, LoopIdle
<1>10. ASSUME Control \/ Recover \/ Serve PROVE QueuesOK'
  BY <1>1, <1>10 DEF Control, CancelQueued, SetPaused, SetParallelism, Recover, Serve
<1> QED
  BY <1>1, <1>2, <1>7, <1>8, <1>9, <1>10
  DEF Next, vars, EnqueueRequest, EnqueueBatch, InsertJobs, DropRequest

(* Only the user's switch and a restart touch the pause flag. *)
LEMMA NextPausedOK == PausedOK /\ [Next]_vars => PausedOK'
<1> SUFFICES ASSUME PausedOK, [Next]_vars PROVE PausedOK'
  OBVIOUS
<1> USE DEF PausedOK, controls, KeepLoop
<1>1. ASSUME paused' = paused PROVE PausedOK'
  BY <1>1
<1>2. ASSUME NEW j \in Jobs, TaskStep(j) PROVE paused' = paused
  BY <1>2 DEF TaskStep, SizeJob, SizeJobError, AcquireMemory, Claim, ClaimError, FinishJob,
              FinishJobError, WorkError, FailJob, FailJobError
<1>3. ASSUME LoopStep PROVE paused' = paused
  BY <1>3 DEF LoopStep, LoopReceive, LoopJoin, LoopTick, LoopCheck, LoopDispatch,
              LoopDispatchError, LoopIdle
<1>4. ASSUME Control \/ Crash PROVE PausedOK'
  BY <1>4 DEF Control, CancelQueued, SetPaused, SetParallelism, Crash
<1> QED
  BY <1>1, <1>2, <1>3, <1>4
  DEF Next, vars, EnqueueRequest, EnqueueBatch, InsertJobs, Send, DropRequest, Recover, Serve

(* Every step of the queue keeps the types. *)
LEMMA NextTypeOK == TypeOK /\ [Next]_vars => TypeOK'
<1> SUFFICES ASSUME TypeOK, [Next]_vars PROVE TypeOK'
  OBVIOUS
<1>q. QueuesOK /\ QueuesOK' /\ PausedOK'
  BY NextQueuesOK, NextPausedOK DEF TypeOK
<1> USE QueueAssumption, <1>q
    DEF QueueAssumption, TypeOK, Senders, TaskStates, table, controls, memory, queues,
        loopVars, env, Fault, KeepLoop, Goto, ReleaseMemory
<1>1. ASSUME NEW S \in SUBSET Subtitles, NEW who \in {"handler", "scan"}, InsertJobs(S, who)
      PROVE  TypeOK'
  BY <1>1 DEF InsertJobs
<1>2. ASSUME NEW j \in Jobs, Send(j) \/ DropRequest(j) PROVE TypeOK'
  <2>1. /\ sender' = [sender EXCEPT ![j] = "none"]
        /\ UNCHANGED <<table, controls, life, loopVars, task, memory, crashes>>
    BY <1>2 DEF Send, DropRequest
  <2>2. faults' \in 0..MaxFaults
    BY <1>2 DEF Send, DropRequest
  <2> QED
    BY <2>1, <2>2
<1>3. ASSUME LoopReceive \/ LoopTick \/ LoopCheck \/ LoopIdle PROVE TypeOK'
  <2>1. CASE LoopReceive
    <3>1. /\ loop' = "check"
          /\ UNCHANGED <<table, controls, life, sender, limit, task, memory, env>>
      BY <2>1 DEF LoopReceive
    <3> QED
      BY <3>1
  <2>2. CASE LoopTick \/ LoopCheck \/ LoopIdle
    BY <2>2 DEF LoopTick, LoopCheck, LoopIdle
  <2> QED
    BY <1>3, <2>1, <2>2
<1>4. ASSUME NEW j \in Jobs, LoopJoin(j) PROVE TypeOK'
  BY <1>4 DEF LoopJoin
<1>5. ASSUME LoopDispatch \/ LoopDispatchError PROVE TypeOK'
  <2>1. /\ pending # <<>>
        /\ \/ task' = task
           \/ task' = [task EXCEPT ![Head(pending)] = "sizing"]
        /\ \/ UNCHANGED faults
           \/ Fault
        /\ UNCHANGED <<table, controls, life, sender, loopVars, memory, crashes>>
    BY <1>5 DEF LoopDispatch, LoopDispatchError
  <2>2. Head(pending) \in Jobs
    BY <2>1, HeadTailProperties DEF QueuesOK
  <2>3. task' \in [Jobs -> TaskStates]
    BY <2>1, <2>2
  <2>4. faults' \in 0..MaxFaults
    BY <2>1
  <2> QED
    BY <2>1, <2>3, <2>4
<1>6. ASSUME NEW j \in Jobs, TaskStep(j) PROVE TypeOK'
  <2>1. CASE SizeJob(j) \/ SizeJobError(j) \/ AcquireMemory(j)
    <3>1. task' \in [Jobs -> TaskStates]
      BY <2>1 DEF SizeJob, SizeJobError, AcquireMemory
    <3>2. memFree' \in Int
      BY <2>1 DEF SizeJob, SizeJobError, AcquireMemory
    <3>3. faults' \in 0..MaxFaults
      BY <2>1 DEF SizeJob, SizeJobError, AcquireMemory
    <3>4. UNCHANGED <<table, controls, life, sender, loopVars, crashes>>
      BY <2>1 DEF SizeJob, SizeJobError, AcquireMemory
    <3> QED
      BY <3>1, <3>2, <3>3, <3>4
  <2>2. CASE Claim(j) \/ ClaimError(j)
    BY <2>2 DEF Claim, ClaimError
  <2>3. CASE \E o \in Outcomes : FinishJob(j, o) \/ FinishJobError(j, o)
    BY <2>3 DEF FinishJob, FinishJobError
  <2>4. CASE WorkError(j) \/ FailJob(j) \/ FailJobError(j)
    BY <2>4 DEF WorkError, FailJob, FailJobError
  <2> QED
    BY <1>6, <2>1, <2>2, <2>3, <2>4 DEF TaskStep
<1>7. ASSUME Control PROVE TypeOK'
  BY <1>7 DEF Control, CancelQueued, SetPaused, SetParallelism
<1>8. ASSUME Crash PROVE TypeOK'
  BY <1>8 DEF Crash
<1>9. ASSUME Recover \/ Serve PROVE TypeOK'
  BY <1>9 DEF Recover, Serve
<1>10. ASSUME UNCHANGED vars PROVE TypeOK'
  BY <1>10 DEF vars
<1> QED
  BY <1>1, <1>2, <1>3, <1>4, <1>5, <1>6, <1>7, <1>8, <1>9, <1>10
  DEF Next, LoopStep, EnqueueRequest, EnqueueBatch

-------------------------------------------------------------------------------
(* The queue moves the jobs table only as JobLifecycle allows.                 *)

(* The transaction of a request or of a batch is an Insert of the contract: the *)
(* new ids had no row, and each gets a subtitle of its own.                     *)
LEMMA InsertRefines ==
    ASSUME TypeOK, NEW S \in SUBSET Subtitles, NEW who, InsertJobs(S, who)
    PROVE  \E new \in SUBSET Jobs : Lifecycle!Insert(new)
<1>1. PICK id \in [S -> {j \in Jobs : status[j] = "absent"}] :
          /\ \A s, t \in S : id[s] = id[t] => s = t
          /\ status' = [j \in Jobs |-> IF \E s \in S : id[s] = j THEN "queued" ELSE status[j]]
          /\ target' = [j \in Jobs |-> IF \E s \in S : id[s] = j
                                       THEN CHOOSE s \in S : id[s] = j ELSE target[j]]
  BY DEF InsertJobs
<1>2. \A s \in S : ~HasActive(s)
  BY DEF InsertJobs
<1> DEFINE new == {id[s] : s \in S}
<1>3. new \in SUBSET Jobs /\ \A j \in new : status[j] = "absent"
  BY <1>1
<1>4. \A j \in Jobs : (\E s \in S : id[s] = j) <=> j \in new
  OBVIOUS
<1>5. status' = [j \in Jobs |-> IF j \in new THEN "queued" ELSE status[j]]
  BY <1>1, <1>4
<1>6. ASSUME NEW s \in S PROVE target'[id[s]] = s
  <2>1. target'[id[s]] = CHOOSE t \in S : id[t] = id[s]
    BY <1>1, <1>3
  <2> QED
    BY <1>1, <2>1
<1>7. \A j \in Jobs \ new : target'[j] = target[j]
  BY <1>1, <1>4
<1>8. target' \in [Jobs -> Subtitles]
  <2>1. \A j \in new : target'[j] \in Subtitles
    BY <1>6
  <2>2. \A j \in Jobs \ new : target'[j] \in Subtitles
    BY <1>7 DEF TypeOK
  <2>3. target' = [j \in Jobs |-> target'[j]]
    BY <1>1
  <2> QED
    BY <2>1, <2>2, <2>3
<1>9. \A j \in new : Lifecycle!ActiveJobs(target'[j]) = {}
  BY <1>2, <1>6 DEF HasActive, Lifecycle!ActiveJobs
<1>10. \A i, j \in new : target'[i] = target'[j] => i = j
  BY <1>6
<1>11. Lifecycle!Insert(new)
  BY <1>3, <1>5, <1>7, <1>8, <1>9, <1>10 DEF Lifecycle!Insert
<1> QED
  BY <1>3, <1>11

(* Every step of the queue is a step of the contract or leaves the table alone. *)
LEMMA NextRefines ==
    TypeOK /\ RowsExist /\ WorkIsClaimed /\ [Next]_vars => [Lifecycle!Next]_Lifecycle!vars
<1> SUFFICES ASSUME TypeOK, RowsExist, WorkIsClaimed, [Next]_vars
             PROVE  [Lifecycle!Next]_Lifecycle!vars
  OBVIOUS
<1> USE DEF table, KeepLoop
<1>1. ASSUME NEW S \in SUBSET Subtitles, NEW who, InsertJobs(S, who) PROVE Lifecycle!Next
  BY <1>1, InsertRefines DEF Lifecycle!Next
<1>2. ASSUME UNCHANGED table PROVE UNCHANGED Lifecycle!vars
  BY <1>2 DEF Lifecycle!vars
<1>3. ASSUME NEW j \in Jobs, TaskStep(j) PROVE [Lifecycle!Next]_Lifecycle!vars
  <2>1. CASE Claim(j)
    <3>1. CASE status[j] = "queued"
      BY <2>1, <3>1 DEF Claim, Lifecycle!Next, Lifecycle!Start
    <3>2. CASE status[j] # "queued"
      BY <1>2, <2>1, <3>2 DEF Claim
    <3> QED
      BY <3>1, <3>2
  <2>2. ASSUME NEW o \in Outcomes, FinishJob(j, o) \/ FinishJobError(j, o) PROVE Lifecycle!Next
    <3>1. status[j] = "running" /\ status' = [status EXCEPT ![j] = o] /\ UNCHANGED target
      BY <2>2 DEF FinishJob, FinishJobError, WorkIsClaimed
    <3>2. Lifecycle!Finish(j, o)
      BY <3>1 DEF Lifecycle!Finish
    <3> QED
      BY <3>2 DEF Lifecycle!Next
  <2>3. CASE FailJob(j)
    <3>1. task[j] = "failing" /\ status' = [status EXCEPT ![j] = "failed"] /\ UNCHANGED target
      BY <2>3 DEF FailJob
    <3>2. status[j] # "absent"
      BY <3>1 DEF RowsExist, Known
    <3>3. Lifecycle!Fail(j)
      BY <3>1, <3>2 DEF Lifecycle!Fail
    <3> QED
      BY <3>3 DEF Lifecycle!Next
  <2>4. ASSUME \/ SizeJob(j) \/ SizeJobError(j) \/ AcquireMemory(j) \/ ClaimError(j)
               \/ WorkError(j) \/ FailJobError(j)
        PROVE  UNCHANGED table
    BY <2>4 DEF SizeJob, SizeJobError, AcquireMemory, ClaimError, WorkError, FailJobError
  <2> QED
    BY <1>2, <1>3, <2>1, <2>2, <2>3, <2>4 DEF TaskStep
<1>4. ASSUME CancelQueued PROVE Lifecycle!Next
  BY <1>4 DEF CancelQueued, Lifecycle!Next, Lifecycle!CancelQueued
<1>5. ASSUME Recover PROVE Lifecycle!Next
  BY <1>5 DEF Recover, Lifecycle!Next, Lifecycle!Requeue
<1>6. ASSUME LoopStep PROVE UNCHANGED table
  BY <1>6 DEF LoopStep, LoopReceive, LoopJoin, LoopTick, LoopCheck, LoopDispatch,
              LoopDispatchError, LoopIdle
<1>7. ASSUME \/ \E j \in Jobs : Send(j) \/ DropRequest(j)
             \/ SetPaused \/ \E n \in 1..MaxParallelism : SetParallelism(n)
             \/ Crash \/ Serve \/ UNCHANGED vars
      PROVE  UNCHANGED table
  BY <1>7 DEF Send, DropRequest, SetPaused, SetParallelism, Crash, Serve, vars
<1> QED
  BY <1>1, <1>2, <1>3, <1>4, <1>5, <1>6, <1>7
  DEF Next, Control, EnqueueRequest, EnqueueBatch

-------------------------------------------------------------------------------
(* The inductive invariant.                                                    *)

(* A row is never deleted. *)
LEMMA KnownGrows ==
    ASSUME TypeOK, [Lifecycle!Next]_Lifecycle!vars
    PROVE  Known \subseteq Known'
<1> SUFFICES ASSUME NEW j \in Jobs, status[j] # "absent" PROVE status'[j] # "absent"
  BY DEF Known
<1>1. ASSUME NEW new \in SUBSET Jobs, Lifecycle!Insert(new) PROVE status'[j] # "absent"
  BY <1>1 DEF Lifecycle!Insert
<1>2. ASSUME NEW k \in Jobs,
             \/ Lifecycle!Start(k) \/ Lifecycle!Fail(k)
             \/ \E o \in Lifecycle!Outcomes : Lifecycle!Finish(k, o)
      PROVE  status'[j] # "absent"
  BY <1>2 DEF Lifecycle!Start, Lifecycle!Fail, Lifecycle!Finish, TypeOK
<1>3. CASE Lifecycle!CancelQueued \/ Lifecycle!Requeue \/ UNCHANGED Lifecycle!vars
  BY <1>3 DEF Lifecycle!CancelQueued, Lifecycle!Requeue, Lifecycle!vars
<1> QED
  BY <1>1, <1>2, <1>3 DEF Lifecycle!Next

(* The ids in the channel, in the loop's queue and in the semaphore's keep      *)
(* having rows.                                                                 *)
LEMMA NextQueuesKnown ==
    ASSUME TypeOK, RowsExist, [Next]_vars, Known \subseteq Known'
    PROVE  channel' \in Seq(Known') /\ pending' \in Seq(Known') /\ memQueue' \in Seq(Known')
<1> DEFINE Goal == channel' \in Seq(Known') /\ pending' \in Seq(Known')
                                           /\ memQueue' \in Seq(Known')
<1>1. channel \in Seq(Known') /\ pending \in Seq(Known') /\ memQueue \in Seq(Known')
  BY SeqMonotonic DEF RowsExist
<1> USE DEF table, controls, memory, queues, loopVars, env, KeepLoop
<1>2. ASSUME UNCHANGED <<queues, memQueue>> PROVE Goal
  BY <1>1, <1>2
<1>3. ASSUME NEW j \in Jobs, Send(j) PROVE Goal
  <2>1. j \in Known'
    BY <1>3 DEF Send, RowsExist
  <2>2. Append(channel, j) \in Seq(Known')
    BY <1>1, <2>1, AppendProperties
  <2> QED
    BY <1>1, <1>3, <2>2 DEF Send
<1>4. ASSUME LoopReceive PROVE Goal
  <2>1. Head(channel) \in Known' /\ Tail(channel) \in Seq(Known')
    BY <1>1, <1>4, HeadTailProperties DEF LoopReceive
  <2>2. Append(pending, Head(channel)) \in Seq(Known')
    BY <1>1, <2>1, AppendProperties
  <2> QED
    BY <1>1, <1>4, <2>1, <2>2 DEF LoopReceive
<1>5. ASSUME LoopDispatch \/ LoopDispatchError PROVE Goal
  <2>1. Tail(pending) \in Seq(Known')
    BY <1>1, <1>5, HeadTailProperties DEF LoopDispatch, LoopDispatchError
  <2> QED
    BY <1>1, <1>5, <2>1 DEF LoopDispatch, LoopDispatchError
<1>6. ASSUME NEW j \in Jobs, SizeJob(j) PROVE Goal
  <2>1. j \in Known'
    BY <1>6 DEF SizeJob, RowsExist
  <2>2. Append(memQueue, j) \in Seq(Known')
    BY <1>1, <2>1, AppendProperties
  <2> QED
    BY <1>1, <1>6, <2>2 DEF SizeJob
<1>7. ASSUME NEW j \in Jobs, AcquireMemory(j) PROVE Goal
  <2>1. Tail(memQueue) \in Seq(Known')
    BY <1>1, <1>7, HeadTailProperties DEF AcquireMemory
  <2> QED
    BY <1>1, <1>7, <2>1 DEF AcquireMemory
<1>8. ASSUME Crash PROVE Goal
  BY <1>8, EmptySeq DEF Crash
<1>9. ASSUME NEW j \in Jobs, TaskStep(j) PROVE Goal
  BY <1>2, <1>6, <1>7, <1>9
  DEF TaskStep, SizeJobError, Claim, ClaimError, FinishJob, FinishJobError, WorkError,
      FailJob, FailJobError, ReleaseMemory
<1>10. ASSUME LoopStep PROVE Goal
  BY <1>2, <1>4, <1>5, <1>10 DEF LoopStep, LoopJoin, LoopTick, LoopCheck, LoopIdle
<1>11. ASSUME Control \/ Recover \/ Serve PROVE Goal
  BY <1>2, <1>11 DEF Control, CancelQueued, SetPaused, SetParallelism, Recover, Serve
<1> QED
  BY <1>2, <1>3, <1>8, <1>9, <1>10, <1>11
  DEF Next, vars, EnqueueRequest, EnqueueBatch, InsertJobs, DropRequest

(* Whoever announces or runs a job holds the id of an inserted row.             *)
LEMMA NextHoldersKnown ==
    ASSUME TypeOK, RowsExist, [Next]_vars, Known \subseteq Known',
           NEW j \in Jobs, sender'[j] # "none" \/ task'[j] # "none"
    PROVE  j \in Known'
<1> USE DEF TypeOK, table, controls, memory, queues, loopVars, env, KeepLoop, Goto
<1>1. ASSUME sender'[j] = sender[j] \/ sender'[j] = "none",
             task'[j] = task[j] \/ task'[j] = "none" \/ task[j] # "none" \/ j \in Known'
      PROVE  j \in Known'
  BY <1>1 DEF RowsExist
<1>2. ASSUME NEW S \in SUBSET Subtitles, NEW who, InsertJobs(S, who) PROVE j \in Known'
  <2>1. CASE status'[j] # "absent"
    BY <2>1 DEF Known
  <2>2. CASE status'[j] = "absent"
    BY <1>1, <1>2, <2>2 DEF InsertJobs
  <2> QED
    BY <2>1, <2>2
<1>3. ASSUME NEW k \in Jobs, Send(k) \/ DropRequest(k) PROVE j \in Known'
  BY <1>1, <1>3 DEF Send, DropRequest
<1>4. ASSUME LoopDispatch PROVE j \in Known'
  <2>1. Head(pending) \in Known'
    BY <1>4, HeadTailProperties DEF LoopDispatch, RowsExist
  <2>2. UNCHANGED sender /\ (task'[j] = task[j] \/ j = Head(pending))
    BY <1>4 DEF LoopDispatch
  <2> QED
    BY <1>1, <2>1, <2>2
<1>5. ASSUME LoopStep, ~LoopDispatch PROVE j \in Known'
  <2>1. sender' = sender /\ (task'[j] = task[j] \/ task'[j] = "none")
    BY <1>5 DEF LoopStep, LoopReceive, LoopJoin, LoopTick, LoopCheck, LoopDispatchError, LoopIdle
  <2> QED
    BY <1>1, <2>1
<1>6. ASSUME NEW k \in Jobs, TaskStep(k) PROVE j \in Known'
  <2>1. CASE AcquireMemory(k)
    <3>1. k \in Known'
      BY <2>1, HeadTailProperties DEF AcquireMemory, RowsExist
    <3>2. UNCHANGED sender /\ (task'[j] = task[j] \/ j = k)
      BY <2>1 DEF AcquireMemory
    <3> QED
      BY <1>1, <3>1, <3>2
  <2>2. CASE ~AcquireMemory(k)
    <3>1. UNCHANGED sender /\ (task'[j] = task[j] \/ task[j] # "none")
      BY <1>6, <2>2 DEF TaskStep, SizeJob, SizeJobError, Claim, ClaimError, FinishJob,
                        FinishJobError, WorkError, FailJob, FailJobError
    <3> QED
      BY <1>1, <3>1
  <2> QED
    BY <2>1, <2>2
<1>7. ASSUME Crash \/ Control \/ Serve \/ UNCHANGED vars PROVE j \in Known'
  BY <1>1, <1>7 DEF Crash, Control, CancelQueued, SetPaused, SetParallelism, Serve, vars
<1>8. ASSUME Recover PROVE j \in Known'
  <2>1. CASE status[j] = "absent"
    BY <1>1, <1>8, <2>1 DEF Recover
  <2>2. CASE status[j] # "absent"
    BY <2>2 DEF Known
  <2> QED
    BY <2>1, <2>2
<1> QED
  BY <1>2, <1>3, <1>4, <1>5, <1>6, <1>7, <1>8 DEF Next, EnqueueRequest, EnqueueBatch

(* Nothing is dispatched before the recovery: the loop idles, no task lives, no *)
(* id circulates and nobody waits for memory.                                  *)
LEMMA NextQuietStart ==
    ASSUME TypeOK, QuietStart, [Next]_vars
    PROVE  QuietStart'
<1> DEFINE Quiet == /\ loop = "select" /\ channel = <<>> /\ pending = <<>> /\ memQueue = <<>>
                    /\ \A j \in Jobs : task[j] = "none" /\ sender[j] = "none"
<1> SUFFICES ASSUME life' = "starting" PROVE Quiet'
  BY DEF QuietStart
<1> USE DEF TypeOK, table, controls, memory, queues, loopVars, env, KeepLoop
<1>1. CASE Crash
  BY <1>1 DEF Crash
<1>2. CASE life = "starting" /\ ~Crash
  <2>1. Quiet
    BY <1>2 DEF QuietStart
  <2>2. ASSUME NEW j \in Jobs PROVE ~TaskStep(j) /\ ~Send(j) /\ ~DropRequest(j)
    BY <2>1 DEF TaskStep, SizeJob, SizeJobError, AcquireMemory, Claim, ClaimError, FinishJob,
                FinishJobError, WorkError, FailJob, FailJobError, Send, DropRequest
  <2>3. ~LoopStep
    BY <1>2, <2>1 DEF LoopStep, LoopReceive, LoopJoin, LoopTick, LoopCheck, LoopDispatch,
                      LoopDispatchError, LoopIdle
  <2>4. UNCHANGED <<loop, channel, pending, memQueue, task, sender>>
    BY <1>2, <2>2, <2>3
    DEF Next, EnqueueRequest, EnqueueBatch, InsertJobs, Control, CancelQueued,
        SetPaused, SetParallelism, Recover, Serve, Serving, vars
  <2> QED
    BY <2>1, <2>4
<1>3. CASE life # "starting" /\ ~Crash
  <2>1. life' # "starting"
    BY <1>3
    DEF Next, EnqueueRequest, EnqueueBatch, InsertJobs, Send, DropRequest, Control, CancelQueued,
        SetPaused, SetParallelism, Recover, Serve, vars, LoopStep, LoopReceive, LoopJoin,
        LoopTick, LoopCheck, LoopDispatch, LoopDispatchError, LoopIdle, TaskStep, SizeJob,
        SizeJobError, AcquireMemory, Claim, ClaimError, FinishJob, FinishJobError, WorkError,
        FailJob, FailJobError
  <2> QED
    BY <2>1
<1> QED
  BY <1>1, <1>2, <1>3

(* A task that works or, without any fault, is about to fail owns a running     *)
(* row: nobody else touches a running row except a recovery, which finds no     *)
(* task.                                                                       *)
OwnsRow(j) ==
    /\ task[j] = "work" => status[j] = "running"
    /\ (faults = 0 /\ task[j] = "failing") => status[j] = "running"

(* That holds on: only its own task moves a running row on, until a fault.    *)
LEMMA NextOwnsRow ==
    ASSUME TypeOK, QuietStart, RowsExist, NEW j \in Jobs, OwnsRow(j), [Next]_vars
    PROVE  OwnsRow(j)'
<1> USE DEF TypeOK, OwnsRow, table, controls, memory, queues, loopVars, env, KeepLoop, Goto
<1>1. ASSUME status'[j] = status[j], faults' = faults,
             task'[j] = task[j] \/ task'[j] \notin {"work", "failing"}
      PROVE  OwnsRow(j)'
  BY <1>1
<1>f. ASSUME status'[j] = status[j], task'[j] = task[j], Fault PROVE OwnsRow(j)'
  <2>1. faults' # 0
    BY <1>f DEF Fault
  <2> QED
    BY <1>f, <2>1
<1>2. ASSUME NEW S \in SUBSET Subtitles, NEW who, InsertJobs(S, who) PROVE OwnsRow(j)'
  <2>1. CASE status[j] = "absent"
    BY <1>2, <2>1 DEF InsertJobs, RowsExist, Known
  <2>2. CASE status[j] # "absent"
    BY <1>1, <1>2, <2>2 DEF InsertJobs
  <2> QED
    BY <2>1, <2>2
<1>3. ASSUME NEW k \in Jobs, Send(k) \/ DropRequest(k) PROVE OwnsRow(j)'
  <2>1. UNCHANGED <<status, task>> /\ (UNCHANGED faults \/ Fault)
    BY <1>3 DEF Send, DropRequest
  <2> QED
    BY <1>1, <1>f, <2>1
<1>4. ASSUME LoopStep PROVE OwnsRow(j)'
  <2>1. CASE LoopDispatchError
    BY <1>f, <2>1 DEF LoopDispatchError
  <2>2. CASE ~LoopDispatchError
    <3>1. UNCHANGED <<status, faults>>
      BY <1>4, <2>2 DEF LoopStep, LoopReceive, LoopJoin, LoopTick, LoopCheck, LoopDispatch, LoopIdle
    <3>2. task'[j] = task[j] \/ task'[j] \notin {"work", "failing"}
      BY <1>4, <2>2 DEF LoopStep, LoopReceive, LoopJoin, LoopTick, LoopCheck, LoopDispatch, LoopIdle
    <3> QED
      BY <1>1, <3>1, <3>2
  <2> QED
    BY <2>1, <2>2
<1>5. ASSUME NEW k \in Jobs, TaskStep(k), k # j PROVE OwnsRow(j)'
  <2>1. status'[j] = status[j] /\ task'[j] = task[j]
    BY <1>5 DEF TaskStep, SizeJob, SizeJobError, AcquireMemory, Claim, ClaimError, FinishJob,
                FinishJobError, WorkError, FailJob, FailJobError
  <2>2. UNCHANGED faults \/ Fault
    BY <1>5 DEF TaskStep, SizeJob, SizeJobError, AcquireMemory, Claim, ClaimError, FinishJob,
                FinishJobError, WorkError, FailJob, FailJobError
  <2> QED
    BY <1>1, <1>f, <2>1, <2>2
<1>6. ASSUME TaskStep(j) PROVE OwnsRow(j)'
  <2>1. ASSUME Fault, task'[j] # "work" PROVE OwnsRow(j)'
    <3>1. faults' # 0
      BY <2>1 DEF Fault
    <3> QED
      BY <2>1, <3>1
  <2>2. CASE SizeJob(j) \/ AcquireMemory(j) \/ FailJob(j) \/ \E o \in Outcomes : FinishJob(j, o)
    <3>1. task'[j] \notin {"work", "failing"}
      BY <2>2 DEF SizeJob, AcquireMemory, FailJob, FinishJob
    <3> QED
      BY <3>1
  <2>3. CASE Claim(j)
    BY <2>3 DEF Claim
  <2>4. CASE WorkError(j)
    BY <2>4 DEF WorkError
  <2>5. CASE \/ SizeJobError(j) \/ ClaimError(j) \/ FailJobError(j)
             \/ \E o \in Outcomes : FinishJobError(j, o)
    <3>1. Fault /\ task'[j] # "work"
      BY <2>5 DEF SizeJobError, ClaimError, FailJobError, FinishJobError
    <3> QED
      BY <2>1, <3>1
  <2> QED
    BY <1>6, <2>2, <2>3, <2>4, <2>5 DEF TaskStep
<1>7. ASSUME Control PROVE OwnsRow(j)'
  <2>1. CASE CancelQueued
    BY <2>1 DEF CancelQueued
  <2>2. CASE SetPaused \/ \E n \in 1..MaxParallelism : SetParallelism(n)
    <3>1. UNCHANGED <<status, task>> /\ (UNCHANGED faults \/ Fault)
      BY <2>2 DEF SetPaused, SetParallelism
    <3> QED
      BY <1>1, <1>f, <3>1
  <2> QED
    BY <1>7, <2>1, <2>2 DEF Control
<1>8. ASSUME Crash \/ Recover PROVE OwnsRow(j)'
  BY <1>8 DEF Crash, Recover, QuietStart
<1>9. ASSUME Serve \/ UNCHANGED vars PROVE OwnsRow(j)'
  BY <1>1, <1>9 DEF Serve, vars
<1> QED
  BY <1>2, <1>3, <1>4, <1>5, <1>6, <1>7, <1>8, <1>9 DEF Next, EnqueueRequest, EnqueueBatch

(* Ids move from the sender to the channel, to the loop and to a task, and are  *)
(* never in two of these places: inserts and recoveries announce only ids that *)
(* are in none.                                                                *)
LEMMA NextDispatchedOnce ==
    ASSUME TypeOK, RowsExist, QuietStart, WaitersWait, DispatchedOnce, [Next]_vars
    PROVE  DispatchedOnce'
<1> USE DEF TypeOK, QueuesOK, table, controls, memory, queues, loopVars, env, KeepLoop, Goto
<1>q. ASSUME UNCHANGED queues
      PROVE  /\ IsInjective(channel)' = IsInjective(channel)
             /\ IsInjective(pending)' = IsInjective(pending)
             /\ \A j : Contains(channel, j)' = Contains(channel, j)
             /\ \A j : Contains(pending, j)' = Contains(pending, j)
  BY <1>q DEF IsInjective, Contains
<1>1. ASSUME UNCHANGED queues,
             \A j \in Jobs : sender'[j] = sender[j] \/ sender'[j] = "none",
             \A j \in Jobs : task[j] = "none" => task'[j] = "none"
      PROVE  DispatchedOnce'
  BY <1>1, <1>q DEF DispatchedOnce
<1>2. ASSUME NEW j, Contains(channel, j) \/ Contains(pending, j) PROVE j \in Known
  BY <1>2 DEF Contains, RowsExist
<1>3. ASSUME NEW S \in SUBSET Subtitles, NEW who, InsertJobs(S, who) PROVE DispatchedOnce'
  <2>1. UNCHANGED <<queues, task>>
    BY <1>3 DEF InsertJobs
  <2>2. ASSUME NEW j \in Jobs
        PROVE  sender'[j] = sender[j] \/ (j \notin Known /\ task[j] = "none")
    BY <1>3 DEF InsertJobs, RowsExist, Known
  <2> QED
    BY <1>q, <1>2, <2>1, <2>2 DEF DispatchedOnce
<1>4. ASSUME NEW j \in Jobs, Send(j) PROVE DispatchedOnce'
  <2>1. /\ channel' = Append(channel, j) /\ sender' = [sender EXCEPT ![j] = "none"]
        /\ sender[j] # "none" /\ UNCHANGED <<pending, task>>
    BY <1>4 DEF Send
  <2>2. ~Contains(channel, j) /\ ~Contains(pending, j) /\ task[j] = "none"
    BY <2>1 DEF DispatchedOnce
  <2>3. IsInjective(channel') /\ \A k : Contains(channel', k) <=> (Contains(channel, k) \/ k = j)
    BY <2>1, <2>2, AppendDistinct, AppendOccurs DEF DispatchedOnce
  <2>4. IsInjective(pending') /\ \A k : Contains(pending', k) <=> Contains(pending, k)
    BY <2>1 DEF DispatchedOnce, IsInjective, Contains
  <2> HIDE DEF Contains, IsInjective
  <2> QED
    BY <2>1, <2>2, <2>3, <2>4 DEF DispatchedOnce
<1>5. ASSUME LoopReceive PROVE DispatchedOnce'
  <2> DEFINE j == Head(channel)
  <2>1. /\ channel # <<>> /\ channel' = Tail(channel) /\ pending' = Append(pending, j)
        /\ UNCHANGED <<sender, task>>
    BY <1>5 DEF LoopReceive
  <2>2. /\ j \in Jobs /\ Contains(channel, j) /\ ~Contains(Tail(channel), j)
        /\ IsInjective(Tail(channel))
        /\ \A k : Contains(channel, k) <=> (Contains(Tail(channel), k) \/ k = j)
    BY <2>1, TailOccurs DEF DispatchedOnce
  <2>3. ~Contains(pending, j) /\ sender[j] = "none" /\ task[j] = "none"
    BY <2>2 DEF DispatchedOnce
  <2>4. IsInjective(pending') /\ \A k : Contains(pending', k) <=> (Contains(pending, k) \/ k = j)
    BY <2>1, <2>2, <2>3, AppendDistinct, AppendOccurs DEF DispatchedOnce
  <2>5. IsInjective(channel') /\ \A k : Contains(channel', k) <=> Contains(Tail(channel), k)
    BY <2>1, <2>2 DEF IsInjective, Contains
  <2> HIDE DEF j, Contains, IsInjective
  <2> QED
    BY <2>1, <2>2, <2>3, <2>4, <2>5 DEF DispatchedOnce
<1>6. ASSUME LoopDispatch \/ LoopDispatchError PROVE DispatchedOnce'
  <2> DEFINE j == Head(pending)
  <2>1. /\ pending # <<>> /\ pending' = Tail(pending) /\ UNCHANGED <<sender, channel>>
        /\ \A k \in Jobs : task'[k] = task[k] \/ k = j
    BY <1>6 DEF LoopDispatch, LoopDispatchError
  <2>2. /\ j \in Jobs /\ Contains(pending, j) /\ ~Contains(Tail(pending), j)
        /\ IsInjective(Tail(pending))
        /\ \A k : Contains(pending, k) <=> (Contains(Tail(pending), k) \/ k = j)
    BY <2>1, TailOccurs DEF DispatchedOnce
  <2>3. IsInjective(pending') /\ \A k : Contains(pending', k) <=> Contains(Tail(pending), k)
    BY <2>1, <2>2 DEF IsInjective, Contains
  <2>4. IsInjective(channel') /\ \A k : Contains(channel', k) <=> Contains(channel, k)
    BY <2>1 DEF DispatchedOnce, IsInjective, Contains
  <2> HIDE DEF j, Contains, IsInjective
  <2> QED
    BY <2>1, <2>2, <2>3, <2>4 DEF DispatchedOnce
<1>7. ASSUME NEW j \in Jobs, TaskStep(j) PROVE DispatchedOnce'
  <2>1. UNCHANGED <<queues, sender>> /\ \A k \in Jobs : k # j => task'[k] = task[k]
    BY <1>7 DEF TaskStep, SizeJob, SizeJobError, AcquireMemory, Claim, ClaimError, FinishJob,
                FinishJobError, WorkError, FailJob, FailJobError
  <2>2. task[j] # "none"
    <3>1. CASE AcquireMemory(j)
      BY <3>1, TailOccurs DEF AcquireMemory, WaitersWait
    <3>2. CASE ~AcquireMemory(j)
      BY <1>7, <3>2 DEF TaskStep, SizeJob, SizeJobError, Claim, ClaimError, FinishJob,
                        FinishJobError, WorkError, FailJob, FailJobError
    <3> QED
      BY <3>1, <3>2
  <2> QED
    BY <1>1, <2>1, <2>2
<1>8. ASSUME NEW j \in Jobs, DropRequest(j) PROVE DispatchedOnce'
  BY <1>1, <1>8 DEF DropRequest
<1>9. ASSUME \/ \E j \in Jobs : LoopJoin(j)
             \/ LoopTick \/ LoopCheck \/ LoopIdle
             \/ Control \/ Serve \/ UNCHANGED vars
      PROVE  DispatchedOnce'
  <2>1. UNCHANGED <<queues, sender>> /\ \A k \in Jobs : task[k] = "none" => task'[k] = "none"
    BY <1>9 DEF LoopJoin, LoopTick, LoopCheck, LoopIdle, Control, CancelQueued, SetPaused,
                SetParallelism, Serve, vars
  <2> QED
    BY <1>1, <2>1
<1>10. ASSUME Crash \/ Recover PROVE DispatchedOnce'
  <2>1. channel' = <<>> /\ pending' = <<>> /\ \A k \in Jobs : task'[k] = "none"
    BY <1>10 DEF Crash, Recover, QuietStart
  <2>2. \A k : ~Contains(channel', k) /\ ~Contains(pending', k)
    BY <2>1 DEF Contains
  <2>3. IsInjective(channel') /\ IsInjective(pending')
    BY <2>1 DEF IsInjective
  <2> HIDE DEF Contains, IsInjective
  <2> QED
    BY <2>1, <2>2, <2>3 DEF DispatchedOnce
<1> QED
  BY <1>3, <1>4, <1>5, <1>6, <1>7, <1>8, <1>9, <1>10
  DEF Next, LoopStep, EnqueueRequest, EnqueueBatch

(* Only a task that waits for memory is in the queue of the semaphore, and it   *)
(* leaves the queue when it gets its permits.                                  *)
LEMMA NextWaitersWait ==
    ASSUME TypeOK, QuietStart, DispatchedOnce, WaitersWait, [Next]_vars
    PROVE  WaitersWait'
<1> USE DEF TypeOK, QueuesOK, table, controls, memory, queues, loopVars, env, KeepLoop, Goto
<1>1. ASSUME UNCHANGED memQueue,
             \A j \in Jobs : task[j] = "memwait" => task'[j] = "memwait"
      PROVE  WaitersWait'
  <2>1. /\ IsInjective(memQueue)' = IsInjective(memQueue)
        /\ \A j : Contains(memQueue, j)' = Contains(memQueue, j)
    BY <1>1 DEF IsInjective, Contains
  <2> QED
    BY <1>1, <2>1 DEF WaitersWait
<1>2. ASSUME NEW j \in Jobs, SizeJob(j) PROVE WaitersWait'
  <2>1. /\ memQueue' = Append(memQueue, j) /\ task[j] = "sizing"
        /\ task' = [task EXCEPT ![j] = "memwait"]
    BY <1>2 DEF SizeJob
  <2>2. ~Contains(memQueue, j)
    BY <2>1 DEF WaitersWait
  <2>3. IsInjective(memQueue') /\ \A k : Contains(memQueue', k) <=> (Contains(memQueue, k) \/ k = j)
    BY <2>1, <2>2, AppendDistinct, AppendOccurs DEF WaitersWait
  <2> HIDE DEF Contains, IsInjective
  <2> QED
    BY <2>1, <2>3 DEF WaitersWait
<1>3. ASSUME NEW j \in Jobs, AcquireMemory(j) PROVE WaitersWait'
  <2>1. /\ memQueue # <<>> /\ j = Head(memQueue) /\ memQueue' = Tail(memQueue)
        /\ \A k \in Jobs : k # j => task'[k] = task[k]
    BY <1>3 DEF AcquireMemory
  <2>2. /\ IsInjective(Tail(memQueue)) /\ ~Contains(Tail(memQueue), j)
        /\ \A k : Contains(Tail(memQueue), k) => Contains(memQueue, k)
    BY <2>1, TailOccurs DEF WaitersWait
  <2>3. IsInjective(memQueue') /\ \A k : Contains(memQueue', k) <=> Contains(Tail(memQueue), k)
    BY <2>1, <2>2 DEF IsInjective, Contains
  <2> HIDE DEF Contains, IsInjective
  <2> QED
    BY <2>1, <2>2, <2>3 DEF WaitersWait
<1>4. ASSUME NEW j \in Jobs, TaskStep(j) PROVE WaitersWait'
  <2>1. CASE ~SizeJob(j) /\ ~AcquireMemory(j)
    <3>1. UNCHANGED memQueue /\ task[j] # "memwait" /\ \A k \in Jobs : k # j => task'[k] = task[k]
      BY <1>4, <2>1 DEF TaskStep, SizeJobError, Claim, ClaimError, FinishJob, FinishJobError,
                        WorkError, FailJob, FailJobError, ReleaseMemory
    <3> QED
      BY <1>1, <3>1
  <2> QED
    BY <1>2, <1>3, <2>1
<1>5. ASSUME LoopStep PROVE WaitersWait'
  <2>1. CASE LoopDispatch
    <3>1. task[Head(pending)] = "none" /\ Head(pending) \in Jobs
      BY <2>1, TailOccurs DEF LoopDispatch, DispatchedOnce
    <3>2. UNCHANGED memQueue /\ \A k \in Jobs : k # Head(pending) => task'[k] = task[k]
      BY <2>1 DEF LoopDispatch
    <3> QED
      BY <1>1, <3>1, <3>2
  <2>2. CASE ~LoopDispatch
    <3>1. UNCHANGED memQueue /\ \A k \in Jobs : task[k] = "memwait" => task'[k] = "memwait"
      BY <1>5, <2>2 DEF LoopStep, LoopReceive, LoopJoin, LoopTick, LoopCheck, LoopDispatchError,
                        LoopIdle
    <3> QED
      BY <1>1, <3>1
  <2> QED
    BY <2>1, <2>2
<1>6. ASSUME Crash PROVE WaitersWait'
  BY <1>6 DEF Crash, WaitersWait, Contains, IsInjective
<1>7. ASSUME \/ \E S \in SUBSET Subtitles, who \in {"handler", "scan"} : InsertJobs(S, who)
             \/ \E j \in Jobs : Send(j) \/ DropRequest(j)
             \/ Control \/ Recover \/ Serve \/ UNCHANGED vars
      PROVE  WaitersWait'
  <2>1. UNCHANGED <<memQueue, task>>
    BY <1>7 DEF InsertJobs, Send, DropRequest, Control, CancelQueued, SetPaused, SetParallelism,
                Recover, Serve, vars
  <2> QED
    BY <1>1, <2>1
<1> QED
  BY <1>4, <1>5, <1>6, <1>7 DEF Next, EnqueueRequest, EnqueueBatch

(* Without a fault, an active row always has somebody who brings it to its end: *)
(* every step hands the id on, settles the row, or starts the process anew.    *)
LEMMA NextNoOrphan ==
    ASSUME TypeOK, QuietStart, WorkIsClaimed, WaitersWait, NoOrphan, [Next]_vars
    PROVE  NoOrphan'
<1> SUFFICES ASSUME faults' = 0, life' # "starting", NEW j \in Jobs
             PROVE  Owned(j)'
  BY DEF NoOrphan
<1> USE DEF TypeOK, QueuesOK, table, controls, memory, queues, loopVars, env, KeepLoop, Goto
<1>f. ~Fault
  BY DEF Fault
<1>1. CASE Recover
  BY <1>1 DEF Recover, Owned
<1>2. CASE ~Recover /\ [Next]_vars
  <2>1. faults = 0 /\ life # "starting"
    BY <1>2, <1>f
    DEF Next, EnqueueRequest, EnqueueBatch, InsertJobs, Send, DropRequest, Control, CancelQueued,
        SetPaused, SetParallelism, Serve, Crash, vars, LoopStep, LoopReceive, LoopJoin,
        LoopTick, LoopCheck, LoopDispatch, LoopDispatchError, LoopIdle, TaskStep, SizeJob,
        SizeJobError, AcquireMemory, Claim, ClaimError, FinishJob, FinishJobError, WorkError,
        FailJob, FailJobError
  <2>o. Owned(j)
    BY <2>1 DEF NoOrphan
  <2>2. ASSUME UNCHANGED <<channel, pending>>, sender'[j] = sender[j] \/ sender'[j] # "none",
               status'[j] = status[j] \/ status'[j] \notin Active,
               task'[j] = task[j] \/ task[j] \in {"none", "ended"}
        PROVE  Owned(j)'
    BY <2>o, <2>2 DEF Owned, Contains
  <2>3. ASSUME NEW S \in SUBSET Subtitles, NEW who \in {"handler", "scan"}, InsertJobs(S, who)
        PROVE  Owned(j)'
    <3>1. /\ UNCHANGED <<channel, pending, task>>
          /\ \/ sender'[j] = who /\ status'[j] = "queued"
             \/ sender'[j] = sender[j] /\ status'[j] = status[j]
      BY <2>3 DEF InsertJobs
    <3> QED
      BY <2>2, <3>1 DEF Owned
  <2>4. ASSUME NEW k \in Jobs, Send(k) PROVE Owned(j)'
    <3>1. /\ channel' = Append(channel, k) /\ UNCHANGED <<pending, status, task>>
          /\ j # k => sender'[j] = sender[j]
      BY <2>4 DEF Send
    <3>2. Contains(channel', j) <=> (Contains(channel, j) \/ j = k)
      BY <3>1, AppendOccurs
    <3>3. Contains(pending', j) <=> Contains(pending, j)
      BY <3>1 DEF Contains
    <3> QED
      BY <2>o, <3>1, <3>2, <3>3 DEF Owned
  <2>5. ASSUME LoopReceive PROVE Owned(j)'
    <3>1. /\ channel # <<>> /\ channel' = Tail(channel) /\ pending' = Append(pending, Head(channel))
          /\ UNCHANGED <<status, sender, task>>
      BY <2>5 DEF LoopReceive
    <3>2. Head(channel) \in Jobs
      BY <3>1, TailOccurs
    <3>3. Contains(channel, j) => Contains(Tail(channel), j) \/ j = Head(channel)
      BY <3>1, TailOccurs
    <3>4. Contains(pending', j) <=> (Contains(pending, j) \/ j = Head(channel))
      BY <3>1, <3>2, AppendOccurs
    <3>5. Contains(channel', j) <=> Contains(Tail(channel), j)
      BY <3>1 DEF Contains
    <3> QED
      BY <2>o, <3>1, <3>3, <3>4, <3>5 DEF Owned
  <2>6. ASSUME LoopDispatch PROVE Owned(j)'
    <3>1. /\ pending # <<>> /\ pending' = Tail(pending) /\ UNCHANGED <<status, sender, channel>>
          /\ task' = IF status[Head(pending)] = "queued"
                     THEN [task EXCEPT ![Head(pending)] = "sizing"] ELSE task
      BY <2>6 DEF LoopDispatch
    <3>2. Head(pending) \in Jobs
      BY <3>1, TailOccurs
    <3>3. Contains(pending, j) => Contains(Tail(pending), j) \/ j = Head(pending)
      BY <3>1, TailOccurs
    <3>4. /\ Contains(pending', j) <=> Contains(Tail(pending), j)
          /\ Contains(channel', j) <=> Contains(channel, j)
      BY <3>1 DEF Contains
    <3>5. CASE j = Head(pending) /\ status[j] = "queued"
      BY <3>1, <3>2, <3>5 DEF Owned
    <3>6. CASE ~(j = Head(pending) /\ status[j] = "queued")
      BY <2>o, <3>1, <3>2, <3>3, <3>4, <3>6 DEF Owned
    <3> QED
      BY <3>5, <3>6
  <2>7. ASSUME NEW k \in Jobs, TaskStep(k), k # j PROVE Owned(j)'
    <3>1. UNCHANGED <<queues, sender>> /\ task'[j] = task[j] /\ status'[j] = status[j]
      BY <2>7 DEF TaskStep, SizeJob, SizeJobError, AcquireMemory, Claim, ClaimError, FinishJob,
                  FinishJobError, WorkError, FailJob, FailJobError
    <3> QED
      BY <2>2, <3>1
  <2>8. ASSUME TaskStep(j) PROVE Owned(j)'
    <3>1. CASE SizeJob(j)
      BY <2>o, <3>1 DEF SizeJob, Owned
    <3>2. CASE AcquireMemory(j)
      <4>1. task[j] = "memwait"
        BY <3>2, TailOccurs DEF AcquireMemory, WaitersWait
      <4> QED
        BY <2>o, <3>2, <4>1 DEF AcquireMemory, Owned
    <3>3. CASE Claim(j)
      BY <2>o, <3>3 DEF Claim, Owned
    <3>4. CASE WorkError(j)
      BY <3>4 DEF WorkError, WorkIsClaimed, Owned
    <3>5. CASE FailJob(j) \/ \E o \in Outcomes : FinishJob(j, o)
      BY <3>5 DEF FailJob, FinishJob, Owned
    <3> QED
      BY <1>f, <2>8, <3>1, <3>2, <3>3, <3>4, <3>5
      DEF TaskStep, SizeJobError, ClaimError, FinishJobError, FailJobError
  <2>9. ASSUME \/ \E k \in Jobs : LoopJoin(k)
               \/ LoopTick \/ LoopCheck \/ LoopIdle
               \/ Control \/ Serve \/ UNCHANGED vars
        PROVE  Owned(j)'
    <3>1. /\ UNCHANGED <<queues, sender>>
          /\ status'[j] = status[j] \/ status'[j] \notin Active
          /\ task'[j] = task[j] \/ task[j] = "ended"
      BY <2>9 DEF LoopJoin, LoopTick, LoopCheck, LoopIdle, Control, CancelQueued, SetPaused,
                  SetParallelism, Serve, vars
    <3> QED
      BY <2>2, <3>1
  <2> QED
    BY <1>2, <1>f, <2>3, <2>4, <2>5, <2>6, <2>7, <2>8, <2>9
    DEF Next, LoopStep, EnqueueRequest, EnqueueBatch, LoopDispatchError, DropRequest, Crash
<1> QED
  BY <1>1, <1>2

(* The invariant holds initially ... *)
LEMMA InitQueueInv == Init => QueueInv
<1> SUFFICES ASSUME Init PROVE QueueInv
  OBVIOUS
<1>1. OneActivePerSubtitle
  BY DEF Init, OneActivePerSubtitle, Lifecycle!OneActivePerSubtitle
<1>2. RowsExist
  BY EmptySeq DEF Init, RowsExist
<1>3. WorkIsClaimed /\ QuietStart /\ FailureOwnsRow
  BY DEF Init, WorkIsClaimed, QuietStart, FailureOwnsRow
<1>4. DispatchedOnce /\ WaitersWait
  BY DEF Init, DispatchedOnce, WaitersWait, Contains, IsInjective
<1> QED
  BY <1>1, <1>2, <1>3, <1>4, InitTypeOK DEF QueueInv

(* ... and is kept by every step. *)
LEMMA NextQueueInv == QueueInv /\ [Next]_vars => QueueInv'
<1> SUFFICES ASSUME QueueInv, [Next]_vars PROVE QueueInv'
  OBVIOUS
<1> USE DEF QueueInv
<1>1. TypeOK'
  BY NextTypeOK
<1>2. [Lifecycle!Next]_Lifecycle!vars
  BY NextRefines
<1>3. OneActivePerSubtitle'
  <2>1. Lifecycle!TypeOK
    BY DEF TypeOK, Lifecycle!TypeOK
  <2> QED
    BY <1>2, <2>1, ContractKeepsOneActive DEF OneActivePerSubtitle
<1>4. Known \subseteq Known'
  BY <1>2, KnownGrows
<1>5. RowsExist'
  BY <1>4, NextQueuesKnown, NextHoldersKnown DEF RowsExist
<1>6. QuietStart'
  BY NextQuietStart
<1>7. WorkIsClaimed' /\ FailureOwnsRow'
  <2>1. \A j \in Jobs : OwnsRow(j)
    BY DEF OwnsRow, WorkIsClaimed, FailureOwnsRow
  <2>2. \A j \in Jobs : OwnsRow(j)'
    BY <2>1, NextOwnsRow
  <2> QED
    BY <2>2 DEF OwnsRow, WorkIsClaimed, FailureOwnsRow
<1>8. DispatchedOnce' /\ WaitersWait'
  BY NextDispatchedOnce, NextWaitersWait
<1> QED
  BY <1>1, <1>3, <1>5, <1>6, <1>7, <1>8

-------------------------------------------------------------------------------
(* Theorems.                                                                   *)

(* Every reachable state of the queue satisfies the inductive invariant: types, *)
(* one active job per subtitle, rows behind every id, tasks that own their rows,*)
(* and every id in one place.                                                  *)
THEOREM QueueInvariant == Spec => []QueueInv
BY InitQueueInv, NextQueueInv, PTL DEF Spec

(* The queue implements the jobs table's contract.                             *)
THEOREM QueueImplementsLifecycle == Spec => ImplementsLifecycle
<1>1. Init => Lifecycle!Init
  BY QueueAssumption DEF QueueAssumption, Init, Lifecycle!Init
<1>2. QueueInv /\ [Next]_vars => [Lifecycle!Next]_Lifecycle!vars
  BY NextRefines DEF QueueInv
<1> QED
  BY <1>1, <1>2, QueueInvariant, PTL DEF Spec, ImplementsLifecycle, Lifecycle!Spec

(* No subtitle is ever converted by two tasks at once: both would own a running *)
(* row of it.                                                                  *)
THEOREM ExclusiveConversion == Spec => []ExclusiveWork
<1>1. QueueInv => ExclusiveWork
  BY DEF QueueInv, OneActivePerSubtitle, Lifecycle!OneActivePerSubtitle, WorkIsClaimed,
         ExclusiveWork
<1> QED
  BY <1>1, QueueInvariant, PTL

(* While no database error and no dropped request occurs, no row the process    *)
(* inserted or recovered is forgotten.                                         *)
THEOREM NothingOrphaned == Spec => []NoOrphan
<1>1. Init => NoOrphan
  BY DEF Init, NoOrphan
<1>2. QueueInv /\ NoOrphan /\ [Next]_vars => NoOrphan'
  BY NextNoOrphan DEF QueueInv
<1> QED
  BY <1>1, <1>2, QueueInvariant, PTL DEF Spec

(* As long as no database error and no dropped request occurs, a step that      *)
(* settles a job is the last one to write its row.                             *)
LEMMA NextKeepsOutcome ==
    ASSUME QueueInv, [Next]_vars, faults' = 0, NEW j \in Jobs, status[j] \in Lifecycle!Settled
    PROVE  status'[j] = status[j]
<1> USE DEF QueueInv, TypeOK, table, KeepLoop
<1>1. ASSUME NEW S \in SUBSET Subtitles, NEW who, InsertJobs(S, who) PROVE status'[j] = status[j]
  BY <1>1 DEF InsertJobs
<1>2. ASSUME NEW k \in Jobs, TaskStep(k) PROVE status'[j] = status[j]
  <2>1. CASE FailJob(k)
    <3>1. faults = 0
      BY <2>1 DEF FailJob, env
    <3>2. status[k] = "running"
      BY <2>1, <3>1 DEF FailJob, FailureOwnsRow
    <3> QED
      BY <2>1, <3>2 DEF FailJob
  <2>2. CASE \E o \in Outcomes : FinishJob(k, o) \/ FinishJobError(k, o)
    BY <2>2 DEF FinishJob, FinishJobError, WorkIsClaimed
  <2>3. CASE Claim(k)
    BY <2>3 DEF Claim
  <2>4. ASSUME \/ SizeJob(k) \/ SizeJobError(k) \/ AcquireMemory(k) \/ ClaimError(k)
               \/ WorkError(k) \/ FailJobError(k)
        PROVE  UNCHANGED status
    BY <2>4 DEF SizeJob, SizeJobError, AcquireMemory, ClaimError, WorkError, FailJobError
  <2> QED
    BY <1>2, <2>1, <2>2, <2>3, <2>4 DEF TaskStep
<1>3. ASSUME CancelQueued \/ Recover PROVE status'[j] = status[j]
  BY <1>3 DEF CancelQueued, Recover
<1>4. ASSUME LoopStep PROVE UNCHANGED status
  BY <1>4 DEF LoopStep, LoopReceive, LoopJoin, LoopTick, LoopCheck, LoopDispatch,
              LoopDispatchError, LoopIdle
<1>5. ASSUME \/ \E k \in Jobs : Send(k) \/ DropRequest(k)
             \/ SetPaused \/ \E n \in 1..MaxParallelism : SetParallelism(n)
             \/ Crash \/ Serve \/ UNCHANGED vars
      PROVE  UNCHANGED status
  BY <1>5 DEF Send, DropRequest, SetPaused, SetParallelism, Crash, Serve, vars
<1> QED
  BY <1>1, <1>2, <1>3, <1>4, <1>5 DEF Next, Control, EnqueueRequest, EnqueueBatch

(* Without a fault in this process life, an outcome is final.                  *)
THEOREM OutcomesAreFinal == Spec => OutcomeIsFinal
<1>1. QueueInv /\ [Next]_vars
        => [faults' = 0 => \A j \in Jobs :
              status[j] \in Lifecycle!Settled => status'[j] = status[j]]_vars
  BY NextKeepsOutcome
<1> QED
  BY <1>1, QueueInvariant, PTL DEF Spec, OutcomeIsFinal

-------------------------------------------------------------------------------
(* The memory budget.                                                          *)

Permits == [j \in Jobs |-> Cost[target[j]]]

(* The fold that adds the permits up computes their sum. *)
LEMMA HeldIsSum == IsFiniteSet(Holding) => Held = Sum(Permits, Holding)
<1> SUFFICES ASSUME IsFiniteSet(Holding) PROVE Held = Sum(Permits, Holding)
  OBVIOUS
<1> DEFINE S == Holding
           Adds(g) == g = [T \in SUBSET S |->
                             IF T = {} THEN 0
                             ELSE LET j == CHOOSE j \in T : TRUE
                                  IN Cost[target[j]] + g[T \ {j}]]
<1>1. Held = (CHOOSE g : Adds(g))[S]
  BY Zenon DEF Held, MapThenSumSet, MapThenFoldSet
<1>2. \A T \in SUBSET S : T # {} => First(T) \in Jobs
  BY DEF Holding, First
<1>3. IsFiniteSet(S)
  OBVIOUS
<1> HIDE DEF S
<1>4. ASSUME NEW g PROVE Adds(g) <=> IsSum(g, Permits, S)
  <2>1. ASSUME NEW T \in SUBSET S
        PROVE  (IF T = {} THEN 0
                ELSE LET j == CHOOSE j \in T : TRUE IN Cost[target[j]] + g[T \ {j}])
               = IF T = {} THEN 0 ELSE Permits[First(T)] + g[T \ {First(T)}]
    <3>1. T # {} => Permits[First(T)] = Cost[target[First(T)]]
      BY <1>2 DEF Permits
    <3> QED
      BY <3>1 DEF First
  <2> QED
    BY <2>1 DEF IsSum
<1> HIDE DEF Adds
<1>5. PICK g : IsSum(g, Permits, S)
  BY <1>3, SumExists
<1>6. Adds(CHOOSE h : Adds(h))
  BY <1>4, <1>5
<1>7. IsSum(CHOOSE h : Adds(h), Permits, S)
  BY <1>4, <1>6
<1>8. Held = Sum(Permits, S)
  BY <1>1, <1>3, <1>7, SumPart
<1> QED
  BY <1>8 DEF S

(* Finitely many tasks hold permits, and those make the budget up with the free ones. *)
BudgetInv == IsFiniteSet(Holding) /\ MemoryBudget

(* The permits of a set of tasks, and of one task less. *)
LEMMA PermitsAdd ==
    ASSUME TypeOK, NEW S \in SUBSET Jobs, IsFiniteSet(S)
    PROVE  /\ Sum(Permits, S) \in Nat
           /\ \A j \in S : /\ Cost[target[j]] \in 1..MemoryMb
                           /\ Sum(Permits, S \ {j}) \in Nat
                           /\ Sum(Permits, S) = Sum(Permits, S \ {j}) + Cost[target[j]]
<1>1. \A j \in S : Permits[j] = Cost[target[j]] /\ Permits[j] \in 1..MemoryMb /\ Permits[j] \in Nat
  BY QueueAssumption DEF QueueAssumption, Permits, TypeOK
<1>2. /\ Sum(Permits, S) \in Nat
      /\ \A j \in S : /\ Sum(Permits, S \ {j}) \in Nat
                      /\ Sum(Permits, S) = Sum(Permits, S \ {j}) + Permits[j]
  BY <1>1, SumOneMore
<1> QED
  BY <1>1, <1>2

(* What the budget says of the sum of permits, in a state and after a step. *)
LEMMA BudgetIsSum ==
    BudgetInv <=> /\ IsFiniteSet(Holding)
                  /\ memFree >= 0 /\ memFree + Sum(Permits, Holding) = MemoryMb
  BY HeldIsSum DEF BudgetInv, MemoryBudget

(* Steps that move no permit, take those of one task, and give them back. *)
LEMMA BudgetMoves ==
    ASSUME TypeOK, TypeOK', BudgetInv, \A j \in Holding \union Holding' : target'[j] = target[j],
           \/ Holding' = Holding /\ memFree' = memFree
           \/ \E j \in Holding' \ Holding :
                 /\ Holding = Holding' \ {j} /\ Cost[target[j]] <= memFree
                 /\ memFree' = memFree - Cost[target[j]]
           \/ \E j \in Holding \ Holding' :
                 /\ Holding' = Holding \ {j} /\ memFree' = memFree + Cost[target[j]]
    PROVE  BudgetInv'
<1>1. /\ IsFiniteSet(Holding) /\ memFree >= 0 /\ memFree + Sum(Permits, Holding) = MemoryMb
      /\ memFree \in Int /\ memFree' \in Int
      /\ Holding \in SUBSET Jobs /\ Holding' \in SUBSET Jobs /\ MemoryMb \in Nat
  BY BudgetIsSum, QueueAssumption DEF QueueAssumption, TypeOK, Holding
<1>2. IsFiniteSet(Holding')
  BY <1>1, FS_Subset, FS_AddElement
<1>3. Sum(Permits', Holding') = Sum(Permits, Holding')
  <2>1. \A j \in Holding' : Permits[j] = Permits'[j]
    BY <1>1 DEF Permits
  <2> QED
    BY <1>2, <2>1, SumSame
<1>4. SUFFICES memFree' >= 0 /\ memFree' + Sum(Permits, Holding') = MemoryMb
  <2>1. (BudgetInv <=> /\ IsFiniteSet(Holding)
                       /\ memFree >= 0 /\ memFree + Sum(Permits, Holding) = MemoryMb)'
    BY BudgetIsSum, PTL
  <2> QED
    BY <1>2, <1>3, <1>4, <2>1
<1>5. CASE Holding' = Holding /\ memFree' = memFree
  BY <1>1, <1>5
<1>6. ASSUME NEW j \in Holding' \ Holding, Holding = Holding' \ {j}, Cost[target[j]] <= memFree,
             memFree' = memFree - Cost[target[j]]
      PROVE  memFree' >= 0 /\ memFree' + Sum(Permits, Holding') = MemoryMb
  <2>1. /\ Cost[target[j]] \in 1..MemoryMb /\ Sum(Permits, Holding) \in Nat
        /\ Sum(Permits, Holding') = Sum(Permits, Holding) + Cost[target[j]]
    BY <1>1, <1>2, <1>6, PermitsAdd
  <2> QED
    BY <1>1, <1>6, <2>1
<1>7. ASSUME NEW j \in Holding \ Holding', Holding' = Holding \ {j},
             memFree' = memFree + Cost[target[j]]
      PROVE  memFree' >= 0 /\ memFree' + Sum(Permits, Holding') = MemoryMb
  <2>1. /\ Cost[target[j]] \in 1..MemoryMb /\ Sum(Permits, Holding') \in Nat
        /\ Sum(Permits, Holding) = Sum(Permits, Holding') + Cost[target[j]]
    BY <1>1, <1>7, PermitsAdd
  <2> QED
    BY <1>1, <1>7, <2>1
<1> QED
  BY <1>5, <1>6, <1>7

(* Only the semaphore gives permits, to the task at the head of its queue, and every *)
(* way out of a task that has some gives them back.                                  *)
LEMMA NextBudget == QueueInv /\ BudgetInv /\ [Next]_vars => BudgetInv'
<1> SUFFICES ASSUME QueueInv, BudgetInv, [Next]_vars PROVE BudgetInv'
  OBVIOUS
<1>1. TypeOK /\ TypeOK'
  BY NextTypeOK DEF QueueInv
<1>2. ASSUME UNCHANGED memFree, \A j \in Holding : target'[j] = target[j],
             \A j \in Jobs : task'[j] = task[j] \/ {task[j], task'[j]} \cap {"claim", "work"} = {}
      PROVE  BudgetInv'
  <2>1. Holding' = Holding
    BY <1>2 DEF Holding
  <2> QED
    BY <1>1, <1>2, <2>1, BudgetMoves
<1> USE DEF TypeOK, QueuesOK, table, controls, memory, queues, loopVars, env, KeepLoop, Goto
<1>3. ASSUME NEW S \in SUBSET Subtitles, NEW who, InsertJobs(S, who) PROVE BudgetInv'
  <2>1. UNCHANGED <<memFree, task>>
    BY <1>3 DEF InsertJobs
  <2>2. \A j \in Holding : target'[j] = target[j]
    BY <1>3 DEF InsertJobs, Holding, QueueInv, RowsExist, Known
  <2> QED
    BY <1>2, <2>1, <2>2
<1>4. ASSUME NEW j \in Jobs, Send(j) \/ DropRequest(j) \/ LoopJoin(j) PROVE BudgetInv'
  <2>1. UNCHANGED <<memFree, target>>
    BY <1>4 DEF Send, DropRequest, LoopJoin
  <2>2. \A k \in Jobs : task'[k] = task[k] \/ {task[k], task'[k]} \cap {"claim", "work"} = {}
    BY <1>1, <1>4 DEF Send, DropRequest, LoopJoin
  <2> QED
    BY <1>2, <2>1, <2>2
<1>5. ASSUME LoopDispatch \/ LoopDispatchError PROVE BudgetInv'
  <2>1. UNCHANGED <<memFree, target>> /\ pending # <<>>
    BY <1>5 DEF LoopDispatch, LoopDispatchError
  <2>2. Head(pending) \in Jobs /\ task[Head(pending)] = "none"
    BY <1>1, <2>1, TailOccurs DEF QueueInv, DispatchedOnce
  <2>3. \A k \in Jobs : task'[k] = task[k] \/ {task[k], task'[k]} \cap {"claim", "work"} = {}
    BY <1>1, <1>5, <2>2 DEF LoopDispatch, LoopDispatchError
  <2> QED
    BY <1>2, <2>1, <2>3
<1>6. ASSUME NEW j \in Jobs,
             \/ SizeJob(j) \/ SizeJobError(j) \/ FailJob(j) \/ FailJobError(j)
             \/ (Claim(j) /\ status[j] = "queued")
      PROVE  BudgetInv'
  <2>1. UNCHANGED <<memFree, target>>
    BY <1>6 DEF SizeJob, SizeJobError, FailJob, FailJobError, Claim
  <2>2. \A k \in Jobs \ {j} : task'[k] = task[k]
    BY <1>1, <1>6 DEF SizeJob, SizeJobError, FailJob, FailJobError, Claim
  <2>3. j \in Holding <=> j \in Holding'
    BY <1>1, <1>6 DEF SizeJob, SizeJobError, FailJob, FailJobError, Claim, Holding
  <2>4. Holding' = Holding
    BY <2>2, <2>3 DEF Holding
  <2> QED
    BY <1>1, <2>1, <2>4, BudgetMoves
<1>7. ASSUME NEW j \in Jobs, AcquireMemory(j) PROVE BudgetInv'
  <2>1. /\ UNCHANGED target /\ memQueue # <<>> /\ Head(memQueue) = j
        /\ Cost[target[j]] <= memFree /\ memFree' = memFree - Cost[target[j]]
        /\ task' = [task EXCEPT ![j] = "claim"]
    BY <1>7 DEF AcquireMemory
  <2>2. task[j] = "memwait"
    BY <1>1, <2>1, TailOccurs DEF QueueInv, WaitersWait
  <2>3. j \in Holding' \ Holding /\ Holding = Holding' \ {j}
    BY <1>1, <2>1, <2>2 DEF Holding
  <2> QED
    BY <1>1, <2>1, <2>3, BudgetMoves
<1>8. ASSUME NEW j \in Jobs,
             \/ (Claim(j) /\ status[j] # "queued") \/ ClaimError(j) \/ WorkError(j)
             \/ \E o \in Outcomes : FinishJob(j, o) \/ FinishJobError(j, o)
      PROVE  BudgetInv'
  <2>1. /\ UNCHANGED target /\ memFree' = memFree + Cost[target[j]]
        /\ task[j] \in {"claim", "work"}
    BY <1>8 DEF Claim, ClaimError, WorkError, FinishJob, FinishJobError, ReleaseMemory
  <2>2. PICK next \in {"ended", "failing"} : task' = [task EXCEPT ![j] = next]
    BY <1>8 DEF Claim, ClaimError, WorkError, FinishJob, FinishJobError
  <2>3. j \in Holding \ Holding' /\ Holding' = Holding \ {j}
    BY <1>1, <2>1, <2>2 DEF Holding
  <2> QED
    BY <1>1, <2>1, <2>3, BudgetMoves
<1>9. ASSUME LoopReceive \/ LoopTick \/ LoopCheck \/ LoopIdle \/ Control \/ Recover \/ Serve
             \/ UNCHANGED vars
      PROVE  BudgetInv'
  <2>1. UNCHANGED <<memFree, target, task>>
    BY <1>9 DEF LoopReceive, LoopTick, LoopCheck, LoopIdle, Control, CancelQueued, SetPaused,
                SetParallelism, Recover, Serve, vars
  <2> QED
    BY <1>2, <2>1
<1>10. ASSUME Crash PROVE BudgetInv'
  <2>1. Holding' = {} /\ memFree' = MemoryMb
    BY <1>10 DEF Crash, Holding
  <2>2. (BudgetInv <=> /\ IsFiniteSet(Holding)
                       /\ memFree >= 0 /\ memFree + Sum(Permits, Holding) = MemoryMb)'
    BY BudgetIsSum, PTL
  <2>3. Sum(Permits', {}) = 0 /\ IsFiniteSet({})
    BY SumEmpty, FS_EmptySet
  <2>4. MemoryMb \in Nat
    BY QueueAssumption DEF QueueAssumption
  <2> QED
    BY <2>1, <2>2, <2>3, <2>4
<1>11. ASSUME NEW j \in Jobs, TaskStep(j) PROVE BudgetInv'
  BY <1>6, <1>7, <1>8, <1>11 DEF TaskStep
<1> QED
  BY <1>3, <1>4, <1>5, <1>9, <1>10, <1>11 DEF Next, LoopStep, EnqueueRequest, EnqueueBatch

(* However tasks end, crash, are cancelled or overtake each other, the permits that are *)
(* out and those that are free make the memory budget up, for any number of tasks of    *)
(* any size.                                                                            *)
THEOREM BudgetKept == Spec => []MemoryBudget
<1>1. Init => BudgetInv
  <2> SUFFICES ASSUME Init PROVE BudgetInv
    OBVIOUS
  <2>1. Holding = {} /\ memFree = MemoryMb /\ MemoryMb \in Nat
    BY QueueAssumption DEF QueueAssumption, Init, Holding
  <2>2. Sum(Permits, {}) = 0 /\ IsFiniteSet({})
    BY SumEmpty, FS_EmptySet
  <2> QED
    BY <2>1, <2>2, BudgetIsSum
<1>2. BudgetInv => MemoryBudget
  BY DEF BudgetInv
<1> QED
  BY <1>1, <1>2, NextBudget, QueueInvariant, PTL DEF Spec

===============================================================================
