---------------------------- MODULE FontWorkerPool ----------------------------
(***************************************************************************)
(* The pool of Python font workers: requests wait for the index of a free  *)
(* worker, lease it, write a line to the process and read a line back,     *)
(* with a time limit, a restart of the process after any failure of the    *)
(* exchange, and one retry.                                                *)
(*                                                                         *)
(* A worker process (font_worker.py, main) answers its input in order with *)
(* the id it was given; it may hang, die, or print a line that is no       *)
(* answer.  What an operation computes is not modelled: a value is named   *)
(* by the request it belongs to.                                           *)
(***************************************************************************)
EXTENDS Integers, FiniteSets, SequencesExt

CONSTANTS Requests,   \* calls of FontWorkerPool::request, one id each
          Workers,    \* indexes into the pool
          MaxFaults   \* bound on what the environment does: hangs, deaths, noise, delays

NoWorker == "no worker"

ASSUME PoolAssumption ==
    /\ IsFiniteSet(Workers) /\ Workers # {}
    /\ NoWorker \notin Workers
    /\ MaxFaults \in Nat

VARIABLES
    point,      \* control point of the task of each request
    attempt,    \* its attempt, 0 or 1
    index,      \* the worker it leased
    result,     \* what its task returned
    caller,     \* whether the caller still waits for the task
    waiting,    \* tasks queued on the mutex of the availability channel, FIFO
    available,  \* the availability channel: indexes of free workers
    proc,       \* the process of each worker
    inp, out,   \* its pipes
    faults      \* bounded counter

tasks    == <<point, attempt, index, result, caller>>
pool     == <<waiting, available>>
process  == <<proc, inp, out>>
vars     == <<tasks, pool, process, faults>>

None     == <<"none">>
Failed   == <<"failed">>   \* transport or restart error
Points   == {"idle", "waiting", "write", "read", "kill", "spawn", "done"}
Answers(r) == {<<r, "value">>, <<r, "error">>}   \* a value, or an operation error
Lines      == (UNION {Answers(r) : r \in Requests}) \union {<<"noise">>}

Init ==
    /\ point = [r \in Requests |-> "idle"]
    /\ attempt = [r \in Requests |-> 0]
    /\ index = [r \in Requests |-> NoWorker]
    /\ result = [r \in Requests |-> None]
    /\ caller = [r \in Requests |-> "none"]
    /\ waiting = <<>>
    /\ available \in Bijection(1..Cardinality(Workers), Workers)
    /\ proc = [w \in Workers |-> "up"]
    /\ inp = [w \in Workers |-> <<>>]
    /\ out = [w \in Workers |-> <<>>]
    /\ faults = 0

Fault == faults < MaxFaults /\ faults' = faults + 1

-------------------------------------------------------------------------------
(* request: the work is a task of its own, which outlives its caller. *)

Ask(r) ==
    /\ point[r] = "idle"
    /\ point' = [point EXCEPT ![r] = "waiting"]
    /\ caller' = [caller EXCEPT ![r] = "waits"]
    /\ waiting' = Append(waiting, r)
    /\ UNCHANGED <<attempt, index, result, available, process, faults>>

(* Mutant of DropCaller: the caller owns the lease. *)
DropWithLease(r) ==
    /\ caller[r] = "waits"
    /\ point[r] \in {"write", "read", "kill", "spawn"}
    /\ caller' = [caller EXCEPT ![r] = "gone"]
    /\ available' = Append(available, index[r])
    /\ UNCHANGED <<point, attempt, index, result, waiting, process, faults>>

DropCaller(r) ==
    /\ caller[r] = "waits"
    /\ point[r] # "done"
    /\ caller' = [caller EXCEPT ![r] = "gone"]
    /\ UNCHANGED <<point, attempt, index, result, pool, process, faults>>

(* The first task in the queue receives the first free index: a lease. *)
Lease(r) ==
    /\ point[r] = "waiting"
    /\ waiting # <<>> /\ Head(waiting) = r
    /\ available # <<>>
    /\ waiting' = Tail(waiting)
    /\ available' = Tail(available)
    /\ index' = [index EXCEPT ![r] = Head(available)]
    /\ point' = [point EXCEPT ![r] = "write"]
    /\ UNCHANGED <<attempt, result, caller, process, faults>>

(* Mutant of Return: only a result gives the worker back. *)
ReturnOnSuccess(r, value) ==
    /\ point' = [point EXCEPT ![r] = "done"]
    /\ result' = [result EXCEPT ![r] = value]
    /\ index' = [index EXCEPT ![r] = NoWorker]
    /\ available' = IF value = <<r, "value">> THEN Append(available, index[r]) ELSE available

(* The task returns, and dropping the WorkerLease sends the index back. *)
Return(r, value) ==
    /\ point' = [point EXCEPT ![r] = "done"]
    /\ result' = [result EXCEPT ![r] = value]
    /\ index' = [index EXCEPT ![r] = NoWorker]
    /\ available' = Append(available, index[r])

-------------------------------------------------------------------------------
(* One attempt: send_and_read under the time limit. *)

Goto(r, p) == point' = [point EXCEPT ![r] = p]

Write(r) ==
    /\ point[r] = "write"
    /\ IF proc[index[r]] = "dead"
       THEN Goto(r, "kill") /\ UNCHANGED inp
       ELSE Goto(r, "read") /\ inp' = [inp EXCEPT ![index[r]] = Append(@, r)]
    /\ UNCHANGED <<attempt, index, result, caller, pool, proc, out, faults>>

(* Mutant of Read: whatever line comes is the answer. *)
ReadUnchecked(r) ==
    /\ point[r] = "read"
    /\ LET w == index[r] IN
          /\ out[w] # <<>>
          /\ out' = [out EXCEPT ![w] = Tail(@)]
          /\ Return(r, Head(out[w]))
    /\ UNCHANGED <<attempt, caller, waiting, proc, inp, faults>>

(* A line that is no answer, or the answer to another request, is a transport failure. *)
Read(r) ==
    /\ point[r] = "read"
    /\ LET w == index[r] IN
          /\ out[w] # <<>>
          /\ out' = [out EXCEPT ![w] = Tail(@)]
          /\ \/ /\ Head(out[w]) \in Answers(r)
                /\ Return(r, Head(out[w]))
             \/ /\ Head(out[w]) \notin Answers(r)
                /\ Goto(r, "kill")
                /\ UNCHANGED <<result, index, available>>
    /\ UNCHANGED <<attempt, caller, waiting, proc, inp, faults>>

EndOfFile(r) ==
    /\ point[r] = "read"
    /\ out[index[r]] = <<>> /\ proc[index[r]] = "dead"
    /\ Goto(r, "kill")
    /\ UNCHANGED <<attempt, index, result, caller, pool, process, faults>>

(* The time limit passes while nothing is there to read; an answer may come later. *)
Timeout(r) ==
    /\ point[r] \in {"write", "read"}
    /\ point[r] = "read" => out[index[r]] = <<>>
    /\ Fault
    /\ Goto(r, "kill")
    /\ UNCHANGED <<attempt, index, result, caller, pool, process>>

(* A process that hangs answers nothing: the limit is all that ends the wait. *)
TimeoutHung(r) ==
    /\ point[r] = "read"
    /\ proc[index[r]] \in {"hung", "dying"} /\ out[index[r]] = <<>>
    /\ Goto(r, "kill")
    /\ UNCHANGED <<attempt, index, result, caller, pool, process, faults>>

-------------------------------------------------------------------------------
(* restart: start_kill, a bounded wait, and a new process with new pipes. *)

(* "dying": killed, but not gone within five seconds; its pipes are still open. *)
KillWorker(r) ==
    /\ point[r] = "kill"
    /\ \/ proc' = [proc EXCEPT ![index[r]] = "dead"] /\ UNCHANGED faults
       \/ proc' = [proc EXCEPT ![index[r]] = "dying"] /\ proc[index[r]] # "dead" /\ Fault
    /\ Goto(r, "spawn")
    /\ UNCHANGED <<attempt, index, result, caller, pool, inp, out>>

(* Mutant of SpawnWorker: no retry. *)
SpawnForNext(r) ==
    /\ point[r] = "spawn"
    /\ proc' = [proc EXCEPT ![index[r]] = "up"]
    /\ inp' = [inp EXCEPT ![index[r]] = <<>>]
    /\ out' = [out EXCEPT ![index[r]] = <<>>]
    /\ Return(r, Failed)
    /\ UNCHANGED <<attempt, caller, waiting, faults>>

(* The restart comes before the test of the attempt: the next lease finds a new process. *)
SpawnWorker(r) ==
    /\ point[r] = "spawn"
    /\ proc' = [proc EXCEPT ![index[r]] = "up"]
    /\ inp' = [inp EXCEPT ![index[r]] = <<>>]
    /\ out' = [out EXCEPT ![index[r]] = <<>>]
    /\ IF attempt[r] = 1
       THEN Return(r, Failed) /\ UNCHANGED attempt
       ELSE /\ attempt' = [attempt EXCEPT ![r] = 1]
            /\ Goto(r, "write")
            /\ UNCHANGED <<index, result, available>>
    /\ UNCHANGED <<caller, waiting, faults>>

(* The old process and its pipes stay in the pool. *)
SpawnError(r) ==
    /\ point[r] = "spawn"
    /\ Fault
    /\ Return(r, Failed)
    /\ UNCHANGED <<attempt, caller, waiting, process>>

-------------------------------------------------------------------------------
(* The worker processes. *)

Work(w) ==
    /\ proc[w] = "up"
    /\ inp[w] # <<>>
    /\ inp' = [inp EXCEPT ![w] = Tail(@)]
    /\ \E kind \in {"value", "error"} :
          out' = [out EXCEPT ![w] = Append(@, <<Head(inp[w]), kind>>)]
    /\ UNCHANGED <<tasks, pool, proc, faults>>

(* A library prints a line of its own instead of an answer. *)
Noise(w) ==
    /\ proc[w] = "up"
    /\ inp[w] # <<>>
    /\ Fault
    /\ inp' = [inp EXCEPT ![w] = Tail(@)]
    /\ out' = [out EXCEPT ![w] = Append(@, <<"noise">>)]
    /\ UNCHANGED <<tasks, pool, proc>>

Vanish(w) ==
    /\ proc[w] = "dying"
    /\ proc' = [proc EXCEPT ![w] = "dead"]
    /\ UNCHANGED <<tasks, pool, inp, out, faults>>

Stop(w) ==
    /\ proc[w] = "up"
    /\ Fault
    /\ \E how \in {"hung", "dead"} : proc' = [proc EXCEPT ![w] = how]
    /\ UNCHANGED <<tasks, pool, inp, out>>

-------------------------------------------------------------------------------
TaskNext(r) ==
    \/ Lease(r) \/ Write(r) \/ Read(r) \/ EndOfFile(r) \/ TimeoutHung(r)
    \/ KillWorker(r) \/ SpawnWorker(r)

Next ==
    \/ \E r \in Requests : Ask(r) \/ DropCaller(r) \/ Timeout(r) \/ SpawnError(r)
    \/ \E r \in Requests : TaskNext(r)
    \/ \E w \in Workers : Work(w) \/ Noise(w) \/ Stop(w) \/ Vanish(w)

(* Tasks run, a process that is not hung answers, and the time limit is a timer. *)
Fairness ==
    /\ \A r \in Requests : WF_vars(TaskNext(r))
    /\ \A w \in Workers : WF_vars(Work(w))

Spec     == Init /\ [][Next]_vars
LiveSpec == Spec /\ Fairness

-------------------------------------------------------------------------------
(* Properties. *)

Leased == {r \in Requests : point[r] \in {"write", "read", "kill", "spawn"}}

TypeOK ==
    /\ point \in [Requests -> Points]
    /\ attempt \in [Requests -> {0, 1}]
    /\ index \in [Requests -> Workers \union {NoWorker}]
    /\ \A r \in Requests : (r \in Leased) <=> (index[r] # NoWorker)
    /\ result \in [Requests -> {None, Failed} \union Lines]
    /\ caller \in [Requests -> {"none", "waits", "gone"}]
    /\ waiting \in Seq(Requests)
    /\ available \in Seq(Workers)
    /\ proc \in [Workers -> {"up", "hung", "dying", "dead"}]
    /\ inp \in [Workers -> Seq(Requests)]
    /\ out \in [Workers -> Seq(Lines)]
    /\ faults \in 0..MaxFaults

(* Each worker is either once in the availability channel or leased by one task: no exit *)
(* of a request, and no caller that goes away, loses or doubles an index.                *)
LeasesConserved ==
    /\ IsInjective(available)
    /\ \A r, q \in Leased : index[r] = index[q] => r = q
    /\ \A r \in Leased : ~Contains(available, index[r])
    /\ \A w \in Workers : Contains(available, w) \/ \E r \in Leased : index[r] = w

(* Who waits for a worker is in the queue, and once. *)
WaitersQueue ==
    /\ IsInjective(waiting)
    /\ \A r \in Requests : Contains(waiting, r) <=> point[r] = "waiting"

(* A request gets its own answer or an error, although an answer may arrive after the    *)
(* time limit and a process that was killed may still hold open pipes with old lines.    *)
AnswerIsOwn == \A r \in Requests : result[r] \in {None, Failed} \union Answers(r)

Alive(w)  == proc[w] \in {"up", "hung"}
Silent(w) == inp[w] = <<>> /\ out[w] = <<>>

(* The worker of a task holds the one question, or the one line, of the task that reads. *)
HeldQuiet(r) ==
    LET w == index[r] IN
    Alive(w) => /\ point[r] # "spawn"
                /\ point[r] = "write" => Silent(w)
                /\ point[r] = "read" =>
                      \/ inp[w] = <<r>> /\ out[w] = <<>>
                      \/ inp[w] = <<>> /\ \E l \in Lines : out[w] = <<l>>

(* A live worker that is free has empty pipes: whatever a request left unread was thrown *)
(* away with the process, so that the next one does not fail because of it.              *)
PipesQuiet ==
    /\ \A w \in Workers : (Contains(available, w) /\ Alive(w)) => Silent(w)
    /\ \A r \in Leased : HeldQuiet(r)

(* The invariant of the pool (request and request_once): types, queue, leases and pipes. *)
PoolInv == TypeOK /\ WaitersQueue /\ LeasesConserved /\ PipesQuiet

(* A stray line comes first, or the process is not up. *)
Spoilt(r) ==
    LET w == index[r] IN
    \/ point[r] \in {"kill", "spawn"} \/ proc[w] # "up"
    \/ point[r] = "read" /\ out[w] # <<>> /\ Head(out[w]) \notin Answers(r)

(* What a task has met so far, each time another fault: one to be at its second attempt, *)
(* one more to find its worker spoilt again.                                             *)
FaultsCounted ==
    /\ \A w \in Workers : proc[w] # "up" => faults >= 1
    /\ \A r \in Requests :
          /\ attempt[r] = 1 => faults >= 1
          /\ point[r] \in {"idle", "waiting"} => attempt[r] = 0
          /\ r \in Leased /\ Spoilt(r) => faults >= attempt[r] + 1

(* No single hang, death, delay or stray line makes a request fail (test                  *)
(* worker_crash_restarts_and_retries_once has one worker and one death): it takes two,   *)
(* those the task met on its way.                                                        *)
OneFaultIsMasked ==
    /\ FaultsCounted
    /\ \A r \in Requests : result[r] = Failed => faults >= 2

(* Every request comes to an end, whatever the workers do and the callers do.            *)
RequestsEnd == \A r \in Requests : (point[r] = "waiting") ~> (point[r] = "done")
===============================================================================
