-------------------------- MODULE FontWorkerPoolProofs --------------------------
(***************************************************************************)
(* Proofs about FontWorkerPool, for every number of requests, workers and  *)
(* faults.                                                                 *)
(***************************************************************************)
EXTENDS FontWorkerPool, DataProofs

USE DEF tasks, pool, process, Goto, Return, Fault

(* Initially every worker is free, up and silent. *)
LEMMA InitOK == Init => PoolInv /\ AnswerIsOwn /\ OneFaultIsMasked
<1> SUFFICES ASSUME Init PROVE PoolInv /\ AnswerIsOwn /\ OneFaultIsMasked
  OBVIOUS
<1> USE PoolAssumption DEF PoolAssumption, Init
<1>1. available \in [1..Cardinality(Workers) -> Workers] /\ Cardinality(Workers) \in Nat
  BY FS_CardinalityType DEF Bijection, Injection, Surjection
<1>2. available \in Seq(Workers) /\ Len(available) = Cardinality(Workers)
  BY <1>1, SeqDef, LenProperties
<1>3. IsInjective(available) /\ \A w \in Workers : Contains(available, w)
  BY <1>1, <1>2 DEF Bijection, Injection, Surjection, IsInjective, Contains
<1>4. Leased = {}
  BY DEF Leased
<1>5. TypeOK
  BY <1>2, <1>4, EmptySeq DEF TypeOK, Points
<1>6. WaitersQueue
  BY DEF WaitersQueue, IsInjective, Contains
<1>7. LeasesConserved
  BY <1>3, <1>4 DEF LeasesConserved
<1>8. PipesQuiet
  BY <1>2, <1>4 DEF PipesQuiet, Silent, Alive
<1>9. AnswerIsOwn
  BY DEF AnswerIsOwn
<1>10. OneFaultIsMasked
  BY <1>4 DEF OneFaultIsMasked, FaultsCounted, None, Failed
<1> QED
  BY <1>5, <1>6, <1>7, <1>8, <1>9, <1>10 DEF PoolInv

(* Every step keeps the types. *)
LEMMA NextTypeOK == TypeOK /\ [Next]_vars => TypeOK'
<1> SUFFICES ASSUME TypeOK, [Next]_vars PROVE TypeOK'
  OBVIOUS
<1>0. /\ {"waiting", "write", "read", "kill", "spawn", "done"} \subseteq Points
      /\ NoWorker \notin Workers
  BY PoolAssumption DEF PoolAssumption, Points
<1>1. ASSUME NEW r \in Requests, Ask(r) PROVE TypeOK'
  BY <1>0, <1>1, AppendProperties DEF Ask, TypeOK, Leased
<1>2. ASSUME NEW r \in Requests, DropCaller(r) PROVE TypeOK'
  BY <1>2 DEF DropCaller, TypeOK, Leased
<1>3. ASSUME NEW r \in Requests, Lease(r) PROVE TypeOK'
  <2>1. Head(available) \in Workers /\ Tail(available) \in Seq(Workers)
        /\ Tail(waiting) \in Seq(Requests) /\ Head(available) # NoWorker
    BY <1>0, <1>3, HeadTailProperties DEF Lease, TypeOK
  <2> QED
    BY <1>0, <1>3, <2>1 DEF Lease, TypeOK, Leased
<1>4. ASSUME NEW r \in Requests, Write(r) PROVE TypeOK'
  <2>1. index[r] \in Workers
    BY <1>4 DEF Write, TypeOK, Leased
  <2>2. Append(inp[index[r]], r) \in Seq(Requests)
    BY <2>1, AppendProperties DEF TypeOK
  <2>3. /\ UNCHANGED <<attempt, index, result, caller, waiting, available, proc, out, faults>>
        /\ Goto(r, "kill") \/ Goto(r, "read")
        /\ point[r] = "write"
    BY <1>4 DEF Write
  <2>4. inp' \in [Workers -> Seq(Requests)]
    BY <1>4, <2>1, <2>2 DEF Write, TypeOK
  <2> QED
    BY <1>0, <2>3, <2>4 DEF TypeOK, Leased
<1>5. ASSUME NEW r \in Requests, Read(r) PROVE TypeOK'
  <2> DEFINE w == index[r]
  <2>1. w \in Workers /\ point[r] = "read"
    BY <1>5 DEF Read, TypeOK, Leased
  <2>2. Head(out[w]) \in Lines /\ Tail(out[w]) \in Seq(Lines)
    BY <1>5, <2>1, HeadTailProperties DEF Read, TypeOK
  <2>3. out' \in [Workers -> Seq(Lines)]
    BY <1>5, <2>1, <2>2 DEF Read, TypeOK
  <2>4. Append(available, w) \in Seq(Workers)
    BY <2>1, AppendProperties DEF TypeOK
  <2>5. UNCHANGED <<attempt, caller, waiting, proc, inp, faults>>
    BY <1>5 DEF Read
  <2>6. \/ Return(r, Head(out[w]))
        \/ Goto(r, "kill") /\ UNCHANGED <<result, index, available>>
    BY <1>5 DEF Read
  <2>7. CASE Return(r, Head(out[w]))
    BY <1>0, <2>1, <2>2, <2>3, <2>4, <2>5, <2>7 DEF TypeOK, Leased
  <2>8. CASE Goto(r, "kill") /\ UNCHANGED <<result, index, available>>
    BY <1>0, <2>1, <2>3, <2>5, <2>8 DEF TypeOK, Leased
  <2> QED
    BY <2>6, <2>7, <2>8
<1>6. ASSUME NEW r \in Requests, EndOfFile(r) \/ Timeout(r) \/ TimeoutHung(r) PROVE TypeOK'
  <2>1. /\ UNCHANGED <<attempt, index, result, caller, waiting, available, proc, inp, out>>
        /\ point[r] \in {"write", "read"} /\ Goto(r, "kill")
        /\ Fault \/ UNCHANGED faults
    BY <1>6 DEF EndOfFile, Timeout, TimeoutHung
  <2>2. faults' \in 0..MaxFaults
    BY <2>1, PoolAssumption DEF TypeOK, PoolAssumption
  <2> QED
    BY <1>0, <2>1, <2>2 DEF TypeOK, Leased
<1>7. ASSUME NEW r \in Requests, KillWorker(r) PROVE TypeOK'
  <2>1. /\ UNCHANGED <<attempt, index, result, caller, waiting, available, inp, out>>
        /\ point[r] = "kill" /\ Goto(r, "spawn")
        /\ Fault \/ UNCHANGED faults
    BY <1>7 DEF KillWorker
  <2>2. faults' \in 0..MaxFaults
    BY <2>1, PoolAssumption DEF TypeOK, PoolAssumption
  <2>3. proc' \in [Workers -> {"up", "hung", "dying", "dead"}]
    BY <1>7 DEF KillWorker, TypeOK
  <2> QED
    BY <1>0, <2>1, <2>2, <2>3 DEF TypeOK, Leased
<1>8. ASSUME NEW r \in Requests, SpawnWorker(r) \/ SpawnError(r) PROVE TypeOK'
  <2>1. index[r] \in Workers /\ point[r] = "spawn"
    BY <1>8 DEF SpawnWorker, SpawnError, TypeOK, Leased
  <2>2. Append(available, index[r]) \in Seq(Workers)
    BY <2>1, AppendProperties DEF TypeOK
  <2>3. /\ proc' \in [Workers -> {"up", "hung", "dying", "dead"}]
        /\ inp' \in [Workers -> Seq(Requests)]
        /\ out' \in [Workers -> Seq(Lines)]
    <3>1. CASE SpawnWorker(r)
      BY <2>1, <3>1, EmptySeq DEF SpawnWorker, TypeOK
    <3>2. CASE SpawnError(r)
      BY <3>2 DEF SpawnError, TypeOK
    <3> QED
      BY <1>8, <3>1, <3>2
  <2>4. /\ UNCHANGED <<caller, waiting>>
        /\ attempt' \in [Requests -> {0, 1}]
        /\ Fault \/ UNCHANGED faults
        /\ (Return(r, Failed) \/ (Goto(r, "write") /\ UNCHANGED <<index, result, available>>))
    <3>1. CASE SpawnWorker(r)
      BY <3>1 DEF SpawnWorker, TypeOK
    <3>2. CASE SpawnError(r)
      BY <3>2 DEF SpawnError, TypeOK
    <3> QED
      BY <1>8, <3>1, <3>2
  <2>5. faults' \in 0..MaxFaults
    BY <2>4, PoolAssumption DEF TypeOK, PoolAssumption
  <2>6. CASE Return(r, Failed)
    BY <1>0, <2>1, <2>2, <2>3, <2>4, <2>5, <2>6 DEF TypeOK, Leased
  <2>7. CASE Goto(r, "write") /\ UNCHANGED <<index, result, available>>
    BY <1>0, <2>1, <2>3, <2>4, <2>5, <2>7 DEF TypeOK, Leased
  <2> QED
    BY <2>4, <2>6, <2>7
<1>9. ASSUME NEW w \in Workers, Work(w) \/ Noise(w) PROVE TypeOK'
  <2>1. inp[w] # <<>> /\ inp' = [inp EXCEPT ![w] = Tail(@)]
    BY <1>9 DEF Work, Noise
  <2>2. Head(inp[w]) \in Requests /\ Tail(inp[w]) \in Seq(Requests)
    BY <2>1, HeadTailProperties DEF TypeOK
  <2>3. PICK l \in Lines : out' = [out EXCEPT ![w] = Append(@, l)]
    <3>1. \A kind \in {"value", "error"} : <<Head(inp[w]), kind>> \in Lines
      BY <2>2 DEF Lines, Answers
    <3>2. <<"noise">> \in Lines
      BY DEF Lines
    <3> QED
      BY <1>9, <3>1, <3>2 DEF Work, Noise
  <2>4. Append(out[w], l) \in Seq(Lines)
    BY AppendProperties DEF TypeOK
  <2>5. /\ out' \in [Workers -> Seq(Lines)]
        /\ inp' \in [Workers -> Seq(Requests)]
    BY <2>1, <2>2, <2>3, <2>4 DEF TypeOK
  <2>6. /\ UNCHANGED <<point, attempt, index, result, caller, waiting, available, proc>>
        /\ Fault \/ UNCHANGED faults
    BY <1>9 DEF Work, Noise
  <2>7. faults' \in 0..MaxFaults
    BY <2>6, PoolAssumption DEF TypeOK, PoolAssumption
  <2> QED
    BY <2>5, <2>6, <2>7 DEF TypeOK, Leased
<1>10. ASSUME NEW w \in Workers, Vanish(w) \/ Stop(w) PROVE TypeOK'
  <2>1. /\ UNCHANGED <<point, attempt, index, result, caller, waiting, available, inp, out>>
        /\ Fault \/ UNCHANGED faults
    BY <1>10 DEF Vanish, Stop
  <2>2. faults' \in 0..MaxFaults
    BY <2>1, PoolAssumption DEF TypeOK, PoolAssumption
  <2>3. proc' \in [Workers -> {"up", "hung", "dying", "dead"}]
    BY <1>10 DEF Vanish, Stop, TypeOK
  <2> QED
    BY <2>1, <2>2, <2>3 DEF TypeOK, Leased
<1>11. CASE UNCHANGED vars
  BY <1>11 DEF vars, TypeOK, Leased
<1> QED
  BY <1>1, <1>2, <1>3, <1>4, <1>5, <1>6, <1>7, <1>8, <1>9, <1>10, <1>11 DEF Next, TaskNext

-------------------------------------------------------------------------------
(* Steps as the queue and the leases see them.                                 *)

(* What a step of a task does to its control point, its worker and the channel: *)
(* the lease stays, the task takes the first free worker, or it gives it back.  *)
LEMMA StepShapes ==
    ASSUME TypeOK, NEW r \in Requests,
           TaskNext(r) \/ Ask(r) \/ DropCaller(r) \/ Timeout(r) \/ SpawnError(r)
    PROVE  /\ \A q \in Requests \ {r} : point'[q] = point[q] /\ index'[q] = index[q]
           /\ \/ /\ UNCHANGED <<index, available>>
                 /\ point[r] \in {"write", "read", "kill", "spawn"}
                 /\ point'[r] \in {"write", "read", "kill", "spawn"}
              \/ Ask(r) \/ DropCaller(r) \/ Lease(r)
              \/ /\ point[r] \in {"read", "spawn"} /\ point'[r] = "done"
                 /\ available' = Append(available, index[r]) /\ index'[r] = NoWorker
           /\ Ask(r) \/ Lease(r) \/ waiting' = waiting
<1> USE DEF TypeOK
<1>1. CASE Ask(r)
  BY <1>1 DEF Ask
<1>2. CASE DropCaller(r)
  BY <1>2 DEF DropCaller
<1>3. CASE Lease(r)
  BY <1>3 DEF Lease
<1>4. CASE Write(r)
  BY <1>4 DEF Write
<1>5. CASE Read(r)
  <2>1. CASE Return(r, Head(out[index[r]]))
    BY <1>5, <2>1 DEF Read
  <2>2. CASE Goto(r, "kill") /\ UNCHANGED <<result, index, available>>
    BY <1>5, <2>2 DEF Read
  <2> QED
    BY <1>5, <2>1, <2>2 DEF Read
<1>6. CASE EndOfFile(r) \/ Timeout(r) \/ TimeoutHung(r)
  BY <1>6 DEF EndOfFile, Timeout, TimeoutHung
<1>7. CASE KillWorker(r)
  BY <1>7 DEF KillWorker
<1>8. CASE SpawnWorker(r)
  <2>1. CASE Return(r, Failed)
    BY <1>8, <2>1 DEF SpawnWorker
  <2>2. CASE Goto(r, "write") /\ UNCHANGED <<index, result, available>>
    BY <1>8, <2>2 DEF SpawnWorker
  <2> QED
    BY <1>8, <2>1, <2>2 DEF SpawnWorker
<1>9. CASE SpawnError(r)
  BY <1>9 DEF SpawnError
<1> QED
  BY <1>1, <1>2, <1>3, <1>4, <1>5, <1>6, <1>7, <1>8, <1>9 DEF TaskNext

(* A process step leaves the tasks and the pool alone. *)
LEMMA ProcessShape ==
    ASSUME NEW w \in Workers, Work(w) \/ Noise(w) \/ Stop(w) \/ Vanish(w)
    PROVE  UNCHANGED <<point, attempt, index, result, waiting, available>>
BY DEF Work, Noise, Stop, Vanish

(* Who waits for a worker stays in the queue, once. *)
LEMMA NextWaitersQueue == ASSUME TypeOK, WaitersQueue, [Next]_vars PROVE WaitersQueue'
<1>1. ASSUME waiting' = waiting,
             \A q \in Requests : point'[q] = "waiting" <=> point[q] = "waiting"
      PROVE  WaitersQueue'
  <2>1. /\ IsInjective(waiting)' = IsInjective(waiting)
        /\ \A q : Contains(waiting, q)' = Contains(waiting, q)
    BY <1>1 DEF IsInjective, Contains
  <2> QED
    BY <1>1, <2>1 DEF WaitersQueue
<1>2. ASSUME NEW r \in Requests, Ask(r) PROVE WaitersQueue'
  <2>1. /\ waiting' = Append(waiting, r) /\ ~Contains(waiting, r)
        /\ point' = [point EXCEPT ![r] = "waiting"]
    BY <1>2 DEF Ask, WaitersQueue
  <2>2. /\ IsInjective(waiting')
        /\ \A q : Contains(waiting', q) <=> (Contains(waiting, q) \/ q = r)
    BY <2>1, AppendDistinct, AppendOccurs DEF WaitersQueue, TypeOK
  <2> QED
    BY <2>1, <2>2 DEF WaitersQueue, TypeOK
<1>3. ASSUME NEW r \in Requests, Lease(r) PROVE WaitersQueue'
  <2>1. /\ waiting # <<>> /\ r = Head(waiting) /\ waiting' = Tail(waiting)
        /\ point' = [point EXCEPT ![r] = "write"]
    BY <1>3 DEF Lease
  <2>2. /\ IsInjective(waiting') /\ ~Contains(waiting', r)
        /\ \A q : Contains(waiting, q) <=> (Contains(waiting', q) \/ q = r)
    BY <2>1, TailOccurs DEF WaitersQueue, TypeOK
  <2> QED
    BY <2>1, <2>2 DEF WaitersQueue, TypeOK
<1>4. ASSUME NEW r \in Requests,
             TaskNext(r) \/ Ask(r) \/ DropCaller(r) \/ Timeout(r) \/ SpawnError(r)
      PROVE  WaitersQueue'
  <2>1. CASE DropCaller(r)
    BY <1>1, <2>1 DEF DropCaller
  <2> QED
    BY <1>1, <1>2, <1>3, <1>4, <2>1, StepShapes
<1>5. ASSUME NEW w \in Workers, Work(w) \/ Noise(w) \/ Stop(w) \/ Vanish(w)
      PROVE  WaitersQueue'
  BY <1>1, <1>5, ProcessShape
<1>6. CASE UNCHANGED vars
  BY <1>1, <1>6 DEF vars
<1> QED
  BY <1>4, <1>5, <1>6 DEF Next

(* Workers are neither lost nor doubled. *)
LEMMA NextLeases == ASSUME TypeOK, LeasesConserved, [Next]_vars PROVE LeasesConserved'
<1>1. ASSUME UNCHANGED <<index, available>>, Leased' = Leased
      PROVE  LeasesConserved'
  <2>1. /\ IsInjective(available)' = IsInjective(available)
        /\ \A w : Contains(available, w)' = Contains(available, w)
    BY <1>1 DEF IsInjective, Contains
  <2> QED
    BY <1>1, <2>1 DEF LeasesConserved
<1>2. ASSUME NEW r \in Requests, Lease(r) PROVE LeasesConserved'
  <2>1. /\ available # <<>> /\ available' = Tail(available)
        /\ index' = [index EXCEPT ![r] = Head(available)]
        /\ point' = [point EXCEPT ![r] = "write"] /\ r \notin Leased
    BY <1>2 DEF Lease, Leased
  <2>2. /\ IsInjective(available') /\ ~Contains(available', Head(available))
        /\ Contains(available, Head(available))
        /\ \A w : Contains(available, w) <=> (Contains(available', w) \/ w = Head(available))
    BY <2>1, TailOccurs DEF LeasesConserved, TypeOK
  <2>3. Leased' = Leased \union {r}
    BY <2>1 DEF Leased, TypeOK
  <2>4. index'[r] = Head(available) /\ \A q \in Leased : index'[q] = index[q]
    BY <2>1 DEF Leased, TypeOK
  <2> QED
    BY <2>2, <2>3, <2>4 DEF LeasesConserved
<1>3. ASSUME NEW r \in Requests, point[r] \in {"read", "spawn"}, point'[r] = "done",
             \A q \in Requests \ {r} : point'[q] = point[q] /\ index'[q] = index[q],
             available' = Append(available, index[r])
      PROVE  LeasesConserved'
  <2>1. r \in Leased /\ index[r] \in Workers /\ ~Contains(available, index[r])
    BY <1>3 DEF Leased, TypeOK, LeasesConserved
  <2>2. /\ IsInjective(available')
        /\ \A w : Contains(available', w) <=> (Contains(available, w) \/ w = index[r])
    BY <1>3, <2>1, AppendDistinct, AppendOccurs DEF LeasesConserved, TypeOK
  <2>3. Leased' = Leased \ {r} /\ \A q \in Leased \ {r} : index'[q] = index[q]
    BY <1>3 DEF Leased
  <2> QED
    BY <2>1, <2>2, <2>3 DEF LeasesConserved
<1>4. ASSUME NEW r \in Requests,
             TaskNext(r) \/ Ask(r) \/ DropCaller(r) \/ Timeout(r) \/ SpawnError(r)
      PROVE  LeasesConserved'
  <2>1. CASE Ask(r) \/ DropCaller(r)
    <3>1. UNCHANGED <<index, available>> /\ Leased' = Leased
      BY <2>1 DEF Ask, DropCaller, Leased, TypeOK
    <3> QED
      BY <1>1, <3>1
  <2>2. CASE /\ UNCHANGED <<index, available>>
             /\ point[r] \in {"write", "read", "kill", "spawn"}
             /\ point'[r] \in {"write", "read", "kill", "spawn"}
    <3>1. Leased' = Leased
      BY <1>4, <2>2, StepShapes DEF Leased
    <3> QED
      BY <1>1, <2>2, <3>1
  <2> QED
    BY <1>2, <1>3, <1>4, <2>1, <2>2, StepShapes
<1>5. ASSUME NEW w \in Workers, Work(w) \/ Noise(w) \/ Stop(w) \/ Vanish(w)
      PROVE  LeasesConserved'
  <2>1. UNCHANGED <<index, available>> /\ Leased' = Leased
    BY <1>5, ProcessShape DEF Leased
  <2> QED
    BY <1>1, <2>1
<1>6. CASE UNCHANGED vars
  <2>1. UNCHANGED <<index, available>> /\ Leased' = Leased
    BY <1>6 DEF vars, Leased
  <2> QED
    BY <1>1, <2>1
<1> QED
  BY <1>4, <1>5, <1>6 DEF Next

-------------------------------------------------------------------------------
(* The pipes.                                                                  *)

(* A task touches the process and the pipes of its own worker only, and nobody  *)
(* else has that worker.                                                        *)
LEMMA OwnPipes ==
    ASSUME TypeOK, LeasesConserved, PipesQuiet, NEW r \in Leased,
           \A v \in Workers \ {index[r]} :
              proc'[v] = proc[v] /\ inp'[v] = inp[v] /\ out'[v] = out[v],
           \A q \in Requests \ {r} : point'[q] = point[q] /\ index'[q] = index[q],
           \/ UNCHANGED <<index, available>> /\ HeldQuiet(r)'
           \/ /\ available' = Append(available, index[r]) /\ point'[r] = "done"
              /\ proc'[index[r]] \in {"up", "hung"} =>
                    inp'[index[r]] = <<>> /\ out'[index[r]] = <<>>
    PROVE  PipesQuiet'
<1> DEFINE w == index[r]
<1>1. w \in Workers /\ r \in Requests /\ ~Contains(available, w)
  BY DEF TypeOK, Leased, LeasesConserved
<1>2. \A q \in Leased' \ {r} : /\ q \in Leased /\ index'[q] = index[q] /\ index[q] # w
                               /\ index[q] \in Workers
  BY <1>1 DEF Leased, LeasesConserved, TypeOK
<1>3. \A q \in Leased' \ {r} : HeldQuiet(q)'
  <2> SUFFICES ASSUME NEW q \in Leased' \ {r} PROVE HeldQuiet(q)'
    OBVIOUS
  <2>1. HeldQuiet(q) /\ q # r /\ q \in Requests
    BY <1>2 DEF PipesQuiet, Leased
  <2>2. /\ proc'[index[q]] = proc[index[q]] /\ inp'[index[q]] = inp[index[q]]
        /\ out'[index[q]] = out[index[q]] /\ point'[q] = point[q] /\ index'[q] = index[q]
    BY <1>2, <2>1
  <2> QED
    BY <2>1, <2>2 DEF HeldQuiet, Alive, Silent
<1>4. \A v : Contains(available', v) => Contains(available, v) \/ (v = w /\ available' # available)
  <2>1. CASE available' = available
    BY <2>1
  <2>2. CASE available' = Append(available, w)
    <3>1. \A v : Contains(available', v) <=> (Contains(available, v) \/ v = w)
      BY <1>1, <2>2, AppendOccurs DEF TypeOK
    <3>2. available' # available
      BY <1>1, <3>1
    <3> QED
      BY <3>1, <3>2
  <2> QED
    BY <2>1, <2>2
<1>5. \A v \in Workers : (Contains(available', v) /\ Alive(v)') => Silent(v)'
  BY <1>1, <1>4 DEF PipesQuiet, Alive, Silent
<1>6. r \in Leased' => HeldQuiet(r)'
  BY DEF Leased
<1> QED
  BY <1>3, <1>5, <1>6 DEF PipesQuiet

(* A process step touches one worker, which was up. *)
LEMMA NextPipes == ASSUME PoolInv, [Next]_vars PROVE PipesQuiet'
<1> USE DEF PoolInv
<1>1. ASSUME UNCHANGED <<index, available, proc, inp, out>>,
             \A q \in Requests : q \in Leased' => q \in Leased /\ point'[q] = point[q]
      PROVE  PipesQuiet'
  <2>1. \A w : Contains(available, w)' = Contains(available, w)
    BY <1>1 DEF Contains
  <2>2. \A q \in Leased' : HeldQuiet(q)'
    BY <1>1 DEF PipesQuiet, HeldQuiet, Alive, Silent, Leased
  <2> QED
    BY <1>1, <2>1, <2>2 DEF PipesQuiet, Alive, Silent
<1>2. ASSUME NEW r \in Requests, Lease(r) PROVE PipesQuiet'
  <2>1. /\ available # <<>> /\ available' = Tail(available)
        /\ index' = [index EXCEPT ![r] = Head(available)]
        /\ point' = [point EXCEPT ![r] = "write"]
        /\ UNCHANGED <<proc, inp, out>>
    BY <1>2 DEF Lease
  <2>2. /\ Contains(available, Head(available)) /\ Head(available) \in Workers
        /\ \A w : Contains(available', w) => Contains(available, w)
    BY <2>1, TailOccurs DEF TypeOK
  <2>3. point'[r] = "write" /\ index'[r] = Head(available)
    BY <2>1 DEF TypeOK
  <2>4. HeldQuiet(r)'
    BY <2>1, <2>2, <2>3 DEF PipesQuiet, HeldQuiet, Alive, Silent
  <2>5. \A q \in Leased' \ {r} : q \in Leased /\ point'[q] = point[q] /\ index'[q] = index[q]
    BY <2>1 DEF Leased, TypeOK
  <2>6. \A q \in Leased' \ {r} : HeldQuiet(q)'
    BY <2>1, <2>5 DEF PipesQuiet, HeldQuiet, Alive, Silent
  <2> QED
    BY <2>1, <2>2, <2>4, <2>6 DEF PipesQuiet, Alive, Silent
<1>3. ASSUME NEW r \in Requests, Ask(r) \/ DropCaller(r) PROVE PipesQuiet'
  <2>1. /\ UNCHANGED <<index, available, proc, inp, out>>
        /\ \A q \in Requests : q \in Leased' => q \in Leased /\ point'[q] = point[q]
    BY <1>3 DEF Ask, DropCaller, Leased, TypeOK
  <2> QED
    BY <1>1, <2>1
<1>4. ASSUME NEW r \in Requests, Write(r) PROVE PipesQuiet'
  <2>1. r \in Leased /\ index[r] \in Workers /\ point[r] = "write"
    BY <1>4 DEF Write, Leased, TypeOK
  <2>2. /\ UNCHANGED <<index, available, proc, out>>
        /\ \A q \in Requests \ {r} : point'[q] = point[q]
        /\ \A v \in Workers \ {index[r]} : inp'[v] = inp[v]
    BY <1>4, <2>1 DEF Write, TypeOK
  <2>3. HeldQuiet(r)'
    <3>1. CASE proc[index[r]] = "dead"
      BY <2>2, <3>1 DEF HeldQuiet, Alive
    <3>2. CASE proc[index[r]] # "dead"
      <4>1. point'[r] = "read" /\ inp'[index[r]] = Append(inp[index[r]], r)
        BY <1>4, <2>1, <3>2 DEF Write, TypeOK
      <4>2. Append(<<>>, r) = <<r>>
        OBVIOUS
      <4>3. Alive(index[r]) => Silent(index[r])
        BY <2>1 DEF PipesQuiet, HeldQuiet
      <4> QED
        BY <2>2, <4>1, <4>2, <4>3 DEF HeldQuiet, Alive, Silent
    <3> QED
      BY <3>1, <3>2
  <2> QED
    BY <2>1, <2>2, <2>3, OwnPipes
<1>5. ASSUME NEW r \in Requests, Read(r) PROVE PipesQuiet'
  <2>1. r \in Leased /\ index[r] \in Workers /\ point[r] = "read" /\ out[index[r]] # <<>>
    BY <1>5 DEF Read, Leased, TypeOK
  <2>2. /\ UNCHANGED <<proc, inp>>
        /\ \A q \in Requests \ {r} : point'[q] = point[q] /\ index'[q] = index[q]
        /\ \A v \in Workers \ {index[r]} : out'[v] = out[v]
        /\ out'[index[r]] = Tail(out[index[r]])
    BY <1>5, <2>1, StepShapes DEF Read, TypeOK, TaskNext
  <2>3. Alive(index[r]) => inp[index[r]] = <<>> /\ \E l \in Lines : out[index[r]] = <<l>>
    BY <2>1 DEF PipesQuiet, HeldQuiet
  <2>4. \A l : Tail(<<l>>) = <<>>
    OBVIOUS
  <2>5. proc'[index[r]] \in {"up", "hung"} => inp'[index[r]] = <<>> /\ out'[index[r]] = <<>>
    BY <2>2, <2>3, <2>4 DEF Alive
  <2>6. CASE Return(r, Head(out[index[r]]))
    BY <2>1, <2>2, <2>5, <2>6, OwnPipes DEF TypeOK
  <2>7. CASE Goto(r, "kill") /\ UNCHANGED <<result, index, available>>
    <3>1. HeldQuiet(r)'
      BY <2>7 DEF HeldQuiet, TypeOK
    <3> QED
      BY <2>1, <2>2, <2>7, <3>1, OwnPipes
  <2> QED
    BY <1>5, <2>6, <2>7 DEF Read
<1>6. ASSUME NEW r \in Requests, EndOfFile(r) \/ Timeout(r) \/ TimeoutHung(r) PROVE PipesQuiet'
  <2>1. /\ UNCHANGED <<index, available, proc, inp, out>>
        /\ point[r] \in {"write", "read"} /\ point' = [point EXCEPT ![r] = "kill"]
    BY <1>6 DEF EndOfFile, Timeout, TimeoutHung
  <2>2. r \in Leased
    BY <2>1 DEF Leased
  <2>3. HeldQuiet(r)'
    BY <2>1 DEF HeldQuiet, TypeOK
  <2> QED
    BY <2>1, <2>2, <2>3, OwnPipes DEF TypeOK
<1>7. ASSUME NEW r \in Requests, KillWorker(r) PROVE PipesQuiet'
  <2>1. r \in Leased /\ index[r] \in Workers
    BY <1>7 DEF KillWorker, Leased, TypeOK
  <2>2. /\ UNCHANGED <<index, available, inp, out>> /\ point' = [point EXCEPT ![r] = "spawn"]
        /\ proc'[index[r]] \in {"dead", "dying"}
        /\ \A v \in Workers \ {index[r]} : proc'[v] = proc[v]
    BY <1>7, <2>1 DEF KillWorker, TypeOK
  <2>3. HeldQuiet(r)'
    BY <2>2 DEF HeldQuiet, Alive
  <2> QED
    BY <2>1, <2>2, <2>3, OwnPipes DEF TypeOK
<1>8. ASSUME NEW r \in Requests, SpawnWorker(r) PROVE PipesQuiet'
  <2>1. r \in Leased /\ index[r] \in Workers
    BY <1>8 DEF SpawnWorker, Leased, TypeOK
  <2>2. /\ \A q \in Requests \ {r} : point'[q] = point[q] /\ index'[q] = index[q]
        /\ \A v \in Workers \ {index[r]} :
              proc'[v] = proc[v] /\ inp'[v] = inp[v] /\ out'[v] = out[v]
        /\ inp'[index[r]] = <<>> /\ out'[index[r]] = <<>>
    BY <1>8, <2>1, StepShapes DEF SpawnWorker, TypeOK, TaskNext
  <2>3. CASE Return(r, Failed)
    BY <2>1, <2>2, <2>3, OwnPipes DEF TypeOK
  <2>4. CASE Goto(r, "write") /\ UNCHANGED <<index, result, available>>
    <3>1. HeldQuiet(r)'
      BY <2>1, <2>2, <2>4 DEF HeldQuiet, Silent, TypeOK
    <3> QED
      BY <2>1, <2>2, <2>4, <3>1, OwnPipes
  <2> QED
    BY <1>8, <2>3, <2>4 DEF SpawnWorker
<1>9. ASSUME NEW r \in Requests, SpawnError(r) PROVE PipesQuiet'
  <2>1. /\ r \in Leased /\ index[r] \in Workers /\ UNCHANGED <<proc, inp, out>>
        /\ point[r] = "spawn" /\ Return(r, Failed)
    BY <1>9 DEF SpawnError, Leased, TypeOK
  <2>2. ~Alive(index[r])
    BY <2>1 DEF PipesQuiet, HeldQuiet
  <2> QED
    BY <2>1, <2>2, OwnPipes DEF TypeOK, Alive
<1>10. ASSUME NEW w \in Workers, Work(w) \/ Noise(w) \/ Stop(w) \/ Vanish(w)
       PROVE  PipesQuiet'
  <2>1. /\ UNCHANGED <<point, index, available>> /\ Leased' = Leased
        /\ \A v \in Workers \ {w} : proc'[v] = proc[v] /\ inp'[v] = inp[v] /\ out'[v] = out[v]
    BY <1>10 DEF Work, Noise, Stop, Vanish, TypeOK, Leased
  <2>2. \A v : Contains(available, v)' = Contains(available, v)
    BY <2>1 DEF Contains
  <2>3. CASE Stop(w) \/ Vanish(w)
    <3>1. /\ proc'[w] \in {"up", "hung"} => proc[w] \in {"up", "hung"}
          /\ UNCHANGED <<inp, out>>
      BY <2>3 DEF Stop, Vanish, TypeOK
    <3>2. \A q \in Leased : HeldQuiet(q)'
      BY <2>1, <3>1 DEF PipesQuiet, HeldQuiet, Alive, Silent, Leased, TypeOK
    <3> QED
      BY <2>1, <2>2, <3>1, <3>2 DEF PipesQuiet, Alive, Silent
  <2>4. CASE Work(w) \/ Noise(w)
    <3>1. /\ proc[w] = "up" /\ UNCHANGED proc /\ inp[w] # <<>>
          /\ inp' = [inp EXCEPT ![w] = Tail(@)]
          /\ \E l : out' = [out EXCEPT ![w] = Append(@, l)]
      BY <2>4 DEF Work, Noise
    <3>2. ~Contains(available, w)
      BY <3>1 DEF PipesQuiet, Alive, Silent
    <3>3. PICK r \in Leased : index[r] = w
      BY <3>2 DEF LeasesConserved
    <3>4. HeldQuiet(r)'
      <4>1. CASE point[r] = "read"
        <5>1. inp[w] = <<r>> /\ out[w] = <<>>
          BY <3>1, <3>3, <4>1 DEF PipesQuiet, HeldQuiet, Alive
        <5>2. Tail(<<r>>) = <<>> /\ \A l : Append(<<>>, l) = <<l>>
          OBVIOUS
        <5>3. inp'[w] = <<>> /\ \E l : out'[w] = <<l>>
          BY <3>1, <5>1, <5>2 DEF TypeOK
        <5>4. out'[w] \in Seq(Lines)
          BY NextTypeOK DEF TypeOK
        <5>5. \E l \in Lines : out'[w] = <<l>>
          BY <5>3, <5>4
        <5> QED
          BY <2>1, <3>3, <4>1, <5>3, <5>5 DEF HeldQuiet
      <4>2. CASE point[r] = "kill"
        BY <2>1, <4>2 DEF HeldQuiet
      <4> QED
        BY <3>1, <3>3, <4>1, <4>2 DEF PipesQuiet, HeldQuiet, Alive, Silent, Leased
    <3>5. \A q \in Leased \ {r} : index[q] # w /\ index[q] \in Workers
      BY <3>3 DEF LeasesConserved, Leased, TypeOK
    <3>6. \A q \in Leased \ {r} : HeldQuiet(q)'
      <4> SUFFICES ASSUME NEW q \in Leased \ {r} PROVE HeldQuiet(q)'
        OBVIOUS
      <4>1. /\ HeldQuiet(q)
            /\ proc'[index[q]] = proc[index[q]] /\ inp'[index[q]] = inp[index[q]]
            /\ out'[index[q]] = out[index[q]]
        BY <2>1, <3>5 DEF PipesQuiet
      <4> QED
        BY <2>1, <4>1 DEF HeldQuiet, Alive, Silent
    <3>7. \A v \in Workers : (Contains(available, v) /\ Alive(v)') => Silent(v)'
      BY <2>1, <3>2 DEF PipesQuiet, Alive, Silent
    <3> QED
      BY <2>1, <2>2, <3>4, <3>6, <3>7 DEF PipesQuiet
  <2> QED
    BY <1>10, <2>3, <2>4
<1>11. CASE UNCHANGED vars
  <2>1. /\ UNCHANGED <<index, available, proc, inp, out>>
        /\ \A q \in Requests : q \in Leased' => q \in Leased /\ point'[q] = point[q]
    BY <1>11 DEF vars, Leased
  <2> QED
    BY <1>1, <2>1
<1> QED
  BY <1>2, <1>3, <1>4, <1>5, <1>6, <1>7, <1>8, <1>9, <1>10, <1>11 DEF Next, TaskNext

-------------------------------------------------------------------------------
(* Answers and faults.                                                         *)

(* A task returns what it read only when that is an answer to its request. *)
LEMMA NextAnswerIsOwn == ASSUME TypeOK, AnswerIsOwn, [Next]_vars PROVE AnswerIsOwn'
<1> USE DEF AnswerIsOwn
<1>1. ASSUME NEW r \in Requests, Read(r) PROVE AnswerIsOwn'
  <2>1. CASE Head(out[index[r]]) \in Answers(r) /\ Return(r, Head(out[index[r]]))
    BY <2>1 DEF TypeOK
  <2>2. CASE UNCHANGED result
    BY <2>2
  <2> QED
    BY <1>1, <2>1, <2>2 DEF Read
<1>2. ASSUME NEW r \in Requests, SpawnWorker(r) PROVE AnswerIsOwn'
  <2>1. CASE Return(r, Failed)
    BY <2>1 DEF TypeOK
  <2>2. CASE UNCHANGED result
    BY <2>2
  <2> QED
    BY <1>2, <2>1, <2>2 DEF SpawnWorker
<1>3. ASSUME NEW r \in Requests, SpawnError(r) PROVE AnswerIsOwn'
  BY <1>3 DEF SpawnError, TypeOK
<1>4. CASE UNCHANGED result
  BY <1>4
<1>5. ASSUME NEW r \in Requests,
             \/ Ask(r) \/ DropCaller(r) \/ Lease(r) \/ Write(r) \/ EndOfFile(r) \/ Timeout(r)
             \/ TimeoutHung(r) \/ KillWorker(r)
      PROVE  AnswerIsOwn'
  BY <1>4, <1>5 DEF Ask, DropCaller, Lease, Write, EndOfFile, Timeout, TimeoutHung, KillWorker
<1>6. ASSUME NEW w \in Workers, Work(w) \/ Noise(w) \/ Stop(w) \/ Vanish(w)
      PROVE  AnswerIsOwn'
  BY <1>4, <1>6, ProcessShape
<1> QED
  BY <1>1, <1>2, <1>3, <1>4, <1>5, <1>6 DEF Next, TaskNext, vars

(* A task can spoil the account of its own request and of its own worker only, *)
(* and faults are never forgotten.                                             *)
LEMMA OwnFaults ==
    ASSUME TypeOK, LeasesConserved, FaultsCounted, NEW r \in Requests,
           faults' \in Nat, faults' >= faults,
           \A q \in Requests \ {r} :
              point'[q] = point[q] /\ index'[q] = index[q] /\ attempt'[q] = attempt[q],
           \A v \in Workers :
              (proc'[v] = proc[v] /\ out'[v] = out[v]) \/ (r \in Leased /\ v = index[r]),
           \A v \in Workers : proc'[v] # "up" => faults' >= 1 \/ proc[v] # "up",
           attempt'[r] = 1 => faults' >= 1,
           point'[r] \in {"idle", "waiting"} => attempt'[r] = 0,
           r \in Leased' /\ Spoilt(r)' => faults' >= attempt'[r] + 1
    PROVE  FaultsCounted'
<1>1. faults \in Nat /\ attempt \in [Requests -> {0, 1}]
  BY PoolAssumption DEF TypeOK, PoolAssumption
<1>2. ASSUME NEW q \in Requests \ {r}
      PROVE  /\ attempt'[q] = 1 => faults' >= 1
             /\ point'[q] \in {"idle", "waiting"} => attempt'[q] = 0
             /\ q \in Leased' /\ Spoilt(q)' => faults' >= attempt'[q] + 1
  <2>1. attempt'[q] = attempt[q] /\ point'[q] = point[q] /\ index'[q] = index[q]
    OBVIOUS
  <2>2. ASSUME q \in Leased', Spoilt(q)' PROVE faults' >= attempt'[q] + 1
    <3>1. q \in Leased /\ index[q] \in Workers
      BY <2>1, <2>2 DEF Leased, TypeOK
    <3>2. proc'[index[q]] = proc[index[q]] /\ out'[index[q]] = out[index[q]]
      BY <3>1 DEF LeasesConserved
    <3>3. Spoilt(q)
      BY <2>1, <2>2, <3>2 DEF Spoilt
    <3> QED
      BY <1>1, <2>1, <3>1, <3>3 DEF FaultsCounted
  <2> QED
    BY <1>1, <2>1, <2>2 DEF FaultsCounted
<1>3. \A v \in Workers : proc'[v] # "up" => faults' >= 1
  BY <1>1 DEF FaultsCounted
<1> QED
  BY <1>2, <1>3 DEF FaultsCounted

(* Whatever has gone wrong on the way of a task has been counted. *)
LEMMA NextFaultsCounted ==
    ASSUME PoolInv, FaultsCounted, [Next]_vars
    PROVE  FaultsCounted'
<1> USE DEF PoolInv
<1>0. /\ faults \in Nat /\ faults' \in Nat /\ attempt \in [Requests -> {0, 1}]
      /\ faults < MaxFaults /\ faults' = faults + 1 => faults' >= faults
  BY NextTypeOK, PoolAssumption DEF TypeOK, PoolAssumption
<1>1. ASSUME NEW r \in Requests, Ask(r) \/ DropCaller(r) PROVE FaultsCounted'
  <2>1. /\ UNCHANGED <<attempt, index, proc, out, faults>>
        /\ \A q \in Requests : /\ point'[q] \in {"idle", "waiting"}
                                     => point[q] \in {"idle", "waiting"}
                               /\ q \in Leased' => point'[q] = point[q] /\ q \in Leased
    BY <1>1 DEF Ask, DropCaller, Leased, TypeOK
  <2> QED
    BY <2>1 DEF FaultsCounted, Spoilt
<1>2. ASSUME NEW r \in Requests, Lease(r) PROVE FaultsCounted'
  <2>1. /\ UNCHANGED <<attempt, proc, out, faults>> /\ point[r] = "waiting"
        /\ point'[r] = "write" /\ index'[r] = Head(available) /\ available # <<>>
        /\ \A q \in Requests \ {r} : point'[q] = point[q] /\ index'[q] = index[q]
    BY <1>2 DEF Lease, TypeOK
  <2>2. attempt[r] = 0 /\ Head(available) \in Workers
    BY <2>1, TailOccurs DEF FaultsCounted, TypeOK
  <2>3. Spoilt(r)' => faults >= 1
    BY <2>1, <2>2 DEF Spoilt, FaultsCounted
  <2> QED
    BY <1>0, <2>1, <2>2, <2>3, OwnFaults
<1>3. ASSUME NEW r \in Requests, Write(r) PROVE FaultsCounted'
  <2>1. /\ UNCHANGED <<attempt, index, proc, out, faults>> /\ point[r] = "write"
        /\ point'[r] \in {"kill", "read"} /\ (point'[r] = "kill" => proc[index[r]] = "dead")
        /\ \A q \in Requests \ {r} : point'[q] = point[q]
    BY <1>3 DEF Write, TypeOK
  <2>2. r \in Leased
    BY <2>1 DEF Leased
  <2>3. proc[index[r]] = "up" => out[index[r]] = <<>>
    BY <2>1, <2>2 DEF PipesQuiet, HeldQuiet, Alive, Silent
  <2>4. Spoilt(r)' => Spoilt(r)
    BY <2>1, <2>3 DEF Spoilt
  <2>5. attempt[r] = 1 => faults >= 1
    BY DEF FaultsCounted
  <2>6. Spoilt(r)' => faults >= attempt[r] + 1
    BY <2>2, <2>4 DEF FaultsCounted
  <2> QED
    BY <1>0, <2>1, <2>2, <2>5, <2>6, OwnFaults
<1>4. ASSUME NEW r \in Requests, Read(r) PROVE FaultsCounted'
  <2>1. /\ UNCHANGED <<attempt, proc, faults>> /\ point[r] = "read"
        /\ r \in Leased /\ index[r] \in Workers
        /\ \A v \in Workers \ {index[r]} : out'[v] = out[v]
        /\ point'[r] \in {"kill", "done"}
        /\ \A q \in Requests \ {r} : point'[q] = point[q] /\ index'[q] = index[q]
    BY <1>4, StepShapes DEF Read, Leased, TypeOK, TaskNext
  <2>2. r \in Leased' => Spoilt(r)
    BY <1>4, <2>1 DEF Read, Spoilt, Leased, TypeOK
  <2>3. r \in Leased' => faults >= attempt[r] + 1
    BY <2>1, <2>2 DEF FaultsCounted
  <2>4. attempt[r] = 1 => faults >= 1
    BY DEF FaultsCounted
  <2> QED
    BY <1>0, <2>1, <2>3, <2>4, OwnFaults
<1>5. ASSUME NEW r \in Requests, EndOfFile(r) \/ TimeoutHung(r) PROVE FaultsCounted'
  <2>1. /\ UNCHANGED <<attempt, index, proc, out, faults>> /\ point[r] = "read"
        /\ point'[r] = "kill" /\ proc[index[r]] # "up"
        /\ \A q \in Requests \ {r} : point'[q] = point[q]
    BY <1>5 DEF EndOfFile, TimeoutHung, TypeOK
  <2>2. r \in Leased /\ Spoilt(r)
    BY <2>1 DEF Spoilt, Leased
  <2>3. faults >= attempt[r] + 1 /\ (attempt[r] = 1 => faults >= 1)
    BY <2>2 DEF FaultsCounted
  <2> QED
    BY <1>0, <2>1, <2>3, OwnFaults
<1>6. ASSUME NEW r \in Requests, Timeout(r) PROVE FaultsCounted'
  <2>1. /\ UNCHANGED <<attempt, index, proc, out>> /\ faults' = faults + 1
        /\ point[r] \in {"write", "read"} /\ point'[r] = "kill"
        /\ \A q \in Requests \ {r} : point'[q] = point[q]
    BY <1>6 DEF Timeout, TypeOK
  <2>2. attempt[r] = 1 => faults >= 1
    BY DEF FaultsCounted
  <2>3. faults' >= attempt[r] + 1 /\ faults' >= faults
    BY <1>0, <2>1, <2>2
  <2> QED
    BY <1>0, <2>1, <2>2, <2>3, OwnFaults
<1>7. ASSUME NEW r \in Requests, KillWorker(r) PROVE FaultsCounted'
  <2>1. /\ UNCHANGED <<attempt, index, out>> /\ point[r] = "kill" /\ point'[r] = "spawn"
        /\ faults' = faults \/ faults' = faults + 1
        /\ \A q \in Requests \ {r} : point'[q] = point[q]
    BY <1>7 DEF KillWorker, TypeOK
  <2>2. r \in Leased /\ index[r] \in Workers /\ Spoilt(r)
    BY <2>1 DEF Spoilt, Leased, TypeOK
  <2>3. \A v \in Workers \ {index[r]} : proc'[v] = proc[v]
    BY <1>7, <2>2 DEF KillWorker, TypeOK
  <2>4. faults >= attempt[r] + 1
    BY <2>2 DEF FaultsCounted
  <2>5. faults' >= faults /\ faults' >= attempt[r] + 1 /\ faults' >= 1
    BY <1>0, <2>1, <2>4
  <2> QED
    BY <1>0, <2>1, <2>2, <2>3, <2>5, OwnFaults
<1>8. ASSUME NEW r \in Requests, SpawnWorker(r) PROVE FaultsCounted'
  <2>1. /\ point[r] = "spawn" /\ r \in Leased /\ index[r] \in Workers /\ Spoilt(r)
        /\ \A q \in Requests \ {r} : point'[q] = point[q] /\ index'[q] = index[q]
    BY <1>8, StepShapes DEF SpawnWorker, Spoilt, Leased, TypeOK, TaskNext
  <2>2. /\ faults' = faults /\ proc'[index[r]] = "up" /\ out'[index[r]] = <<>>
        /\ \A v \in Workers \ {index[r]} : proc'[v] = proc[v] /\ out'[v] = out[v]
        /\ \A q \in Requests \ {r} : attempt'[q] = attempt[q]
    BY <1>8, <2>1 DEF SpawnWorker, TypeOK
  <2>3. faults >= 1
    BY <1>0, <2>1 DEF FaultsCounted
  <2>4. CASE Return(r, Failed)
    <3>1. point'[r] = "done" /\ r \notin Leased'
      BY <2>4 DEF Leased, TypeOK
    <3> QED
      BY <1>0, <2>1, <2>2, <2>3, <3>1, OwnFaults
  <2>5. CASE Goto(r, "write") /\ UNCHANGED <<index, result, available>>
    <3>1. point'[r] = "write" /\ ~Spoilt(r)'
      BY <2>2, <2>5 DEF Spoilt, TypeOK
    <3> QED
      BY <1>0, <2>1, <2>2, <2>3, <3>1, OwnFaults
  <2> QED
    BY <1>8, <2>4, <2>5 DEF SpawnWorker
<1>9. ASSUME NEW r \in Requests, SpawnError(r) PROVE FaultsCounted'
  <2>1. /\ UNCHANGED <<attempt, proc, out>> /\ faults' = faults + 1
        /\ point'[r] = "done" /\ r \notin Leased'
        /\ \A q \in Requests \ {r} : point'[q] = point[q] /\ index'[q] = index[q]
    BY <1>9 DEF SpawnError, Leased, TypeOK
  <2>2. attempt[r] = 1 => faults >= 1
    BY DEF FaultsCounted
  <2>3. faults' >= faults /\ faults' >= 1
    BY <1>0, <2>1
  <2> QED
    BY <1>0, <2>1, <2>2, <2>3, OwnFaults
<1>10. ASSUME NEW w \in Workers, Work(w) \/ Noise(w) \/ Stop(w) \/ Vanish(w)
       PROVE  FaultsCounted'
  <2>1. /\ UNCHANGED <<point, attempt, index>> /\ Leased' = Leased
        /\ \A v \in Workers \ {w} : proc'[v] = proc[v] /\ out'[v] = out[v]
        /\ faults' = faults \/ faults' = faults + 1
        /\ (Noise(w) \/ Stop(w)) => faults' = faults + 1
    BY <1>10 DEF Work, Noise, Stop, Vanish, TypeOK, Leased
  <2>2. \A q \in Requests : attempt[q] = 1 => faults >= 1
    BY DEF FaultsCounted
  <2>3. ASSUME NEW q \in Leased, Spoilt(q)' PROVE Spoilt(q) \/ faults' = faults + 1
    <3>1. CASE index[q] # w
      <4>1. index[q] \in Workers
        BY DEF Leased, TypeOK
      <4> QED
        BY <2>1, <2>3, <3>1, <4>1 DEF Spoilt
    <3>2. CASE index[q] = w /\ Work(w)
      <4>1. /\ proc[w] = "up" /\ UNCHANGED proc /\ inp[w] # <<>>
            /\ \E kind \in {"value", "error"} : out'[w] = Append(out[w], <<Head(inp[w]), kind>>)
        BY <3>2 DEF Work, TypeOK
      <4>2. CASE point[q] = "read"
        <5>1. inp[w] = <<q>> /\ out[w] = <<>>
          BY <3>2, <4>1, <4>2 DEF PipesQuiet, HeldQuiet, Alive
        <5>2. Head(<<q>>) = q /\ \A l : Append(<<>>, l) = <<l>> /\ Head(<<l>>) = l
          OBVIOUS
        <5>3. Head(out'[w]) \in Answers(q)
          BY <4>1, <5>1, <5>2 DEF Answers
        <5> QED
          BY <2>1, <2>3, <3>2, <4>1, <4>2, <5>3 DEF Spoilt
      <4>3. CASE point[q] # "read"
        BY <2>1, <2>3, <3>2, <4>1, <4>3 DEF Spoilt
      <4> QED
        BY <4>2, <4>3
    <3>3. CASE index[q] = w /\ Vanish(w)
      BY <3>3 DEF Vanish, Spoilt
    <3> QED
      BY <1>10, <2>1, <3>1, <3>2, <3>3
  <2>4. ASSUME NEW v \in Workers, proc'[v] # "up" PROVE faults' >= 1
    <3>1. proc[v] # "up" \/ faults' = faults + 1
      BY <1>10, <2>1, <2>4 DEF Work, Noise, Vanish
    <3> QED
      BY <1>0, <2>1, <3>1 DEF FaultsCounted
  <2>5. ASSUME NEW q \in Requests, q \in Leased', Spoilt(q)' PROVE faults' >= attempt'[q] + 1
    <3>1. Spoilt(q) => faults >= attempt[q] + 1
      BY <2>1, <2>5 DEF FaultsCounted
    <3> QED
      BY <1>0, <2>1, <2>2, <2>3, <2>5, <3>1
  <2>6. \A q \in Requests : attempt[q] = 1 => faults' >= 1
    BY <1>0, <2>1, <2>2
  <2> QED
    BY <2>1, <2>4, <2>5, <2>6 DEF FaultsCounted
<1>11. CASE UNCHANGED vars
  BY <1>11 DEF vars, FaultsCounted, Spoilt, Leased
<1> QED
  BY <1>1, <1>2, <1>3, <1>4, <1>5, <1>6, <1>7, <1>8, <1>9, <1>10, <1>11 DEF Next, TaskNext

(* A task fails at its second attempt, or because no process could be started. *)
LEMMA NextMasked ==
    ASSUME PoolInv, FaultsCounted,
           \A r \in Requests : result[r] = Failed => faults >= 2, [Next]_vars
    PROVE  \A r \in Requests : result'[r] = Failed => faults' >= 2
<1> USE DEF PoolInv
<1>0. faults \in Nat /\ attempt \in [Requests -> {0, 1}]
  BY PoolAssumption DEF TypeOK, PoolAssumption
<1>1. ASSUME faults' = faults \/ faults' = faults + 1, NEW r \in Requests,
             \A q \in Requests \ {r} : result'[q] = result[q],
             result'[r] = Failed => result[r] = Failed \/ faults' >= 2
      PROVE  \A q \in Requests : result'[q] = Failed => faults' >= 2
  BY <1>0, <1>1
<1>2. ASSUME NEW r \in Requests, Read(r)
      PROVE  \A q \in Requests : result'[q] = Failed => faults' >= 2
  <2>1. faults' = faults /\ \A q \in Requests \ {r} : result'[q] = result[q]
    BY <1>2 DEF Read, TypeOK
  <2>2. CASE Head(out[index[r]]) \in Answers(r) /\ Return(r, Head(out[index[r]]))
    <3>1. result'[r] = <<r, "value">> \/ result'[r] = <<r, "error">>
      BY <2>2 DEF Answers, TypeOK
    <3>2. result'[r] # Failed
      BY <3>1 DEF Failed
    <3> QED
      BY <1>1, <2>1, <3>2
  <2>3. CASE UNCHANGED result
    BY <1>1, <2>1, <2>3
  <2> QED
    BY <1>2, <2>2, <2>3 DEF Read
<1>3. ASSUME NEW r \in Requests, SpawnWorker(r)
      PROVE  \A q \in Requests : result'[q] = Failed => faults' >= 2
  <2>1. /\ faults' = faults /\ \A q \in Requests \ {r} : result'[q] = result[q]
        /\ point[r] = "spawn"
    BY <1>3 DEF SpawnWorker, TypeOK
  <2>2. attempt[r] = 1 => faults >= 2
    BY <1>0, <2>1 DEF FaultsCounted, Spoilt, Leased
  <2>3. attempt[r] # 1 => result' = result
    BY <1>3 DEF SpawnWorker
  <2> QED
    BY <1>1, <2>1, <2>2, <2>3
<1>4. ASSUME NEW r \in Requests, SpawnError(r)
      PROVE  \A q \in Requests : result'[q] = Failed => faults' >= 2
  <2>1. /\ faults' = faults + 1 /\ \A q \in Requests \ {r} : result'[q] = result[q]
        /\ r \in Leased /\ Spoilt(r)
    BY <1>4 DEF SpawnError, Spoilt, Leased, TypeOK
  <2>2. faults' >= 2
    BY <1>0, <2>1 DEF FaultsCounted
  <2> QED
    BY <1>1, <2>1, <2>2
<1>5. CASE UNCHANGED result /\ (faults' = faults \/ faults' = faults + 1)
  BY <1>0, <1>5
<1>6. ASSUME NEW r \in Requests,
             \/ Ask(r) \/ DropCaller(r) \/ Lease(r) \/ Write(r) \/ EndOfFile(r) \/ Timeout(r)
             \/ TimeoutHung(r) \/ KillWorker(r)
      PROVE  \A q \in Requests : result'[q] = Failed => faults' >= 2
  BY <1>5, <1>6 DEF Ask, DropCaller, Lease, Write, EndOfFile, Timeout, TimeoutHung, KillWorker
<1>7. ASSUME NEW w \in Workers, Work(w) \/ Noise(w) \/ Stop(w) \/ Vanish(w)
      PROVE  \A q \in Requests : result'[q] = Failed => faults' >= 2
  BY <1>5, <1>7 DEF Work, Noise, Stop, Vanish
<1>8. CASE UNCHANGED vars
  BY <1>5, <1>8 DEF vars
<1> QED
  BY <1>2, <1>3, <1>4, <1>6, <1>7, <1>8 DEF Next, TaskNext

-------------------------------------------------------------------------------
(* Theorems.                                                                   *)

(* Every reachable state of the pool satisfies the inductive invariant: who     *)
(* waits is queued once, every worker is free or leased once, and a live worker *)
(* that is free has nothing in its pipes.                                       *)
THEOREM PoolInvariant == Spec => []PoolInv
<1>1. PoolInv /\ [Next]_vars => PoolInv'
  BY NextTypeOK, NextWaitersQueue, NextLeases, NextPipes DEF PoolInv
<1> QED
  BY InitOK, <1>1, PTL DEF Spec

(* However late an answer comes, and whichever worker prints it, a request is   *)
(* answered with a value or an error of its own.                                *)
THEOREM AnswersAreOwn == Spec => []AnswerIsOwn
<1>1. PoolInv /\ AnswerIsOwn /\ [Next]_vars => AnswerIsOwn'
  BY NextAnswerIsOwn DEF PoolInv
<1> QED
  BY InitOK, <1>1, PoolInvariant, PTL DEF Spec

(* A request fails only after two faults, both on its own way: the pipes it     *)
(* inherits are quiet, so that no other request's fault counts against it.      *)
THEOREM OneFaultMasked == Spec => []OneFaultIsMasked
<1>1. PoolInv /\ OneFaultIsMasked /\ [Next]_vars => OneFaultIsMasked'
  BY NextFaultsCounted, NextMasked DEF OneFaultIsMasked
<1> QED
  BY InitOK, <1>1, PoolInvariant, PTL DEF Spec
===============================================================================
