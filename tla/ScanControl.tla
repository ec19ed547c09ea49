------------------------------ MODULE ScanControl ------------------------------
(***************************************************************************)
(* How a scan is started, paused, resumed and cancelled, and how it takes  *)
(* files from the thread that walks a directory tree (fs_walk.rs) through  *)
(* a bounded channel.  The flags of WalkControl are two atomics, read and  *)
(* written one after the other; they outlive a scan, and so may the thread *)
(* of a cancelled walk, which is detached and goes on looking at them.     *)
(*                                                                         *)
(* What a scan decides about each file is in SubtitleFiles.                *)
(***************************************************************************)
EXTENDS Integers, Sequences, FiniteSets

CONSTANTS Files,        \* subtitle files
          Tree,         \* Tree[r]: what the walk of watch directory r meets, in order
          Buffer,       \* WALK_EVENT_BUFFER
          Concurrency,  \* config.max_scan_concurrency
          Batch,        \* ENQUEUE_BATCH_SIZE
          MaxScans,     \* bound on scans
          MaxRequests   \* bound on pause, resume and cancel requests

Entries == Files \union {"other", "broken"}  \* a file, one not looked for, an I/O error
Missing == <<"broken">>   \* no directory; any other walk first meets its root, an "other"

ASSUME ScanAssumption ==
    /\ Files \intersect {"other", "broken"} = {}
    /\ Tree \in Seq(Seq(Entries))
    /\ Buffer \in Nat \ {0}
    /\ Concurrency \in Nat \ {0}
    /\ Batch \in Nat \ {0}
    /\ MaxScans \in Nat
    /\ MaxRequests \in Nat

Walks == 1..(MaxScans * Len(Tree))

VARIABLES
    paused, cancelled,    \* WalkControl
    canceller, resumer,   \* a handler is between its two stores
    running, restoring,   \* AppState.scan_running; a restore holds its guard
    stage,                \* scan_progress.stage
    scan,                 \* the scan task
    walk, chan,           \* the walking threads, the channel of each
    spawned,              \* how many walks there were: the last one is the scan's
    scans, requests,      \* bounded counters
    asked,                \* history: a cancel was requested since the scan began
    halted, turns         \* history: paused and not resumed; turns the scan took since

flags    == <<paused, cancelled>>
handlers == <<canceller, resumer, requests>>
guard    == <<running, restoring, scans>>
walking  == <<walk, chan, spawned>>
history  == <<asked, halted, turns>>
vars     == <<flags, handlers, guard, stage, scan, walking, history>>

ScanPoints == {"off", "reserved", "root", "walk", "recv", "load", "filter", "drain",
               "enqueue", "ending", "settled", "cleared"}
WalkPoints == {"none", "spawned", "check", "send", "done"}
Outcomes   == {"completed", "cancelled", "failed"}

(* look: cancelled was read as FALSE, paused is read next.  found: the candidates.  todo, *)
(* tasks, ready: candidates to filter, running filter tasks, candidates to queue.         *)
FreshScan == [pc |-> "off", look |-> FALSE, root |-> 1, found |-> <<>>, skipped |-> 0,
              queued |-> 0, failed |-> 0, todo |-> 0, tasks |-> 0, ready |-> 0,
              result |-> "none"]

(* stopped: WalkResult.cancelled.  heard: the receiver is there. *)
FreshWalk == [pc |-> "none", root |-> 1, at |-> 1, look |-> FALSE, stopped |-> FALSE,
              heard |-> FALSE]

Init ==
    /\ paused = FALSE /\ cancelled = FALSE
    /\ canceller = FALSE /\ resumer = FALSE /\ requests = 0
    /\ running = FALSE /\ restoring = FALSE /\ scans = 0
    /\ stage = "idle"
    /\ scan = FreshScan
    /\ walk = [w \in Walks |-> FreshWalk]
    /\ chan = [w \in Walks |-> <<>>]
    /\ spawned = 0
    /\ asked = FALSE /\ halted = FALSE /\ turns = 0

-------------------------------------------------------------------------------
(* Requests of the user.  cancel() and set_scan_paused(false) store two flags. *)

MayRequest == requests < MaxRequests /\ requests' = requests + 1

PauseScan ==
    /\ MayRequest
    /\ paused' = TRUE
    /\ UNCHANGED <<cancelled, canceller, resumer, guard, stage, scan, walking>>

ResumeFirst ==
    /\ MayRequest
    /\ ~resumer
    /\ paused' = FALSE
    /\ resumer' = TRUE
    /\ UNCHANGED <<cancelled, canceller, guard, stage, scan, walking>>

ResumeSecond ==
    /\ resumer
    /\ resumer' = FALSE
    /\ cancelled' = FALSE
    /\ UNCHANGED <<paused, canceller, requests, guard, stage, scan, walking>>

(* Mutant of CancelFirst: lifts the pause before the cancel is visible. *)
CancelUnpausing ==
    /\ MayRequest
    /\ ~canceller
    /\ paused' = FALSE
    /\ canceller' = TRUE
    /\ UNCHANGED <<cancelled, resumer, guard, stage, scan, walking>>

CancelFirst ==
    /\ MayRequest
    /\ ~canceller
    /\ cancelled' = TRUE
    /\ canceller' = TRUE
    /\ UNCHANGED <<paused, resumer, guard, stage, scan, walking>>

CancelSecond ==
    /\ canceller
    /\ canceller' = FALSE
    /\ paused' = FALSE
    /\ UNCHANGED <<cancelled, resumer, requests, guard, stage, scan, walking>>

-------------------------------------------------------------------------------
(* The guard, and the frame of a scan: scan_now_reserved. *)

(* try_begin_scan by a request or by the scheduler; a restore takes the same guard. *)
StartScan ==
    /\ ~running
    /\ scans < MaxScans
    /\ scans' = scans + 1
    /\ running' = TRUE
    /\ scan' = [scan EXCEPT !.pc = "reserved"]
    /\ UNCHANGED <<flags, handlers, restoring, stage, walking>>

StartRestore ==
    /\ ~running
    /\ running' = TRUE
    /\ restoring' = TRUE
    /\ UNCHANGED <<flags, handlers, scans, stage, scan, walking>>

EndRestore ==
    /\ restoring
    /\ restoring' = FALSE
    /\ running' = FALSE
    /\ UNCHANGED <<flags, handlers, scans, stage, scan, walking>>

(* Mutant of BeginScan: a cancel that found no scan stays. *)
BeginUncleared ==
    /\ scan.pc = "reserved"
    /\ stage' = "working"
    /\ scan' = [FreshScan EXCEPT !.pc = IF Tree = <<>> THEN "load" ELSE "root"]
    /\ UNCHANGED <<flags, handlers, guard, walking>>

(* What the requests before left of cancelled is cleared.  Reading the directories to be *)
(* watched may fail.                                                                     *)
BeginScan ==
    /\ scan.pc = "reserved"
    /\ cancelled' = FALSE
    /\ stage' = "working"
    /\ \/ scan' = [FreshScan EXCEPT !.pc = IF Tree = <<>> THEN "load" ELSE "root"]
       \/ scan' = [FreshScan EXCEPT !.pc = "ending", !.result = "failed"]
    /\ UNCHANGED <<paused, handlers, guard, walking>>

Ending(outcome) == [scan EXCEPT !.pc = "ending", !.result = outcome, !.look = FALSE]

SettleProgress ==
    /\ scan.pc = "ending"
    /\ stage' = scan.result
    /\ scan' = [scan EXCEPT !.pc = "settled"]
    /\ UNCHANGED <<flags, handlers, guard, walking>>

(* Mutant of ClearAgain: the guard is dropped before the flag is cleared. *)
ClearAfterRelease ==
    /\ scan.pc = "settled"
    /\ cancelled' = FALSE
    /\ running' = FALSE
    /\ scan' = [scan EXCEPT !.pc = "cleared"]
    /\ UNCHANGED <<paused, handlers, restoring, scans, stage, walking>>

ClearAgain ==
    /\ scan.pc = "settled"
    /\ cancelled' = FALSE
    /\ scan' = [scan EXCEPT !.pc = "cleared"]
    /\ UNCHANGED <<paused, handlers, guard, stage, walking>>

(* Mutant of ReleaseScan: an error keeps the guard. *)
ReleaseOnSuccess ==
    /\ scan.pc = "cleared" /\ scan.result # "failed"
    /\ running' = FALSE
    /\ scan' = [scan EXCEPT !.pc = "off"]
    /\ UNCHANGED <<flags, handlers, restoring, scans, stage, walking>>

(* The OperationGuard is dropped when the future of the scan ends. *)
ReleaseScan ==
    /\ scan.pc = "cleared"
    /\ running' = FALSE
    /\ scan' = [scan EXCEPT !.pc = "off"]
    /\ UNCHANGED <<flags, handlers, restoring, scans, stage, walking>>

-------------------------------------------------------------------------------
(* wait_for_scan_turn: cancelled is read before paused. *)

Waiting ==
    \/ scan.pc \in {"root", "walk", "filter"}
    \/ scan.pc = "drain" /\ scan.tasks > 0
    \/ scan.pc = "enqueue" /\ scan.ready > 0

LookCancelled ==
    /\ Waiting /\ ~scan.look
    /\ ~cancelled
    /\ scan' = [scan EXCEPT !.look = TRUE]
    /\ UNCHANGED <<flags, handlers, guard, stage, walking>>

SleepPaused ==
    /\ scan.look /\ paused
    /\ scan' = [scan EXCEPT !.look = FALSE]
    /\ UNCHANGED <<flags, handlers, guard, stage, walking>>

Turn(point) == scan.pc = point /\ scan.look /\ ~paused

(* Every wait but the one in the walking loop just returns; JoinSet aborts its tasks. *)
ScanCancelled ==
    /\ Waiting /\ ~scan.look /\ scan.pc # "walk"
    /\ cancelled
    /\ scan' = [Ending("cancelled") EXCEPT !.tasks = 0]
    /\ UNCHANGED <<flags, handlers, guard, stage, walking>>

-------------------------------------------------------------------------------
(* The loop over the roots and over the events of each walk. *)

SpawnWalk ==
    /\ Turn("root")
    /\ spawned' = spawned + 1
    /\ walk' = [walk EXCEPT ![spawned'] = [@ EXCEPT !.pc = "spawned", !.root = scan.root,
                                                    !.heard = TRUE]]
    /\ scan' = [scan EXCEPT !.pc = "walk", !.look = FALSE]
    /\ UNCHANGED <<flags, handlers, guard, stage, chan>>

WalkTurn ==
    /\ Turn("walk")
    /\ scan' = [scan EXCEPT !.pc = "recv", !.look = FALSE]
    /\ UNCHANGED <<flags, handlers, guard, stage, walking>>

(* Mutant of CancelWalk: waits for the thread while the receiver is still there. *)
CancelByJoining ==
    /\ scan.pc = "walk" /\ ~scan.look
    /\ cancelled
    /\ walk[spawned].pc = "done"
    /\ walk' = [walk EXCEPT ![spawned].heard = FALSE]
    /\ chan' = [chan EXCEPT ![spawned] = <<>>]
    /\ scan' = Ending("cancelled")
    /\ UNCHANGED <<flags, handlers, guard, stage, spawned>>

(* Drops the receiver and aborts the handle: a blocking task that has started *)
(* is not stopped by that, one that has not never starts.                     *)
CancelWalk ==
    /\ scan.pc = "walk" /\ ~scan.look
    /\ cancelled
    /\ walk' = [walk EXCEPT ![spawned].heard = FALSE,
                            ![spawned].pc = IF @ = "spawned" THEN "done" ELSE @]
    /\ chan' = [chan EXCEPT ![spawned] = <<>>]
    /\ scan' = Ending("cancelled")
    /\ UNCHANGED <<flags, handlers, guard, stage, spawned>>

Seen == {scan.found[i] : i \in DOMAIN scan.found}   \* discovered_paths

RecvEvent ==
    /\ scan.pc = "recv"
    /\ chan[spawned] # <<>>
    /\ chan' = [chan EXCEPT ![spawned] = Tail(@)]
    /\ LET event == Head(chan[spawned])
           next  == [scan EXCEPT !.pc = "walk"]
       IN scan' = IF event = "broken" THEN [next EXCEPT !.failed = @ + 1]
                  ELSE IF event \in Seen THEN [next EXCEPT !.skipped = @ + 1]
                  ELSE [next EXCEPT !.found = Append(@, event)]
    /\ UNCHANGED <<flags, handlers, guard, stage, walk, spawned>>

RecvTimeout ==
    /\ scan.pc = "recv"
    /\ scan' = [scan EXCEPT !.pc = "walk"]
    /\ UNCHANGED <<flags, handlers, guard, stage, walking>>

(* Mutant of JoinWalk: the result of the thread is not looked at. *)
JoinAnyWalk ==
    /\ scan.pc = "recv"
    /\ chan[spawned] = <<>> /\ walk[spawned].pc = "done"
    /\ walk' = [walk EXCEPT ![spawned].heard = FALSE]
    /\ scan' = [scan EXCEPT !.pc = IF scan.root = Len(Tree) THEN "load" ELSE "root",
                            !.root = @ + 1]
    /\ UNCHANGED <<flags, handlers, guard, stage, chan, spawned>>

(* The channel is closed and drained, and the handle is joined; joining a thread that    *)
(* panicked fails.                                                                       *)
JoinWalk ==
    /\ scan.pc = "recv"
    /\ chan[spawned] = <<>> /\ walk[spawned].pc = "done"
    /\ walk' = [walk EXCEPT ![spawned].heard = FALSE]
    /\ \/ scan' = IF walk[spawned].stopped THEN Ending("cancelled")
                  ELSE [scan EXCEPT !.pc = IF scan.root = Len(Tree) THEN "load" ELSE "root",
                                    !.root = @ + 1]
       \/ scan' = Ending("failed")
    /\ UNCHANGED <<flags, handlers, guard, stage, chan, spawned>>

-------------------------------------------------------------------------------
(* Filtering and queueing. *)

LoadRows ==
    /\ scan.pc = "load"
    /\ scan' = [scan EXCEPT !.pc = IF scan.found = <<>> THEN "drain" ELSE "filter",
                            !.todo = Len(scan.found)]
    /\ UNCHANGED <<flags, handlers, guard, stage, walking>>

LoadRowsError ==
    /\ scan.pc = "load"
    /\ scan' = Ending("failed")
    /\ UNCHANGED <<flags, handlers, guard, stage, walking>>

(* A filter task ended: its candidate is chosen, skipped, or was not readable. *)
Judged(next) == {[next EXCEPT !.ready = @ + 1], [next EXCEPT !.skipped = @ + 1],
                 [next EXCEPT !.failed = @ + 1]}

(* With the limit reached, a task is joined before the next one is spawned. *)
FilterTurn ==
    /\ Turn("filter")
    /\ LET next == [scan EXCEPT !.look = FALSE, !.todo = @ - 1,
                                !.pc = IF scan.todo = 1 THEN "drain" ELSE "filter"]
       IN IF scan.tasks < Concurrency
          THEN scan' = [next EXCEPT !.tasks = @ + 1]
          ELSE scan' \in Judged(next)
    /\ UNCHANGED <<flags, handlers, guard, stage, walking>>

DrainTurn ==
    /\ Turn("drain")
    /\ scan' \in Judged([scan EXCEPT !.look = FALSE, !.tasks = @ - 1])
    /\ UNCHANGED <<flags, handlers, guard, stage, walking>>

DrainEnd ==
    /\ scan.pc = "drain" /\ scan.tasks = 0
    /\ scan' = [scan EXCEPT !.pc = "enqueue"]
    /\ UNCHANGED <<flags, handlers, guard, stage, walking>>

(* One batch: candidates whose subtitle has an active job count as skipped. *)
EnqueueTurn ==
    /\ Turn("enqueue")
    /\ LET chunk == IF scan.ready < Batch THEN scan.ready ELSE Batch IN
           \E inserted \in 0..chunk :
              scan' = [scan EXCEPT !.look = FALSE, !.ready = @ - chunk,
                                   !.queued = @ + inserted,
                                   !.skipped = @ + (chunk - inserted)]
    /\ UNCHANGED <<flags, handlers, guard, stage, walking>>

EnqueueError ==
    /\ Turn("enqueue")
    /\ scan' = Ending("failed")
    /\ UNCHANGED <<flags, handlers, guard, stage, walking>>

EnqueueEnd ==
    /\ scan.pc = "enqueue" /\ scan.ready = 0
    /\ scan' = Ending("completed")
    /\ UNCHANGED <<flags, handlers, guard, stage, walking>>

-------------------------------------------------------------------------------
(* The walking thread: walk_files with wait_blocking. *)

Listing(w) == Tree[walk[w].root]
Entry(w)   == Listing(w)[walk[w].at]
AtEnd(w)   == walk[w].at > Len(Listing(w))

WalkStart(w) ==
    /\ walk[w].pc = "spawned"
    /\ walk' = [walk EXCEPT ![w].pc = IF Listing(w) = Missing THEN "send" ELSE "check"]
    /\ UNCHANGED <<flags, handlers, guard, stage, scan, chan, spawned>>

WalkLook(w) ==
    /\ walk[w].pc = "check" /\ ~AtEnd(w) /\ ~walk[w].look
    /\ ~cancelled
    /\ walk' = [walk EXCEPT ![w].look = TRUE]
    /\ UNCHANGED <<flags, handlers, guard, stage, scan, chan, spawned>>

WalkSleep(w) ==
    /\ walk[w].look /\ paused
    /\ walk' = [walk EXCEPT ![w].look = FALSE]
    /\ UNCHANGED <<flags, handlers, guard, stage, scan, chan, spawned>>

(* Entries that are no subtitle files are passed over; the others are sent. *)
WalkVisit(w) ==
    /\ walk[w].look /\ ~paused
    /\ walk' = [walk EXCEPT ![w] =
                   IF Entry(w) = "other" THEN [walk[w] EXCEPT !.look = FALSE, !.at = @ + 1]
                   ELSE [walk[w] EXCEPT !.look = FALSE, !.pc = "send"]]
    /\ UNCHANGED <<flags, handlers, guard, stage, scan, chan, spawned>>

WalkStopped(w) ==
    /\ walk[w].pc = "check" /\ ~AtEnd(w) /\ ~walk[w].look
    /\ cancelled
    /\ walk' = [walk EXCEPT ![w].pc = "done", ![w].stopped = TRUE]
    /\ UNCHANGED <<flags, handlers, guard, stage, scan, chan, spawned>>

(* blocking_send waits while the channel is full, and fails once the receiver is gone. *)
WalkSend(w) ==
    /\ walk[w].pc = "send" /\ walk[w].heard
    /\ Len(chan[w]) < Buffer
    /\ chan' = [chan EXCEPT ![w] = Append(@, Entry(w))]
    /\ walk' = [walk EXCEPT ![w].at = @ + 1, ![w].pc = "check"]
    /\ UNCHANGED <<flags, handlers, guard, stage, scan, spawned>>

(* Mutant of WalkUnheard: a failed send is tried again. *)
WalkRetry(w) ==
    /\ walk[w].pc = "send" /\ ~walk[w].heard
    /\ walk' = [walk EXCEPT ![w].pc = "check"]
    /\ UNCHANGED <<flags, handlers, guard, stage, scan, chan, spawned>>

WalkUnheard(w) ==
    /\ walk[w].pc = "send" /\ ~walk[w].heard
    /\ walk' = [walk EXCEPT ![w].pc = "done"]
    /\ UNCHANGED <<flags, handlers, guard, stage, scan, chan, spawned>>

WalkEnd(w) ==
    /\ walk[w].pc = "check" /\ AtEnd(w)
    /\ walk' = [walk EXCEPT ![w].pc = "done"]
    /\ UNCHANGED <<flags, handlers, guard, stage, scan, chan, spawned>>

-------------------------------------------------------------------------------
UserNext    == PauseScan \/ ResumeFirst \/ CancelFirst \/ StartScan \/ StartRestore
HandlerNext == ResumeSecond \/ CancelSecond \/ EndRestore

ScanNext ==
    \/ BeginScan \/ SettleProgress \/ ClearAgain \/ ReleaseScan
    \/ LookCancelled \/ SleepPaused \/ ScanCancelled
    \/ SpawnWalk \/ WalkTurn \/ CancelWalk \/ RecvEvent \/ RecvTimeout \/ JoinWalk
    \/ LoadRows \/ LoadRowsError \/ FilterTurn \/ DrainTurn \/ DrainEnd
    \/ EnqueueTurn \/ EnqueueError \/ EnqueueEnd

WalkNext(w) ==
    \/ WalkStart(w) \/ WalkLook(w) \/ WalkSleep(w) \/ WalkVisit(w) \/ WalkStopped(w)
    \/ WalkSend(w) \/ WalkUnheard(w) \/ WalkEnd(w)

(* What the properties remember.  A pause that meets a cancel in flight may be undone by *)
(* it; whoever clears the cancel flag, or resumes, ends the time the pause speaks for.   *)
Observe ==
    LET begins == scan.pc = "reserved" /\ scan'.pc # "reserved"
        clears == begins \/ resumer' # resumer \/ (cancelled /\ ~cancelled')
    IN /\ asked' = (~begins /\ (asked \/ (canceller' /\ ~canceller)))
       /\ halted' = (~clears /\ (halted \/ (paused' /\ ~paused /\ ~canceller)))
       /\ turns' = IF clears \/ ~halted THEN 0
                   ELSE IF scan.look /\ ~scan'.look /\ ~paused THEN turns + 1 ELSE turns

Next ==
    /\ UserNext \/ HandlerNext \/ ScanNext \/ \E w \in Walks : WalkNext(w)
    /\ Observe

(* Threads and ready futures run.  In the select! the timer may win each time an event *)
(* is there too, but not for ever: tokio polls the branches in random order.           *)
Fairness ==
    /\ WF_vars(ResumeSecond /\ Observe)
    /\ WF_vars(CancelSecond /\ Observe)
    /\ WF_vars(EndRestore /\ Observe)
    /\ WF_vars(ScanNext /\ Observe)
    /\ SF_vars(RecvEvent /\ Observe)
    /\ SF_vars(JoinWalk /\ Observe)
    /\ \A w \in Walks : WF_vars(WalkNext(w) /\ Observe)

Spec     == Init /\ [][Next]_vars
LiveSpec == Spec /\ Fairness

-------------------------------------------------------------------------------
(* Properties. *)

(* Types, and what the control points imply: a channel holds no more than the buffer, *)
(* only the last walk of a scan that is receiving has a receiver.                     *)
TypeOK ==
    /\ flags \in BOOLEAN \X BOOLEAN
    /\ handlers \in BOOLEAN \X BOOLEAN \X (0..MaxRequests)
    /\ guard \in BOOLEAN \X BOOLEAN \X (0..MaxScans)
    /\ stage \in {"idle", "working"} \union Outcomes
    /\ scan \in [pc : ScanPoints, look : BOOLEAN, root : 1..(Len(Tree) + 1),
                 found : Seq(Files), skipped : Nat, queued : Nat, failed : Nat, todo : Nat,
                 tasks : 0..Concurrency, ready : Nat, result : {"none"} \union Outcomes]
    /\ scan.look => Waiting
    /\ scan.todo + scan.tasks + scan.ready <= Len(scan.found)
    /\ walk \in [Walks -> [pc : WalkPoints, root : DOMAIN Tree, at : Nat \ {0},
                           look : BOOLEAN, stopped : BOOLEAN, heard : BOOLEAN]]
    /\ chan \in [Walks -> Seq(Entries)]
    /\ spawned \in 0..(MaxScans * Len(Tree))
    /\ \A w \in Walks : /\ Len(chan[w]) <= Buffer
                        /\ walk[w].heard => w = spawned /\ scan.pc \in {"walk", "recv"}

(* The guard of scan_running is held from the acceptance of a scan to its very end, and *)
(* never by a scan and a restore at once (scan_now_reserved, restore in backup.rs).     *)
GuardCoversScan ==
    /\ running <=> (scan.pc # "off" \/ restoring)
    /\ ~(scan.pc # "off" /\ restoring)

(* Whoever sees no scan running sees no progress of one either: the outcome is written *)
(* before the guard is dropped.                                                        *)
StageIsSettled == ~running => stage # "working"

Expected == (UNION {{Tree[r][i] : i \in DOMAIN Tree[r]} : r \in DOMAIN Tree}) \intersect Files
Events   == UNION {{<<r, i>> : i \in {k \in DOMAIN Tree[r] : Tree[r][k] # "other"}} :
                   r \in DOMAIN Tree}

(* A scan that leaves the walk uncancelled has received every file of every root once, *)
(* whatever the timer of the select!, the full channel, pauses and the end of the      *)
(* thread did meanwhile.                                                               *)
NothingMissed ==
    (scan.pc \in {"load", "filter", "drain", "enqueue"} \/ scan.result = "completed") =>
        Seen = Expected /\ Cardinality(Seen) = Len(scan.found)

(* A completed scan accounts for each event of its walks exactly once: queued, skipped *)
(* (duplicate, not due, active) or failed.                                             *)
SummaryAddsUp ==
    scan.result = "completed" =>
        scan.queued + scan.skipped + scan.failed = Cardinality(Events)

(* The invariant of the frame (scan_now_reserved): types, the guard, and what progress  *)
(* and summary say of the scan.                                                        *)
ScanInv == TypeOK /\ GuardCoversScan /\ StageIsSettled /\ SummaryAddsUp

(* A scan reported as cancelled was cancelled after it began: a cancel of an earlier   *)
(* scan, or of none, does not stop it (both calls of clear_scan_cancel).               *)
CancelledWasAsked == scan.result = "cancelled" => asked

(* After a pause the scan takes at most the one turn it was about to take, also when a *)
(* cancel then lifts the pause: cancel() stores cancelled before it clears paused.     *)
PauseHolds == turns <= 1

(* A cancel ends the scan wherever it is: waiting, receiving, or with a thread that is *)
(* blocked on a full channel.  It does not if the flag is cleared again: by a resume   *)
(* meanwhile, or, of a cancel stored between the acceptance of a scan and its first    *)
(* step, by the clear_scan_cancel of that step, which swallows it (BeginScan).         *)
CancelEndsScan == (scan.pc # "off" /\ cancelled) ~> (scan.pc = "off" \/ ~cancelled)

(* A scan that is not left paused for ever ends and gives the guard back, and leaves no *)
(* walking thread behind, also one whose scan was cancelled while it was blocked.       *)
ScanEnds ==
    (<>[](~paused)) =>
        []<>(scan.pc = "off" /\ \A w \in Walks : walk[w].pc \in {"none", "done"})
===============================================================================
