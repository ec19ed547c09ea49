----------------------------- MODULE JobLifecycle -----------------------------
(***************************************************************************)
(* What the jobs table promises to the rest of ArisSubSet, whoever writes  *)
(* it: jobs are created queued, never beside another active job of the     *)
(* same subtitle; they are started, cancelled, requeued by a restart, or   *)
(* settled; a settled job is never active again.  JobQueue (dispatching)   *)
(* and SubtitleFiles (conversion) are both shown to implement it.          *)
(***************************************************************************)
EXTENDS FiniteSets

CONSTANTS Jobs,       \* job ids (rows of the jobs table, absent until inserted)
          Subtitles   \* ids of subtitle_files rows

VARIABLES status,     \* status[j]: the status column of job j, or "absent"
          target      \* target[j]: its subtitle_id (any value while absent)

vars == <<status, target>>

Active   == {"queued", "running"}
Outcomes == {"success", "partial"}
Settled  == Outcomes \cup {"failed", "cancelled"}
Statuses == {"absent"} \cup Active \cup Settled

TypeOK ==
    /\ status \in [Jobs -> Statuses]
    /\ target \in [Jobs -> Subtitles]

ActiveJobs(s) == {j \in Jobs : status[j] \in Active /\ target[j] = s}

Init ==
    /\ status = [j \in Jobs |-> "absent"]
    /\ target \in [Jobs -> Subtitles]

(* One transaction inserts queued jobs for subtitles that have no active job, *)
(* each subtitle at most once.                                                *)
Insert(new) ==
    /\ \A j \in new : status[j] = "absent"
    /\ status' = [j \in Jobs |-> IF j \in new THEN "queued" ELSE status[j]]
    /\ target' \in [Jobs -> Subtitles]
    /\ \A j \in Jobs \ new : target'[j] = target[j]
    /\ \A j \in new : ActiveJobs(target'[j]) = {}
    /\ \A i, j \in new : target'[i] = target'[j] => i = j

Start(j) ==
    /\ status[j] = "queued"
    /\ status' = [status EXCEPT ![j] = "running"]
    /\ UNCHANGED target

Finish(j, outcome) ==
    /\ status[j] = "running"
    /\ status' = [status EXCEPT ![j] = outcome]
    /\ UNCHANGED target

(* A job can be declared failed at any point of its life, even after it settled. *)
Fail(j) ==
    /\ status[j] # "absent"
    /\ status' = [status EXCEPT ![j] = "failed"]
    /\ UNCHANGED target

CancelQueued ==
    /\ status' = [j \in Jobs |-> IF status[j] = "queued" THEN "cancelled" ELSE status[j]]
    /\ UNCHANGED target

Requeue ==
    /\ status' = [j \in Jobs |-> IF status[j] = "running" THEN "queued" ELSE status[j]]
    /\ UNCHANGED target

Next ==
    \/ \E new \in SUBSET Jobs : Insert(new)
    \/ \E j \in Jobs : Start(j) \/ Fail(j) \/ \E o \in Outcomes : Finish(j, o)
    \/ CancelQueued
    \/ Requeue

Spec == Init /\ [][Next]_vars

-------------------------------------------------------------------------------
(* At most one queued or running job per subtitle: what the partial unique    *)
(* index of migrations/0002 and the INSERT ... WHERE NOT EXISTS guard enforce. *)
OneActivePerSubtitle ==
    \A i, j \in Jobs :
        (status[i] \in Active /\ status[j] \in Active /\ target[i] = target[j]) => i = j

(* A settled job is never active again: its outcome can only be replaced by   *)
(* "failed" (fail_job updates the row whatever its status).                    *)
SettledStaysSettled ==
    [][\A j \in Jobs : status[j] \in Settled => status'[j] \in {status[j], "failed"}]_vars

===============================================================================
