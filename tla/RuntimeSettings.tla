---------------------------- MODULE RuntimeSettings ----------------------------
(***************************************************************************)
(* Settings that are changed while the service runs, and the scheduler of  *)
(* scans that listens for one of them.  A handler changes the value in     *)
(* memory under a lock, then saves it, then, for the scan interval, counts *)
(* the version of a watch channel up; the steps of several handlers        *)
(* interleave.  A restart loads what was saved over the defaults.          *)
(*                                                                         *)
(* What the queue and the scan do with the settings is in JobQueue and     *)
(* SubtitleFiles; the scan it starts is in ScanControl, so names that that *)
(* module has too are longer here.                                         *)
(***************************************************************************)
EXTENDS Integers, FiniteSets

CONSTANTS Handlers,     \* requests in flight at once
          Options,      \* keys of ProcessingOptions
          Intervals,    \* requested scan intervals, 0 for none
          MaxInterval,  \* seven days
          Limits,       \* requested parallelisms
          MaxLimit,     \* 32
          Defaults,     \* [options, interval, limit] of the environment
          MaxChanges, MaxFaults, MaxScheduled, MaxCrashes   \* bounds

Kinds == {"options", "interval", "limit"}

ASSUME SettingsAssumption ==
    /\ Intervals \subseteq Nat /\ MaxInterval \in Nat
    /\ Limits \subseteq Nat /\ MaxLimit \in Nat \ {0}
    /\ Defaults \in [options : [Options -> BOOLEAN], interval : Nat, limit : 1..MaxLimit]
    /\ {MaxChanges, MaxFaults, MaxScheduled, MaxCrashes} \subseteq Nat

VARIABLES
    memory,     \* memory[k]: the value in AppState
    saved,      \* saved[k]: {} or the value in runtime_settings
    handler,    \* [pc, kind, value]: what each request saves
    version,    \* scan_schedule_version
    scheduler,  \* [pc, interval, seen]
    changes, faults, scheduled, crashes,  \* bounded counters
    clean,      \* history: kinds whose last change was saved and met no other change
    met,        \* history: kinds of which two changes have met since they were quiet
    unsaved,    \* history: kinds whose change failed after the last announcement
    late        \* history: scheduled scans begun after the schedule was acknowledged as off

counts  == <<changes, faults, scheduled, crashes>>
settingsHistory == <<clean, met, unsaved, late>>
settingsVars    == <<memory, saved, handler, version, scheduler, counts, settingsHistory>>

Idle == [pc |-> "idle", kind |-> "limit", value |-> MaxLimit]

SettingsInit ==
    /\ memory = Defaults
    /\ saved = [k \in Kinds |-> {}]
    /\ handler = [h \in Handlers |-> Idle]
    /\ version = 0
    /\ scheduler = [pc |-> "top", interval |-> 0, seen |-> 0]
    /\ changes = 0 /\ faults = 0 /\ scheduled = 0 /\ crashes = 0
    /\ clean = Kinds /\ met = {} /\ unsaved = {} /\ late = 0

-------------------------------------------------------------------------------
(* The handlers. *)

Clamp(n) == IF n < 1 THEN 1 ELSE IF n > MaxLimit THEN MaxLimit ELSE n
Cap(n) == IF n > MaxInterval THEN MaxInterval ELSE n

(* The values a request may write: one option over the others, or a bounded number. *)
Changes(kind) ==
    CASE kind = "options"  -> {[memory.options EXCEPT ![o] = b] : o \in Options, b \in BOOLEAN}
      [] kind = "interval" -> {Cap(n) : n \in Intervals}
      [] kind = "limit"    -> {Clamp(n) : n \in Limits}

InFlight(kind) == {h \in Handlers : handler[h].pc # "idle" /\ handler[h].kind = kind}

(* set_processing_option, set_scan_interval, set_conversion_parallelism: the value in *)
(* memory changes under the lock; what is saved later was computed there too.         *)
Change(h) ==
    /\ handler[h].pc = "idle"
    /\ changes < MaxChanges
    /\ changes' = changes + 1
    /\ \E kind \in Kinds : \E value \in Changes(kind) :
          /\ memory' = [memory EXCEPT ![kind] = value]
          /\ handler' = [handler EXCEPT ![h] = [pc |-> "save", kind |-> kind, value |-> value]]
          /\ clean' = clean \ {kind}
          /\ met' = IF InFlight(kind) = {} THEN met \ {kind} ELSE met \union {kind}
    /\ UNCHANGED <<saved, version, scheduler, faults, scheduled, crashes, unsaved, late>>

Acknowledge(h) == /\ handler' = [handler EXCEPT ![h] = Idle]
                  /\ clean' = IF handler[h].kind \in met THEN clean
                              ELSE clean \union {handler[h].kind}

Save(h) ==
    /\ handler[h].pc = "save"
    /\ saved' = [saved EXCEPT ![handler[h].kind] = {handler[h].value}]
    /\ IF handler[h].kind = "interval"
       THEN handler' = [handler EXCEPT ![h].pc = "notify"] /\ UNCHANGED clean
       ELSE Acknowledge(h)
    /\ UNCHANGED <<memory, version, scheduler, counts, met, unsaved, late>>

(* Mutant of SaveError: the result of the statement is not looked at. *)
SaveErrorIgnored(h) ==
    /\ handler[h].pc = "save"
    /\ faults < MaxFaults
    /\ faults' = faults + 1
    /\ Acknowledge(h)
    /\ UNCHANGED <<memory, saved, version, scheduler, changes, scheduled, crashes, met, unsaved, late>>

(* The request fails, and memory keeps the value. *)
SaveError(h) ==
    /\ handler[h].pc = "save"
    /\ faults < MaxFaults
    /\ faults' = faults + 1
    /\ handler' = [handler EXCEPT ![h] = Idle]
    /\ unsaved' = unsaved \union {handler[h].kind}
    /\ UNCHANGED <<memory, saved, version, scheduler, changes, scheduled, crashes, clean, met, late>>

Notify(h) ==
    /\ handler[h].pc = "notify"
    /\ version' = version + 1
    /\ Acknowledge(h)
    /\ late' = 0 /\ unsaved' = unsaved \ {handler[h].kind}
    /\ UNCHANGED <<memory, saved, scheduler, counts, met>>

-------------------------------------------------------------------------------
(* spawn_scheduler. *)

Goto(pc) == scheduler' = [scheduler EXCEPT !.pc = pc]

ReadInterval ==
    /\ scheduler.pc = "top"
    /\ scheduler' = [scheduler EXCEPT !.pc = "chosen", !.interval = memory.interval]
    /\ UNCHANGED <<memory, saved, handler, version, counts, settingsHistory>>

(* Mutant of Sleep: a receiver of its own for each turn. *)
SleepAfresh ==
    /\ scheduler.pc = "chosen"
    /\ scheduler' = [scheduler EXCEPT !.pc = "asleep", !.seen = version]
    /\ UNCHANGED <<memory, saved, handler, version, counts, settingsHistory>>

(* With an interval of zero only a change wakes it. *)
Sleep ==
    /\ scheduler.pc = "chosen"
    /\ Goto("asleep")
    /\ UNCHANGED <<memory, saved, handler, version, counts, settingsHistory>>

(* Mutant of Hear: nothing is listened to without a timer. *)
HearWithTimer ==
    /\ scheduler.pc = "asleep" /\ scheduler.seen # version
    /\ scheduler.interval > 0
    /\ scheduler' = [scheduler EXCEPT !.pc = "top", !.seen = version]
    /\ UNCHANGED <<memory, saved, handler, version, counts, settingsHistory>>

(* changed() marks the version as seen. *)
Hear ==
    /\ scheduler.pc = "asleep" /\ scheduler.seen # version
    /\ scheduler' = [scheduler EXCEPT !.pc = "top", !.seen = version]
    /\ UNCHANGED <<memory, saved, handler, version, counts, settingsHistory>>

(* The timer, which may win against a change that is there already. *)
TimerFires ==
    /\ scheduler.pc = "asleep" /\ scheduler.interval > 0
    /\ scheduled < MaxScheduled
    /\ scheduled' = scheduled + 1
    /\ Goto("scan")
    /\ late' = IF memory.interval = 0 /\ InFlight("interval") = {} /\ "interval" \notin unsaved
               THEN late + 1 ELSE late
    /\ UNCHANGED <<memory, saved, handler, version, changes, faults, crashes, clean, met, unsaved>>

(* scan_now returns, at once if a scan is running. *)
EndScan ==
    /\ scheduler.pc = "scan"
    /\ Goto("top")
    /\ UNCHANGED <<memory, saved, handler, version, counts, settingsHistory>>

-------------------------------------------------------------------------------
Load(kind) == IF saved[kind] = {} THEN Defaults[kind] ELSE CHOOSE v \in saved[kind] : TRUE

(* The process dies; load_runtime_settings, and a scheduler that starts anew. *)
Crash ==
    /\ crashes < MaxCrashes
    /\ crashes' = crashes + 1
    /\ memory' = [k \in Kinds |-> Load(k)]
    /\ handler' = [h \in Handlers |-> Idle]
    /\ version' = 0
    /\ scheduler' = [pc |-> "top", interval |-> 0, seen |-> 0]
    /\ clean' = Kinds /\ met' = {} /\ unsaved' = {} /\ late' = 0
    /\ UNCHANGED <<saved, changes, faults, scheduled>>

SchedulerNext == ReadInterval \/ Sleep \/ Hear \/ EndScan

SettingsNext ==
    \/ \E h \in Handlers : Change(h) \/ Save(h) \/ SaveError(h) \/ Notify(h)
    \/ SchedulerNext \/ TimerFires
    \/ Crash

(* Handlers whose request is not dropped go on, and so does the scheduler; select! polls *)
(* its branches in random order, so that the timer does not win against a change for     *)
(* ever.                                                                                 *)
SettingsFairness ==
    /\ \A h \in Handlers : WF_settingsVars(Save(h)) /\ WF_settingsVars(Notify(h))
    /\ WF_settingsVars(SchedulerNext)
    /\ SF_settingsVars(Hear)

SettingsSpec     == SettingsInit /\ [][SettingsNext]_settingsVars
SettingsLiveSpec == SettingsSpec /\ SettingsFairness

-------------------------------------------------------------------------------
(* Properties. *)

(* What a request may save of each kind; the environment's interval has no upper limit. *)
Values == [options |-> [Options -> BOOLEAN], interval |-> 0..MaxInterval, limit |-> 1..MaxLimit]
Delays == Values.interval \union {Defaults.interval}

(* Types; whatever was asked for, what is used and what is saved is within its limits. *)
SettingsTypeOK ==
    /\ memory \in [options : Values.options, interval : Delays, limit : Values.limit]
    /\ DOMAIN saved = Kinds /\ DOMAIN handler = Handlers
    /\ \A k \in Kinds : saved[k] = {} \/ \E v \in Values[k] : saved[k] = {v}
    /\ \A h \in Handlers :
          /\ handler[h] \in [pc : {"idle", "save", "notify"}, kind : Kinds,
                             value : Values[handler[h].kind]]
          /\ handler[h].pc = "notify" => handler[h].kind = "interval"
    /\ version \in Nat
    /\ scheduler \in [pc : {"top", "chosen", "asleep", "scan"}, interval : Delays,
                      seen : 0..version]
    /\ {clean, met, unsaved} \subseteq SUBSET Kinds /\ late \in Nat

(* A scheduler that sleeps, or is about to, by another interval than the one in force    *)
(* will be woken: the change is in the channel or its handler has yet to announce it,     *)
(* wherever the change met the turn of the loop.  One that could not be saved is never    *)
(* announced.                                                                             *)
ChangesAreHeard ==
    scheduler.pc \in {"chosen", "asleep"} /\ scheduler.interval # memory.interval =>
        scheduler.seen # version \/ InFlight("interval") # {} \/ "interval" \in unsaved

(* After the schedule was acknowledged as off, one scan at most begins: that of a timer  *)
(* that was due with the change (restore asks the user to switch the schedule off and to *)
(* wait for the end of the scan).                                                        *)
OneLateScan == late <= 1

(* The invariant of the settings and of the scheduler that lives by them (run_scheduler). *)
SettingsInv == SettingsTypeOK /\ ChangesAreHeard /\ OneLateScan

(* An acknowledged change that met no other change of its kind is what a restart loads.  *)
(* (Two that meet may save in the opposite order: save_setting runs outside the lock.)    *)
AcknowledgedSurvives == \A k \in clean : Load(k) = memory[k]

(* The scheduler comes to sleep by the interval in force, once that stays what it is, was *)
(* saved, and the scans it begins end.                                                   *)
ScheduleFollows ==
    \A n \in Delays :
        (<>[](memory.interval = n /\ "interval" \notin unsaved)) =>
            <>[](scheduler.pc = "asleep" => scheduler.interval = n)
===============================================================================
