---------------------------- MODULE SyncSchedule ----------------------------
(***************************************************************************)
(* When the SD sync pulls: SyncSchedule.shouldStart (wr_sync_schedule.dart)*)
(* and the turns of WrSdSync._loop (wr_sd_sync.dart) around it.  What a    *)
(* pull does is SdSync's; here it throws, brings something or finds all of *)
(* it fetched.                                                             *)
(*                                                                         *)
(* Time goes in slots, DayLength to a day.  The loop looks at its schedule *)
(* at least once in a slot, as its longest sleep is 20 s, and a pull takes *)
(* as long as it takes.                                                    *)
(***************************************************************************)
EXTENDS Integers

CONSTANTS
    DayLength,              \* slots of a day
    Time,                   \* timeMinutes
    Interval,               \* intervalMin
    WindowStart, WindowEnd, \* windowStartMin, windowEndMin
    MaxDays,                \* bounds: days,
    MaxChanges              \*   taps and changes of the settings

ASSUME ScheduleAssumption ==
    /\ DayLength \in Nat \ {0} /\ Time \in 0 .. DayLength - 1 /\ Interval \in Nat
    /\ WindowStart \in 0 .. DayLength - 1 /\ WindowEnd \in 0 .. DayLength - 1
    /\ MaxDays \in Nat /\ MaxChanges \in Nat

Modes == {"continuous", "scheduled", "window", "manual"}
Never == -1

VARIABLES
    now,            \* slots since the first midnight
    mode, loaded,   \* the mode in the settings, and in _schedule
    loopPc,         \* the loop: "poll", "sleep" or "pull"
    trigger,        \* _manualTrigger
    active,         \* _timedDrainActive
    lastDate,       \* day of _lastScheduledDate
    lastRun,        \* _lastIntervalRun
    changes,
    steady          \* history: the mode was "scheduled" all this day

scheduleVars == <<now, mode, loaded, loopPc, trigger, active, lastDate, lastRun, changes, steady>>

Day(slot)    == slot \div DayLength
Minute(slot) == slot % DayLength
-----------------------------------------------------------------------------
ScheduleInit ==
    /\ now = 0 /\ mode \in Modes /\ loaded = mode /\ loopPc = "poll"
    /\ trigger = FALSE /\ active = FALSE /\ lastDate = Never /\ lastRun = Never
    /\ changes = 0 /\ steady = (mode = "scheduled")

InWindow ==
    IF WindowStart <= WindowEnd
    THEN Minute(now) >= WindowStart /\ Minute(now) <= WindowEnd
    ELSE Minute(now) >= WindowStart \/ Minute(now) <= WindowEnd

RanOnce == lastDate # Never                                          \* mutant
RanToday == lastDate = Day(now)

ShouldStart(m) ==
    \/ m = "continuous"
    \/ m = "scheduled" /\ ~RanToday /\ Minute(now) >= Time
    \/ m = "window" /\ InWindow /\ (lastRun = Never \/ now - lastRun >= Interval)
-----------------------------------------------------------------------------
(* A turn of the loop.  A tap is taken first; in manual mode there is      *)
(* nothing but taps, and what was left of a pull is given up.              *)
Pulls == trigger \/ (mode # "manual" /\ (active \/ ShouldStart(mode)))

Poll ==
    /\ loopPc = "poll"
    /\ loaded' = mode
    /\ trigger' = FALSE
    /\ active' = (active /\ (trigger \/ mode # "manual"))
    /\ loopPc' = IF Pulls THEN "pull" ELSE "sleep"
    /\ UNCHANGED <<now, mode, lastDate, lastRun, changes, steady>>

(* The pull throws: the loop tries again, if it still has a reason to.     *)
PullThrows ==
    /\ loopPc = "pull" /\ loopPc' = "poll"
    /\ UNCHANGED <<now, mode, loaded, trigger, active, lastDate, lastRun, changes, steady>>

(* Except in the continuous mode a pull that brought something goes on.    *)
PullBrings ==
    /\ loopPc = "pull" /\ loaded # "continuous"
    /\ loopPc' = "poll" /\ active' = TRUE
    /\ UNCHANGED <<now, mode, loaded, trigger, lastDate, lastRun, changes, steady>>

(* Done: the day and the time noted are those of the end.                  *)
PullEnds ==
    /\ loopPc = "pull"
    /\ loopPc' = "sleep" /\ active' = FALSE
    /\ lastDate' = Day(now) /\ lastRun' = now
    /\ UNCHANGED <<now, mode, loaded, trigger, changes, steady>>
-----------------------------------------------------------------------------
(* The clock, which a loop that sleeps wakes up to, and the user.          *)
Tick ==
    /\ loopPc # "poll" /\ Day(now + 1) < MaxDays
    /\ now' = now + 1
    /\ loopPc' = IF loopPc = "sleep" THEN "poll" ELSE loopPc
    /\ steady' = IF Day(now') # Day(now) THEN mode = "scheduled" ELSE steady
    /\ UNCHANGED <<mode, loaded, trigger, active, lastDate, lastRun, changes>>

Wake ==
    /\ loopPc = "sleep" /\ loopPc' = "poll"
    /\ UNCHANGED <<now, mode, loaded, trigger, active, lastDate, lastRun, changes, steady>>

TriggerManualPull ==
    /\ changes < MaxChanges /\ changes' = changes + 1
    /\ trigger' = TRUE
    /\ UNCHANGED <<now, mode, loaded, loopPc, active, lastDate, lastRun, steady>>

SaveSchedule ==
    /\ changes < MaxChanges /\ changes' = changes + 1
    /\ mode' \in Modes /\ steady' = FALSE
    /\ UNCHANGED <<now, loaded, loopPc, trigger, active, lastDate, lastRun>>

ScheduleNext ==
    Poll \/ PullThrows \/ PullBrings \/ PullEnds \/ Tick \/ Wake \/ TriggerManualPull \/ SaveSchedule

ScheduleSpec == ScheduleInit /\ [][ScheduleNext]_scheduleVars
-----------------------------------------------------------------------------
(* No scheduled day ends without a pull that ended on it, or one under way *)
(* at midnight.  (A pull tapped in the morning will do, and that of the    *)
(* day before, ended past midnight.)                                       *)
EveryDayIsServed ==
    [][Day(now') # Day(now) /\ steady => lastDate = Day(now) \/ loopPc = "pull"]_scheduleVars
=============================================================================
