------------------------------- MODULE MCParts -------------------------------
(* The smaller components for TLC: AudioCapture, LiveAudio, BatteryLog and *)
(* BootCommand of the device, UploadQueue and SyncSchedule of the phone.   *)
(* They share no state but what a reset clears, which each models itself:  *)
(* a behaviour runs one of them, `part`, while the others stand still.     *)
EXTENDS AudioCapture, LiveAudio, BatteryLog, BootCommand, UploadQueue, SyncSchedule

CONSTANTS b, f, t, l1, l2
BootLine   == <<b, t>>
FormatLine == <<f, t, t>>

VARIABLE part

Init ==
    /\ part \in {"capture", "live", "battery", "command", "upload", "schedule"}
    /\ CapInit /\ LiveInit /\ BattInit /\ BootInit /\ UploadInit /\ ScheduleInit
    /\ part # "upload" => auto /\ wifiOnly
    /\ wifiOnly => auto         \* an upload by taps only begins without it
    /\ part # "schedule" => mode = "manual"

Capture  == part = "capture"  /\ CapNext
            /\ UNCHANGED <<part, liveVars, battVars, bootVars, uploadVars, scheduleVars>>
Live     == part = "live"     /\ LiveNext
            /\ UNCHANGED <<part, capVars, battVars, bootVars, uploadVars, scheduleVars>>
Battery  == part = "battery"  /\ BattNext
            /\ UNCHANGED <<part, capVars, liveVars, bootVars, uploadVars, scheduleVars>>
BootCmd  == part = "command"  /\ BootNext
            /\ UNCHANGED <<part, capVars, liveVars, battVars, uploadVars, scheduleVars>>
Upload   == part = "upload"   /\ UploadNext
            /\ UNCHANGED <<part, capVars, liveVars, battVars, bootVars, scheduleVars>>
Schedule == part = "schedule" /\ ScheduleNext
            /\ UNCHANGED <<part, capVars, liveVars, battVars, bootVars, uploadVars>>

partVars == <<part, capVars, liveVars, battVars, bootVars, uploadVars, scheduleVars>>

(* The phone may have nothing left to do; the device always has.           *)
Rest == part \in {"upload", "schedule"} /\ UNCHANGED partVars

Next == Capture \/ Live \/ Battery \/ BootCmd \/ Upload \/ Schedule \/ Rest

Spec ==
    /\ Init /\ [][Next]_partVars
    /\ WF_capVars(part = "capture" /\ CaptureThread)
    /\ WF_uploadVars(part = "upload" /\ FinishWrite)
    /\ \A l \in Loops : WF_uploadVars(part = "upload" /\ LoopStep(l))

(* Bounds of the upload part: two chunks and one upset, or one and two;    *)
(* the second chunk has a later name or that of the first; l1 is the first *)
(* sync object; taps and the Wi-Fi only where the settings heed them.      *)
Bounded ==
    part = "upload" =>
        /\ count' + upsets' <= 3
        /\ count' # count => nameOf'[count'] <= count'
        /\ pc[l2] = "none" /\ pc'[l2] # "none" => pc[l1] # "none"
        /\ wifi' # wifi => wifiOnly
        /\ auto => \A l \in Loops : manual'[l] => manual[l]

(* The pure functions, against what defines them, over all their inputs.   *)
ASSUME LevelsComeBack == \A level \in Levels : Nearest(OmiGain(level)) = level
ASSUME NearestIsNearest ==
    \A gain \in Gains, level \in Levels : Delta(gain, Nearest(gain)) <= Delta(gain, level)
ASSUME PercentRises ==
    \A mv \in 2900 .. 4300 : /\ Percent(mv) \in 0 .. 100
                             /\ Percent(mv) <= Percent(mv + 1)
=============================================================================
