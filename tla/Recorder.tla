------------------------------ MODULE Recorder ------------------------------
(***************************************************************************)
(* The recorder of the mozzy firmware (firmware/src/wr_recorder.c) with    *)
(* everything that calls it: the codec thread that submits Opus packets,   *)
(* the BLE RX thread (recording control, time sync), the button thread,    *)
(* the deep-sleep path, and power loss.                                    *)
(*                                                                         *)
(* The firmware runs on one core.  The recorder thread (priority 8) is     *)
(* preempted by all the others at every step below; the button thread      *)
(* (priority 7) is preempted by BLE RX and by the codec, never by the      *)
(* recorder, so recorder steps wait for btn = "idle"; BLE RX and the       *)
(* system workqueue are cooperative and run a handler in one step.         *)
(***************************************************************************)
EXTENDS SdCard

CONSTANTS
    QueueDepth,         \* RECORD_QUEUE_DEPTH
    BufferRecords,      \* records that fit RECORD_WRITE_BUFFER_SIZE
    CheckpointInterval, \* RECORD_CHECKPOINT_INTERVAL_PACKETS
    SleepTurns,         \* recorder turns that fit the 600 ms of enter_deep_sleep
    Skews,              \* phone clock minus true time, over the phones that sync
    MaxPackets, MaxDrops, MaxRequests, MaxTime, MaxFaults, MaxCrashes
                        \* bounds of the model: nothing in the code limits these

(* Two timeouts of RECORD_IDLE_FLUSH_MS fit the 600 ms.                    *)
ASSUME RecorderAssumption ==
    /\ {QueueDepth, BufferRecords, CheckpointInterval} \subseteq Nat \ {0}
    /\ SleepTurns \in Nat /\ SleepTurns >= 2
    /\ Skews \subseteq Nat
    /\ {MaxPackets, MaxDrops, MaxRequests, MaxTime, MaxFaults, MaxCrashes} \subseteq Nat

VARIABLES
    \* the recorder thread and what it alone touches
    pc,             \* where record_entry (or, at boot, wr_recorder_start) stands
    hand,           \* the packet k_msgq_get returned: <<p>>, or <<>> on timeout
    buf,            \* write_buffer[0 .. write_buffer_used)
    written,        \* written_packets
    lastCheckpoint, \* last_checkpoint_packet
    delta,          \* make_record_path's delta_ms, in seconds
    \* shared between threads
    queue,          \* record_queue
    active,         \* recording_active
    dropped,        \* dropped_packets
    pausePending, resumePending, syncPending,
    timeSynced, syncEpoch, syncTime,    \* time_synced, sync_epoch_secs, sync_uptime_ms
    epochNamed,     \* file_is_epoch_named
    \* button thread and power
    btn,            \* second half of the request the button thread is in
    power,          \* "on", waiting out the 600 ms ("btn", "ble"), or "off"
    turns,          \* recorder turns begun since the deep-sleep request
    \* time, and the counters the bounds cap
    now, requests, faults, crashes,
    \* history, for the properties only
    nextId,         \* capture number of the next packet
    firstId,        \* nextId when the current file was opened
    session,        \* files opened so far
    home,           \* record_path of the last of them
    clean,          \* no fs call failed on the current file
    overridden      \* a resume request arrived after the deep-sleep request

threadVars  == <<pc, hand, buf, written, lastCheckpoint, delta>>
flagVars    == <<pausePending, resumePending>>
syncVars    == <<syncPending, timeSynced, syncEpoch, syncTime, epochNamed>>
powerVars   == <<btn, power, turns, overridden>>
boundVars   == <<now, requests, faults, crashes>>
ghostVars   == <<nextId, firstId, session, home, clean>>
vars == <<cardVars, threadVars, queue, active, dropped, flagVars, syncVars,
          powerVars, boundVars, ghostVars>>

PC == {"boot", "none", "get", "pause", "flush", "close", "deactivate", "resume",
       "begin", "epoch", "open", "reset", "activate", "work", "checkpoint", "sync"}

ThreadTypeOK ==
    /\ pc \in PC
    /\ hand \in Seq(Packet) /\ Len(hand) <= 1
    /\ buf \in Seq(Packet) /\ Len(buf) <= BufferRecords
    /\ queue \in Seq(Packet) /\ Len(queue) <= QueueDepth

FlagTypeOK ==
    /\ active \in BOOLEAN /\ pausePending \in BOOLEAN /\ resumePending \in BOOLEAN
    /\ syncPending \in BOOLEAN /\ timeSynced \in BOOLEAN /\ epochNamed \in BOOLEAN
    /\ overridden \in BOOLEAN /\ clean \in BOOLEAN
    /\ btn \in {"idle", "pause", "resume", "sleep"}
    /\ power \in {"on", "btn", "ble", "off"}

CountTypeOK ==
    /\ written \in Nat /\ lastCheckpoint \in Nat /\ delta \in Nat /\ dropped \in Nat
    /\ syncEpoch \in Nat /\ syncTime \in Nat /\ turns \in Nat /\ syncTime <= now
    /\ now \in Nat /\ requests \in Nat /\ faults \in Nat /\ crashes \in Nat
    /\ nextId \in Nat /\ firstId \in Nat /\ session \in Nat
    /\ home \in Name \cup {NoName}

TypeOK == CardTypeOK /\ ThreadTypeOK /\ FlagTypeOK /\ CountTypeOK
-----------------------------------------------------------------------------
(***************************************************************************)
(* Initial state: power applied, the SD worker about to mount the card.    *)
(***************************************************************************)
Init ==
    /\ CardInit
    /\ pc = "boot" /\ hand = <<>> /\ buf = <<>>
    /\ written = 0 /\ lastCheckpoint = 0 /\ delta = 0
    /\ queue = <<>> /\ active = FALSE /\ dropped = 0
    /\ pausePending = FALSE /\ resumePending = FALSE
    /\ syncPending = FALSE /\ timeSynced = FALSE /\ epochNamed = FALSE
    /\ syncEpoch = 0 /\ syncTime = 0
    /\ btn = "idle" /\ power = "on" /\ turns = 0 /\ overridden = FALSE
    /\ now = 0 /\ requests = 0 /\ faults = 0 /\ crashes = 0
    /\ nextId = 1 /\ firstId = 1 /\ session = 0
    /\ home = NoName /\ clean = TRUE

Fault   == faults < MaxFaults /\ faults' = faults + 1
NoFault == UNCHANGED faults
Request == power # "off" /\ requests < MaxRequests /\ requests' = requests + 1

(***************************************************************************)
(* The codec thread: wr_recorder_submit_opus, once per captured packet.  A *)
(* packet longer than 255 bytes, or one the queue has no room for, is      *)
(* dropped; the codec never waits.                                         *)
(***************************************************************************)
QueueFullLate == Len(queue) = QueueDepth + 1                        \* mutant
QueueFull     == Len(queue) = QueueDepth

Submit(oversize) ==
    /\ power # "off" /\ active
    /\ IF oversize \/ QueueFull
       THEN /\ dropped < MaxDrops
            /\ dropped' = dropped + 1
            /\ UNCHANGED <<queue, nextId>>
       ELSE /\ nextId <= MaxPackets
            /\ queue' = Append(queue, [id |-> nextId, session |-> session])
            /\ nextId' = nextId + 1
            /\ UNCHANGED dropped
    /\ UNCHANGED <<cardVars, threadVars, active, flagVars, syncVars, powerVars,
                   boundVars, firstId, session, home, clean>>

(***************************************************************************)
(* BLE RX: recording control and time sync.                                *)
(***************************************************************************)
Sleeping == power # "on"        \* a deep-sleep request is waiting out its 600 ms

(* wr_rec_control_write, value 0: wr_recorder_pause.                       *)
BlePause ==
    /\ Request
    /\ resumePending' = FALSE /\ pausePending' = TRUE
    /\ UNCHANGED <<cardVars, threadVars, queue, active, dropped, syncVars,
                   powerVars, now, faults, crashes, ghostVars>>

(* value 1: wr_recorder_resume.                                            *)
BleResume ==
    /\ Request
    /\ pausePending' = FALSE /\ resumePending' = TRUE
    /\ overridden' = (overridden \/ Sleeping \/ btn = "sleep")
    /\ UNCHANGED <<cardVars, threadVars, queue, active, dropped, syncVars,
                   btn, power, turns, now, faults, crashes, ghostVars>>

(* value >= 2: sleep_work runs enter_deep_sleep on the system workqueue.   *)
(* While the button thread waits out its own 600 ms, that one ends first.  *)
BleSleep ==
    /\ Request /\ power \in {"on", "btn"}
    /\ resumePending' = FALSE /\ pausePending' = TRUE
    /\ IF power = "on"
       THEN power' = "ble" /\ turns' = 0 /\ overridden' = FALSE
       ELSE UNCHANGED <<power, turns, overridden>>
    /\ UNCHANGED <<cardVars, threadVars, queue, active, dropped, syncVars,
                   btn, now, faults, crashes, ghostVars>>

(* wr_recorder_set_sync_time, with the time of a phone that is skew off.   *)
SetSyncTime(skew) ==
    /\ Request
    /\ syncEpoch' = now + skew /\ syncTime' = now /\ timeSynced' = TRUE
    /\ syncPending' = (syncPending \/ (active /\ ~epochNamed))
    /\ UNCHANGED <<cardVars, threadVars, queue, active, dropped, flagVars,
                   epochNamed, powerVars, now, faults, crashes, ghostVars>>

(***************************************************************************)
(* The button thread.  wr_recorder_pause and wr_recorder_resume clear one  *)
(* flag and then set the other; BLE RX can run in between.                 *)
(***************************************************************************)
BtnBegin(request) ==
    /\ power \in {"on", "ble"} /\ btn = "idle"
    /\ Request
    /\ btn' = request
    /\ IF request = "resume"
       THEN pausePending' = FALSE /\ UNCHANGED resumePending
       ELSE resumePending' = FALSE /\ UNCHANGED pausePending
    /\ overridden' = CASE request = "sleep"  -> overridden /\ Sleeping
                       [] request = "resume" -> overridden \/ Sleeping
                       [] OTHER              -> overridden
    /\ UNCHANGED <<cardVars, threadVars, queue, active, dropped, syncVars,
                   power, turns, now, faults, crashes, ghostVars>>

(* Short press: toggle_recording.                                          *)
ToggleRecording == BtnBegin(IF active THEN "pause" ELSE "resume")

(* Long press: enter_deep_sleep, up to its k_sleep.                        *)
LongPress == BtnBegin("sleep")

BtnFinish ==
    /\ power # "off" /\ btn # "idle"
    /\ btn' = "idle"
    /\ IF btn = "resume"
       THEN resumePending' = TRUE /\ UNCHANGED pausePending
       ELSE pausePending' = TRUE /\ UNCHANGED resumePending
    /\ IF btn = "sleep"
       THEN power' = "btn" /\ turns' = IF Sleeping THEN turns ELSE 0
       ELSE UNCHANGED <<power, turns>>
    /\ overridden' = (overridden \/ (btn = "resume" /\ Sleeping))
    /\ UNCHANGED <<cardVars, threadVars, queue, active, dropped, syncVars,
                   boundVars, ghostVars>>
-----------------------------------------------------------------------------
(***************************************************************************)
(* The recorder thread: one turn of record_entry is get, pause, [flush,    *)
(* close, deactivate,] resume, [begin, epoch, open, reset, activate,]      *)
(* work, [checkpoint, sync].  Each action runs to the next point where     *)
(* another thread can see or change something the turn still uses.         *)
(***************************************************************************)
At(label)  == power # "off" /\ btn = "idle" /\ pc = label
Goto(label) == pc' = label

CountTurn ==
    turns' = IF power \in {"btn", "ble"} /\ turns < SleepTurns THEN turns + 1 ELSE turns

GetPacket ==
    /\ At("get") /\ Goto("pause")
    /\ queue # <<>>
    /\ hand' = <<Head(queue)>> /\ queue' = Tail(queue)
    /\ CountTurn
    /\ UNCHANGED <<cardVars, buf, written, lastCheckpoint, delta, active, dropped,
                   flagVars, syncVars, btn, power, overridden, boundVars, ghostVars>>

(* k_msgq_get gives up after RECORD_IDLE_FLUSH_MS with nothing queued.     *)
GetTimeout ==
    /\ At("get") /\ Goto("pause")
    /\ queue = <<>>
    /\ hand' = <<>>
    /\ CountTurn
    /\ UNCHANGED <<cardVars, buf, written, lastCheckpoint, delta, queue, active,
                   dropped, flagVars, syncVars, btn, power, overridden, boundVars,
                   ghostVars>>

(* apply_pause_resume: the flag is consumed even when nothing is recording. *)
TakePauseKeepingFile ==                                             \* mutant
    /\ At("pause")
    /\ pausePending' = FALSE
    /\ Goto(IF pausePending /\ active THEN "deactivate" ELSE "resume")
    /\ UNCHANGED <<cardVars, hand, buf, written, lastCheckpoint, delta, queue, active,
                   dropped, resumePending, syncVars, powerVars, boundVars, ghostVars>>

TakePauseWhenIdle ==                                                \* mutant
    /\ At("pause")
    /\ pausePending' = FALSE
    /\ Goto(IF pausePending /\ active /\ hand = <<>> THEN "flush" ELSE "resume")
    /\ UNCHANGED <<cardVars, hand, buf, written, lastCheckpoint, delta, queue, active,
                   dropped, resumePending, syncVars, powerVars, boundVars, ghostVars>>

TakePause ==
    /\ At("pause")
    /\ pausePending' = FALSE
    /\ Goto(IF pausePending /\ active THEN "flush" ELSE "resume")
    /\ UNCHANGED <<cardVars, hand, buf, written, lastCheckpoint, delta, queue, active,
                   dropped, resumePending, syncVars, powerVars, boundVars, ghostVars>>

(* flush_write_buffer.  A write that fails has put some of the records on  *)
(* the card, perhaps a piece of the next one too; the buffer keeps them    *)
(* all, and the next flush writes them again from the first.               *)
WriteBufferTwice ==                                                 \* mutant
    /\ FsWrite(buf) /\ UNCHANGED buf
    /\ NoFault /\ UNCHANGED clean

WriteBuffer ==
    /\ FsWrite(buf) /\ buf' = <<>>
    /\ NoFault /\ UNCHANGED clean

WriteFailsDropping ==                                               \* mutant
    /\ buf # <<>> /\ buf' = <<>>
    /\ Fault /\ clean' = FALSE
    /\ \E k \in 0 .. Len(buf) - 1 : FsWrite(SubSeq(buf, 1, k))

WriteFails ==
    /\ buf # <<>>
    /\ Fault /\ clean' = FALSE
    /\ \E k \in 0 .. Len(buf) - 1, piece \in {<<>>, <<Fragment(session)>>} :
          FsWrite(SubSeq(buf, 1, k) \o piece)
    /\ UNCHANGED buf

PauseFlush ==
    /\ At("flush") /\ Goto("close")
    /\ WriteBuffer \/ WriteFails
    /\ UNCHANGED <<hand, written, lastCheckpoint, delta, queue, active, dropped,
                   flagVars, syncVars, powerVars, now, requests, crashes,
                   nextId, firstId, session, home>>

PauseClose ==
    /\ At("close") /\ Goto("deactivate")
    /\ \/ FsClose(TRUE) /\ NoFault /\ UNCHANGED clean
       \/ FsClose(FALSE) /\ Fault /\ clean' = FALSE
    /\ UNCHANGED <<hand, buf, written, lastCheckpoint, delta, queue, active, dropped,
                   flagVars, syncVars, powerVars, now, requests, crashes,
                   nextId, firstId, session, home>>

Deactivate ==
    /\ At("deactivate") /\ Goto("resume")
    /\ active' = FALSE
    /\ UNCHANGED <<cardVars, hand, buf, written, lastCheckpoint, delta, queue, dropped,
                   flagVars, syncVars, powerVars, boundVars, ghostVars>>

TakeResumeWhenIdle ==                                               \* mutant
    /\ At("resume")
    /\ resumePending' = FALSE
    /\ Goto(IF resumePending /\ ~active /\ hand = <<>> THEN "begin" ELSE "work")
    /\ UNCHANGED <<cardVars, hand, buf, written, lastCheckpoint, delta, queue, active,
                   dropped, pausePending, syncVars, powerVars, boundVars, ghostVars>>

TakeResume ==
    /\ At("resume")
    /\ resumePending' = FALSE
    /\ Goto(IF resumePending /\ ~active THEN "begin" ELSE "work")
    /\ UNCHANGED <<cardVars, hand, buf, written, lastCheckpoint, delta, queue, active,
                   dropped, pausePending, syncVars, powerVars, boundVars, ghostVars>>

(* sd_worker at boot: mount, then wr_recorder_start, which opens a file    *)
(* the way a resume does and starts the thread whether or not it could.    *)
(* Without a card the thread is never created.                             *)
Mount ==
    /\ At("boot")
    /\ \/ Goto("begin") /\ NoFault
       \/ Goto("none") /\ Fault
    /\ UNCHANGED <<cardVars, hand, buf, written, lastCheckpoint, delta, queue, active,
                   dropped, flagVars, syncVars, powerVars, now, requests, crashes,
                   ghostVars>>

(* make_record_path.  Once the phone has given the time, the name is its   *)
(* epoch plus the uptime since: the two are read one after the other.      *)
AnyRecs  == 1 .. MaxRec                                             \* mutant
FreeRecs == {i \in 1 .. MaxRec : RecName(i) \notin DOMAIN files}

BeginEpochPath ==
    /\ At("begin") /\ Goto("epoch")
    /\ timeSynced
    /\ delta' = now - syncTime
    /\ UNCHANGED <<cardVars, hand, buf, written, lastCheckpoint, queue, active, dropped,
                   flagVars, syncVars, powerVars, boundVars, ghostVars>>

FinishEpochPath ==
    /\ At("epoch") /\ Goto("open")
    /\ path' = EpochName(syncEpoch + delta)
    /\ UNCHANGED <<files, open, pos, hand, buf, written, lastCheckpoint, delta, queue,
                   active, dropped, flagVars, syncVars, powerVars, boundVars, ghostVars>>

(* Before that, the first rec_NNNN without a file; a name whose fs_stat    *)
(* fails is passed over, and the scan can fail (too many errors, no name), *)
(* which leaves record_path at the last name it tried.                     *)
ScanRecPath ==
    /\ At("begin")
    /\ ~timeSynced
    /\ \/ \E i \in FreeRecs :
             /\ path' = RecName(i)
             /\ IF \A j \in FreeRecs : i <= j THEN NoFault ELSE Fault
             /\ Goto("open")
       \/ /\ IF FreeRecs = {} THEN path' = RecName(MaxRec) /\ NoFault
             ELSE (\E i \in 1 .. MaxRec : path' = RecName(i)) /\ Fault
          /\ Goto("work")
    /\ UNCHANGED <<files, open, pos, hand, buf, written, lastCheckpoint, delta, queue,
                   active, dropped, flagVars, syncVars, powerVars, now, requests,
                   crashes, ghostVars>>

(* open_new_record_file: fs_open, then the reset of the per-file state.    *)
OpenFileUnchecked ==                                                \* mutant
    /\ At("open") /\ Goto("reset")
    /\ (FsOpen /\ NoFault) \/ (UNCHANGED cardVars /\ Fault)
    /\ UNCHANGED <<hand, buf, written, lastCheckpoint, delta, queue, active, dropped,
                   flagVars, syncVars, powerVars, now, requests, crashes, ghostVars>>

OpenFile ==
    /\ At("open")
    /\ \/ FsOpen /\ NoFault /\ Goto("reset")
       \/ UNCHANGED cardVars /\ Fault /\ Goto("work")
    /\ UNCHANGED <<hand, buf, written, lastCheckpoint, delta, queue, active, dropped,
                   flagVars, syncVars, powerVars, now, requests, crashes, ghostVars>>

KeepQueue  == UNCHANGED queue                                       \* mutant
PurgeQueue == queue' = <<>>

ResetFileState ==
    /\ At("reset") /\ Goto("activate")
    /\ PurgeQueue /\ buf' = <<>> /\ written' = 0 /\ lastCheckpoint' = 0
    /\ epochNamed' = timeSynced /\ syncPending' = FALSE
    /\ session' = session + 1 /\ firstId' = nextId
    /\ home' = path /\ clean' = TRUE
    /\ UNCHANGED <<cardVars, hand, delta, active, dropped, flagVars, timeSynced,
                   syncEpoch, syncTime, powerVars, boundVars, nextId>>

Activate ==
    /\ At("activate") /\ Goto("work")
    /\ active' = TRUE
    /\ UNCHANGED <<cardVars, hand, buf, written, lastCheckpoint, delta, queue, dropped,
                   flagVars, syncVars, powerVars, boundVars, ghostVars>>

(* The rest of the turn.  After a timeout, write out what the buffer holds; *)
(* a packet taken while nothing records is thrown away.                    *)
IdleWait ==                                                         \* mutant
    /\ At("work") /\ Goto("get")
    /\ hand = <<>>
    /\ UNCHANGED <<cardVars, hand, buf, written, lastCheckpoint, delta, queue, active,
                   dropped, flagVars, syncVars, powerVars, boundVars, ghostVars>>

IdleFlush ==
    /\ At("work") /\ Goto("get")
    /\ hand = <<>>
    /\ IF active THEN WriteBuffer \/ WriteFails
                 ELSE UNCHANGED <<cardVars, buf, faults, clean>>
    /\ UNCHANGED <<hand, written, lastCheckpoint, delta, queue, active, dropped,
                   flagVars, syncVars, powerVars, now, requests, crashes,
                   nextId, firstId, session, home>>

DiscardPacket ==
    /\ At("work") /\ Goto("get")
    /\ hand # <<>> /\ ~active
    /\ hand' = <<>>
    /\ UNCHANGED <<cardVars, buf, written, lastCheckpoint, delta, queue, active, dropped,
                   flagVars, syncVars, powerVars, boundVars, ghostVars>>

(* apply_sync_rename, which only marks the file, then append_packet.  With *)
(* no room in the buffer the packet waits for a flush, and is lost with it. *)
CheckpointLate == (written + 1) % (CheckpointInterval + 1) = 0      \* mutant
CheckpointDue  == (written + 1) % CheckpointInterval = 0 /\ lastCheckpoint # written + 1

Appended ==
    /\ written' = written + 1
    /\ Goto(IF CheckpointDue THEN "checkpoint" ELSE "get")

AppendPacket ==
    /\ At("work")
    /\ hand # <<>> /\ active
    /\ syncPending' = FALSE /\ epochNamed' = (epochNamed \/ syncPending)
    /\ hand' = <<>>
    /\ \/ /\ Len(buf) < BufferRecords
          /\ buf' = buf \o hand /\ Appended
          /\ NoFault /\ UNCHANGED <<cardVars, clean>>
       \/ /\ Len(buf) = BufferRecords
          /\ FsWrite(buf) /\ buf' = hand /\ Appended
          /\ NoFault /\ UNCHANGED clean
       \/ /\ Len(buf) = BufferRecords
          /\ WriteFails /\ Goto("get") /\ UNCHANGED written
    /\ UNCHANGED <<lastCheckpoint, delta, queue, active, dropped, flagVars, timeSynced,
                   syncEpoch, syncTime, powerVars, now, requests, crashes,
                   nextId, firstId, session, home>>

(* checkpoint_file.  A failed flush leaves last_checkpoint_packet alone; a *)
(* failed fs_sync is counted and otherwise taken for a success.            *)
CheckpointUnflushed ==                                              \* mutant
    /\ At("checkpoint") /\ Goto("sync")
    /\ UNCHANGED <<cardVars, hand, buf, written, lastCheckpoint, delta, queue, active,
                   dropped, flagVars, syncVars, powerVars, boundVars, ghostVars>>

CheckpointFlush ==
    /\ At("checkpoint")
    /\ \/ WriteBuffer /\ Goto("sync")
       \/ WriteFails /\ Goto("get")
    /\ UNCHANGED <<hand, written, lastCheckpoint, delta, queue, active, dropped,
                   flagVars, syncVars, powerVars, now, requests, crashes,
                   nextId, firstId, session, home>>

CheckpointSync ==
    /\ At("sync") /\ Goto("get")
    /\ lastCheckpoint' = written
    /\ \/ FsSync /\ NoFault /\ UNCHANGED clean
       \/ UNCHANGED cardVars /\ Fault /\ clean' = FALSE
    /\ UNCHANGED <<hand, buf, written, delta, queue, active, dropped, flagVars, syncVars,
                   powerVars, now, requests, crashes, nextId, firstId, session, home>>

RecorderThread ==
    \/ GetPacket \/ GetTimeout \/ TakePause \/ PauseFlush \/ PauseClose
    \/ Deactivate \/ TakeResume \/ Mount \/ BeginEpochPath \/ FinishEpochPath
    \/ ScanRecPath \/ OpenFile \/ ResetFileState \/ Activate \/ IdleFlush
    \/ DiscardPacket \/ AppendPacket \/ CheckpointFlush \/ CheckpointSync
-----------------------------------------------------------------------------
(***************************************************************************)
(* Time, power, the whole system.                                          *)
(***************************************************************************)
Tick ==
    /\ power # "off" /\ now < MaxTime
    /\ now' = now + 1
    /\ UNCHANGED <<cardVars, threadVars, queue, active, dropped, flagVars, syncVars,
                   powerVars, requests, faults, crashes, ghostVars>>

(* enter_deep_sleep after its 600 ms, in which the recorder thread, if     *)
(* there is one, begins SleepTurns turns.                                  *)
PowerOff ==
    /\ power \in {"btn", "ble"} /\ btn = "idle"
    /\ turns = SleepTurns \/ pc \in {"none", "boot"}
    /\ power' = "off"
    /\ UNCHANGED <<cardVars, threadVars, queue, active, dropped, flagVars, syncVars,
                   btn, turns, overridden, boundVars, ghostVars>>

(* RAM is lost and the firmware boots again.                               *)
Reboot ==
    /\ PowerLoss
    /\ pc' = "boot" /\ hand' = <<>> /\ buf' = <<>>
    /\ written' = 0 /\ lastCheckpoint' = 0 /\ delta' = 0
    /\ queue' = <<>> /\ active' = FALSE /\ dropped' = 0
    /\ pausePending' = FALSE /\ resumePending' = FALSE
    /\ syncPending' = FALSE /\ timeSynced' = FALSE /\ epochNamed' = FALSE
    /\ syncEpoch' = 0 /\ syncTime' = 0
    /\ btn' = "idle" /\ power' = "on" /\ turns' = 0 /\ overridden' = FALSE
    /\ UNCHANGED <<now, faults, ghostVars>>

Crash ==
    /\ power # "off" /\ crashes < MaxCrashes /\ crashes' = crashes + 1
    /\ Reboot /\ UNCHANGED requests

WakeUp ==
    /\ power = "off" /\ requests < MaxRequests /\ requests' = requests + 1
    /\ Reboot /\ UNCHANGED crashes

Next ==
    \/ RecorderThread
    \/ \E oversize \in BOOLEAN : Submit(oversize)
    \/ BlePause \/ BleResume \/ BleSleep
    \/ \E skew \in Skews : SetSyncTime(skew)
    \/ ToggleRecording \/ LongPress \/ BtnFinish
    \/ Tick \/ PowerOff \/ Crash \/ WakeUp

Spec == Init /\ [][Next]_vars

(* The scheduler runs the recorder thread and the button thread when they  *)
(* are ready: no higher thread spins, all of them wait for events.         *)
LiveSpec == Spec /\ WF_vars(RecorderThread) /\ WF_vars(BtnFinish)
-----------------------------------------------------------------------------
(***************************************************************************)
(* Properties.  The recording in progress is what the handle has written,  *)
(* then the buffer; behind it come the packet in hand and the queue.       *)
(***************************************************************************)
Recording == open /\ pc # "reset"
Stored    == SubSeq(files[path].live, 1, pos) \o buf
Pipeline  == Stored \o hand \o queue
StaleHead == IF Pipeline # <<>> /\ Pipeline[1].session # session THEN 1 ELSE 0

(* The thread writes, syncs and closes only through an open handle, also   *)
(* after a resume whose fs_open failed: recording_active is never set      *)
(* without one (wr_recorder.c:282-291, 311, 315).                          *)
HandleOpen ==
    /\ active /\ pc # "deactivate" => open
    /\ pc \in {"flush", "close", "checkpoint", "sync", "activate"} => open

(* A packet accepted in one recording session never lands in the file of   *)
(* another, but for the one packet the thread had in hand when the resume  *)
(* was applied (wr_recorder.c:302-305): that one can head the new file.    *)
SessionIsolation ==
    /\ \A i \in 1 .. Len(queue) : queue[i].session = session
    /\ Recording =>
          \A i, j \in 1 .. Len(Stored) :
             Stored[i].session # session /\ Stored[j].session # session
                => Stored[i] = Stored[j]

(* While recording, and as long as no fs call failed on the file, every    *)
(* packet accepted since the file was opened is in the file, the buffer,   *)
(* the thread's hand or the queue: once, in capture order, without a gap.  *)
NoSilentLoss ==
    Recording /\ active /\ clean =>
       /\ Len(Pipeline) - StaleHead = nextId - firstId
       /\ \A i \in 1 .. nextId - firstId :
             Pipeline[StaleHead + i] = [id |-> firstId + i - 1, session |-> session]

(* A crash costs a recording at most one checkpoint interval of stored     *)
(* packets: all but the last CheckpointInterval that were written are in   *)
(* its file when the firmware comes back.                                  *)
CrashLosesAtMostOneInterval ==
    [][crashes' # crashes /\ Recording /\ clean /\ written > CheckpointInterval =>
         /\ path \in DOMAIN files'
         /\ \A i \in 1 .. written - CheckpointInterval :
              /\ i <= Len(files'[path].live)
              /\ files'[path].live[i] = Stored[i]]_vars

(* What is in a rec_NNNN file stays there as long as the card has power:   *)
(* the scan for a free name never hands out a recording that exists.       *)
IsPrefixOf(s, t) == Len(s) <= Len(t) /\ SubSeq(t, 1, Len(s)) = s

RecFilesAppendOnly ==
    [][pc' # "boot" =>
         \A i \in 1 .. MaxRec : RecName(i) \in DOMAIN files =>
            /\ RecName(i) \in DOMAIN files'
            /\ IsPrefixOf(files[RecName(i)].live, files'[RecName(i)].live)]_vars

(* Deep sleep cuts the power with the last recording closed, and on the    *)
(* card unless an fs call on it failed, when nobody asked to resume since  *)
(* (wr_button.c:40-56).                                                    *)
DeepSleepCommits ==
    power = "off" /\ ~overridden =>
       /\ ~open
       /\ clean /\ home \in DOMAIN files => files[home].live = files[home].disk

(* A pause request closes the recording, or a resume request overtakes it. *)
PauseTakesEffect ==
    pausePending ~> (~open \/ resumePending \/ power = "off")

(* On a card that works, a resume request ends in a recording, unless a    *)
(* pause request overtakes it.                                             *)
ResumeTakesEffect ==
    resumePending ~> (active \/ pausePending \/ power = "off")

(* A packet accepted for recording reaches its file, or the recording is   *)
(* stopped, or an fs call on the file failed, or a deep sleep is asked for. *)
InFlight(i) == \E k \in 1 .. Len(hand \o queue \o buf) : (hand \o queue \o buf)[k].id = i
OnCard(i)   == \E n \in DOMAIN files : \E k \in 1 .. Len(files[n].live) : files[n].live[k].id = i

PacketsReachTheCard ==
    \A i \in 1 .. MaxPackets :
       (active /\ clean /\ InFlight(i)) ~> (OnCard(i) \/ ~active \/ ~clean \/ Sleeping)
-----------------------------------------------------------------------------
(***************************************************************************)
(* The recorder implements RecordingLog: to a reader who knows nothing of  *)
(* the buffer, the retries and the checkpoints, the recording in progress  *)
(* is one growing log (wr_recorder.c:117-208, 230-256, 273-339).           *)
(***************************************************************************)
StoredIds == IF Recording THEN [i \in 1 .. Len(Stored) |-> Stored[i].id] ELSE <<>>

Log == INSTANCE RecordingLog WITH on <- Recording, log <- StoredIds

ImplementsRecordingLog == Log!LogSpec
-----------------------------------------------------------------------------
(***************************************************************************)
(* The strengthening that makes the properties above inductive: which pc   *)
(* values go with a recording in progress and with an open handle, and     *)
(* where the packet in hand can come from.                                 *)
(***************************************************************************)
Idle    == {"boot", "none", "begin", "epoch", "open", "reset", "activate"}
Writing == {"flush", "close", "deactivate", "checkpoint", "sync"}

(* recording_active is set at exactly the steps the control flow says, and *)
(* the handle is open exactly while it is, give or take one step; fs_open  *)
(* is called with a path made by make_record_path.                         *)
ControlInv ==
    /\ pc \in Idle => ~active
    /\ pc \in Writing => active
    /\ open <=> (active /\ pc # "deactivate") \/ pc \in {"reset", "activate"}
    /\ pc = "open" => path \in Name

(* The queue holds packets of the current session only.  The hand can hold *)
(* one of an earlier session only between the reset that began the current *)
(* one and the end of that turn, and nothing is stored before it.          *)
StoredSet == {files[path].live[i] : i \in 1 .. pos} \cup {buf[i] : i \in 1 .. Len(buf)}

QueueFresh == \A i \in 1 .. Len(queue) : queue[i].session = session

HandFresh ==
    hand # <<>> /\ hand[1].session # session =>
       pc \in {"activate", "work"} /\ open /\ pos = 0 /\ buf = <<>>

OneStranger ==
    Recording => \A x, y \in StoredSet : x.session # session /\ y.session # session => x = y

IsolationInv ==
    /\ QueueFresh /\ HandFresh /\ OneStranger
    /\ pc = "reset" => pos = 0

(* Once a deep sleep is asked for, and until a resume is, the pause it set *)
(* is pending, is being carried out, or was carried out: it is taken in    *)
(* the first turn the thread begins in the wait, and nothing resumes.      *)
PauseSteps == {"flush", "close", "deactivate"}
AtRest     == ~open /\ pc \in {"none", "get", "pause", "resume", "work"}

NoResumeLeft == btn = "sleep" \/ Sleeping => ~resumePending

PauseUnderWay ==
    power \in {"btn", "ble"} =>
       \/ AtRest
       \/ pc \in PauseSteps /\ turns <= 1
       \/ pausePending /\ turns = 0
       \/ pausePending /\ turns = 1 /\ pc = "pause"

SleepInv ==
    ~overridden => NoResumeLeft /\ PauseUnderWay /\ (power = "off" => ~open)

(* The last recording is on record_path while the handle is open; closed   *)
(* without an error, all of it is on the card.                             *)
HomeInv ==
    /\ Recording => home = path
    /\ ~Recording /\ clean /\ home \in DOMAIN files => files[home].live = files[home].disk
-----------------------------------------------------------------------------
(***************************************************************************)
(* What a comment in the code says and the code does not do.               *)
(***************************************************************************)

(* wr_recorder.c:271-272: "resuming opens a fresh file."                   *)
ResumeOpensFreshFile ==
    [][pc = "open" /\ pc' = "reset" => path \notin DOMAIN files]_vars
=============================================================================
