---------------------------- MODULE AudioCapture ----------------------------
(***************************************************************************)
(* Audio capture and microphone gain (firmware/src/wr_audio.c and          *)
(* wr_gain_control.c).                                                     *)
(*                                                                         *)
(* The PDM driver takes blocks from a slab and fills them.  The capture    *)
(* thread reads a filled block, copies it into the queue of the codec      *)
(* thread and frees it; it counts failed reads in a row, restarts the      *)
(* driver after RestartAfter and the device after RebootAfter.  The gain   *)
(* is set by BLE writes and once by the capture thread as it starts; each  *)
(* side stores it and then applies it to the microphone.                   *)
(*                                                                         *)
(* The driver is external: it stalls, is out of blocks, fails to start.    *)
(***************************************************************************)
EXTENDS Integers, Sequences

CONSTANTS
    Blocks,         \* DMIC_BLOCK_COUNT
    PcmDepth,       \* PCM_QUEUE_DEPTH
    RestartAfter,   \* DMIC_RESTART_AFTER
    RebootAfter,    \* DMIC_REBOOT_AFTER
    LevelWrites,    \* levels a phone writes, and
    RawWrites,      \*   raw gains
    MaxGainWrites,  \* bound on the two
    MaxStalls       \* bound on stalls

ASSUME CaptureAssumption ==
    /\ Blocks \in Nat \ {0} /\ PcmDepth \in Nat \ {0}
    /\ RestartAfter \in Nat \ {0} /\ RebootAfter \in Nat /\ RestartAfter < RebootAfter
    /\ LevelWrites \subseteq 0 .. 255 /\ RawWrites \subseteq 0 .. 255
    /\ MaxGainWrites \in Nat /\ MaxStalls \in Nat

VARIABLES
    mic,            \* the driver: "off", "on" or "stalled"
    free, filled,   \* blocks in the slab, and filled ones not yet read
    pcm,            \* frames in pcm_queue
    capPc, fails,   \* the capture thread; consecutive_fail
    bootGain,       \*   what it read of pdm_gain as it started
    pdmGain,        \* pdm_gain
    hwGain,         \* the gain registers of the microphone
    omiLevel,       \* current_omi_gain_level
    write,          \* a gain write in BLE RX: its next step and its gain
    stalls, gainWrites,
    raced           \* history: a write fell into the start of the capture

capVars == <<mic, free, filled, pcm, capPc, fails, bootGain, pdmGain, hwGain,
             omiLevel, write, stalls, gainWrites, raced>>
driver  == <<mic, free, filled>>
gains   == <<bootGain, pdmGain, hwGain, omiLevel, write, raced>>
capture == <<capPc, fails>>
bounds  == <<stalls, gainWrites>>

Starting  == {"configure", "get", "set", "apply", "start"}
Capturing == {"read", "put", "free", "restart"}
-----------------------------------------------------------------------------
(* Gain.                                                                   *)
Levels      == 0 .. 8
PdmGain     == <<0, 20, 30, 40, 46, 50, 64, 70, 80>>    \* by level + 1
GainMaximum == 80
DefaultGain == 64
DriverGain  == 40           \* after dmic_configure
Gains       == 0 .. 255

ClampLevel(level) == IF level > 8 THEN 8 ELSE level
ClampGain(gain)   == IF gain > GainMaximum THEN GainMaximum ELSE gain
OmiGain(level)    == PdmGain[ClampLevel(level) + 1]
Delta(gain, level) == IF gain > PdmGain[level + 1] THEN gain - PdmGain[level + 1]
                                                   ELSE PdmGain[level + 1] - gain

(* pdm_gain_to_omi_level: the nearest level, of two the lower.             *)
Nearest(gain) == CHOOSE level \in Levels :
                    \A other \in Levels : \/ Delta(gain, level) < Delta(gain, other)
                                          \/ Delta(gain, level) = Delta(gain, other) /\ level <= other
-----------------------------------------------------------------------------
CapInit ==
    /\ mic = "off" /\ free = Blocks /\ filled = 0 /\ pcm = 0
    /\ capPc = "configure" /\ fails = 0 /\ bootGain = DefaultGain
    /\ pdmGain = DefaultGain /\ hwGain = DriverGain /\ omiLevel = 6
    /\ write = [pc |-> "idle", gain |-> 0]
    /\ stalls = 0 /\ gainWrites = 0 /\ raced = FALSE

(* RAM and the microphone after a reset.                                   *)
Cleared ==
    /\ mic' = "off" /\ free' = Blocks /\ filled' = 0 /\ pcm' = 0
    /\ capPc' = "configure" /\ fails' = 0 /\ bootGain' = DefaultGain
    /\ pdmGain' = DefaultGain /\ hwGain' = DriverGain /\ omiLevel' = 6
    /\ write' = [pc |-> "idle", gain |-> 0] /\ raced' = FALSE
-----------------------------------------------------------------------------
(* The driver.                                                             *)
Fill ==
    /\ mic = "on" /\ free > 0
    /\ free' = free - 1 /\ filled' = filled + 1
    /\ UNCHANGED <<mic, pcm, capture, gains, bounds>>

(* No block left: the driver stops.                                        *)
Overrun ==
    /\ mic = "on" /\ free = 0
    /\ mic' = "stalled"
    /\ UNCHANGED <<free, filled, pcm, capture, gains, bounds>>

Stall ==
    /\ mic = "on" /\ stalls < MaxStalls
    /\ mic' = "stalled" /\ stalls' = stalls + 1
    /\ UNCHANGED <<free, filled, pcm, capture, gains, gainWrites>>
-----------------------------------------------------------------------------
(* The capture thread starts; what fails ends it.                          *)
Configure ==
    /\ capPc = "configure"
    /\ \/ capPc' = "get" /\ hwGain' = DriverGain
       \/ capPc' = "gone" /\ UNCHANGED hwGain
    /\ UNCHANGED <<driver, pcm, fails, bootGain, pdmGain, omiLevel, write, raced, bounds>>

GetGain ==
    /\ capPc = "get"
    /\ capPc' = "set" /\ bootGain' = pdmGain
    /\ UNCHANGED <<driver, pcm, fails, pdmGain, hwGain, omiLevel, write, raced, bounds>>

SetGain ==
    /\ capPc = "set"
    /\ capPc' = "apply" /\ pdmGain' = ClampGain(bootGain)
    /\ UNCHANGED <<driver, pcm, fails, bootGain, hwGain, omiLevel, write, raced, bounds>>

SkipsGain ==                                                         \* mutant
    /\ capPc = "apply"
    /\ capPc' = "start" /\ hwGain' = hwGain
    /\ UNCHANGED <<driver, pcm, fails, bootGain, pdmGain, omiLevel, write, raced, bounds>>

ApplyGain ==
    /\ capPc = "apply"
    /\ capPc' = "start" /\ hwGain' = ClampGain(bootGain)
    /\ UNCHANGED <<driver, pcm, fails, bootGain, pdmGain, omiLevel, write, raced, bounds>>

StartMic ==
    /\ capPc = "start"
    /\ \/ capPc' = "read" /\ mic' = "on"
       \/ capPc' = "gone" /\ UNCHANGED mic
    /\ UNCHANGED <<free, filled, pcm, fails, gains, bounds>>

(* Its loop.                                                               *)
Read ==
    /\ capPc = "read" /\ filled > 0
    /\ filled' = filled - 1 /\ fails' = 0 /\ capPc' = "put"
    /\ UNCHANGED <<mic, free, pcm, gains, bounds>>

(* A short block, or a full queue: the frame is dropped.                   *)
Put ==
    /\ capPc = "put" /\ capPc' = "free"
    /\ pcm' \in {pcm} \cup (IF pcm < PcmDepth THEN {pcm + 1} ELSE {})
    /\ UNCHANGED <<driver, fails, gains, bounds>>

Free ==
    /\ capPc = "free" /\ capPc' = "read"
    /\ free' = free + 1
    /\ UNCHANGED <<mic, filled, pcm, fails, gains, bounds>>

NoData == capPc = "read" /\ filled = 0 /\ mic # "on"

(* dmic_read times out.  STOP is the first half of the restart.            *)
ReadFails ==
    /\ NoData
    /\ fails + 1 # RestartAfter /\ fails + 1 < RebootAfter
    /\ fails' = fails + 1
    /\ UNCHANGED <<driver, pcm, capPc, gains, bounds>>

StopMicResets ==                                                     \* mutant
    /\ NoData
    /\ fails + 1 = RestartAfter
    /\ fails' = 0 /\ capPc' = "restart" /\ mic' = "off"
    /\ UNCHANGED <<free, filled, pcm, gains, bounds>>

StopMic ==
    /\ NoData
    /\ fails + 1 = RestartAfter
    /\ fails' = fails + 1 /\ capPc' = "restart" /\ mic' = "off"
    /\ UNCHANGED <<free, filled, pcm, gains, bounds>>

RestartMic ==
    /\ capPc = "restart" /\ capPc' = "read"
    /\ mic' \in {"on", "off"}
    /\ UNCHANGED <<free, filled, pcm, fails, gains, bounds>>

Reboot ==
    /\ NoData
    /\ fails + 1 >= RebootAfter
    /\ Cleared /\ UNCHANGED bounds

(* The codec thread takes a frame.                                         *)
TakeFrame ==
    /\ pcm > 0 /\ pcm' = pcm - 1
    /\ UNCHANGED <<driver, capture, gains, bounds>>

PowerCycle == Cleared /\ UNCHANGED bounds
-----------------------------------------------------------------------------
(* The gain writes.                                                        *)
WriteGain(level, gain) ==
    /\ write.pc = "idle" /\ gainWrites < MaxGainWrites
    /\ gainWrites' = gainWrites + 1
    /\ omiLevel' = level
    /\ write' = [pc |-> "store", gain |-> gain]
    /\ UNCHANGED <<driver, pcm, capture, bootGain, pdmGain, hwGain, raced, stalls>>

WriteLevel == \E level \in LevelWrites : WriteGain(ClampLevel(level), OmiGain(level))
WriteRaw   == \E gain \in RawWrites : WriteGain(Nearest(gain), gain)

StoreGain ==
    /\ write.pc = "store"
    /\ write' = [write EXCEPT !.pc = "apply"]
    /\ pdmGain' = ClampGain(write.gain)
    /\ raced' = (capPc \in {"set", "apply"})
    /\ UNCHANGED <<driver, pcm, capture, bootGain, hwGain, omiLevel, bounds>>

ApplyWrite ==
    /\ write.pc = "apply"
    /\ write' = [write EXCEPT !.pc = "idle"]
    /\ hwGain' = ClampGain(write.gain)
    /\ UNCHANGED <<driver, pcm, capture, bootGain, pdmGain, omiLevel, raced, bounds>>
-----------------------------------------------------------------------------
CaptureThread ==
    \/ Configure \/ GetGain \/ SetGain \/ ApplyGain \/ StartMic
    \/ Read \/ Put \/ Free \/ ReadFails \/ StopMic \/ RestartMic \/ Reboot

CapNext ==
    \/ CaptureThread \/ Fill \/ Overrun \/ Stall \/ TakeFrame \/ PowerCycle
    \/ WriteLevel \/ WriteRaw \/ StoreGain \/ ApplyWrite

CapSpec == CapInit /\ [][CapNext]_capVars /\ WF_capVars(CaptureThread)
-----------------------------------------------------------------------------
(* The level the phone reads is the nearest to the gain the software mutes *)
(* by, and that is the gain of the microphone, whichever endpoint wrote it *)
(* and whether before, during or after the capture's start: except after a *)
(* write that fell between the thread's read of the gain and its use.      *)
GainAgrees ==
    write.pc = "idle" /\ ~raced =>
        /\ omiLevel = Nearest(pdmGain)
        /\ capPc \in Capturing => hwGain = pdmGain

(* Each block is in the slab, filled, or in the hands of the thread.       *)
BlocksConserved == free + filled + (IF capPc \in {"put", "free"} THEN 1 ELSE 0) = Blocks

(* A microphone that gives nothing, its restart refused included, is       *)
(* brought back by a restart or a reboot.                                  *)
CaptureRecovers == capPc \in Capturing /\ mic # "on" ~> mic = "on" \/ capPc = "configure"
=============================================================================
