----------------------------- MODULE LiveAudio -----------------------------
(***************************************************************************)
(* Live audio, from the codec thread of the device (wr_audio.c,            *)
(* wr_codec.c, wr_ble_audio.c) to the phone's session with it              *)
(* (wr_ble_device.dart), its dump file (wr_packet_sink.dart) and the       *)
(* decoder that splits the dump (wr_opus_decoder.dart).                    *)
(*                                                                         *)
(* A notification carries a packet id, counted modulo IdSize for every     *)
(* notification the codec thread makes, delivered or not, and the index of *)
(* the chunk in its Opus packet.  For the properties it also carries its   *)
(* number since the device booted, and the boot.                           *)
(*                                                                         *)
(* Payload bytes are left out: no payload contains what the decoder takes  *)
(* for a header.                                                           *)
(***************************************************************************)
EXTENDS Integers, Sequences

CONSTANTS
    IdSize,     \* packet ids are below it (65536)
    MaxGap,     \* _maxGap
    MaxAir,     \* notifications the Bluetooth stack takes
    MaxIssued,  \* bound on the notifications made
    MaxTrouble, \* bound on disconnects, reboots, pages and monitors closed
    None        \* null

ASSUME LiveAssumption ==
    /\ IdSize \in Nat \ {0} /\ MaxGap \in 1 .. IdSize - 1 /\ MaxAir \in Nat \ {0}
    /\ MaxIssued \in Nat /\ MaxTrouble \in Nat /\ None \notin Nat

VARIABLES
    \* the device
    recording,      \* wr_recorder_is_recording()
    ccc,            \* audio_notify_enabled
    codec,          \* codec thread: chunks of the packet, those sent
    issued,         \* notify_id, without the wrap
    boot,
    \* the link
    link, air,
    \* the phone
    monitor,        \* _liveMonitor and where setLiveMonitor is
    listening,      \* _notifySub
    lastValue,      \* what lastValueStream replays to a new listener
    last, lost,     \* the packet of _lastPacketId; _lostCount
    dump,           \* the file behind _sink
    \* history
    trouble,
    missed,     \* packets not heard
    repeated,   \* a packet was heard again
    strange     \* ids that wrapped or began anew meanwhile

liveVars == <<recording, ccc, codec, issued, boot, link, air, monitor, listening, lastValue,
              last, lost, dump, trouble, missed, repeated, strange>>
device  == <<recording, ccc, codec, issued, boot>>
radio   == <<link, air>>
heard   == <<last, lost, dump, missed, repeated, strange>>
phone   == <<monitor, listening, lastValue>>

NoPacket == [chunks |-> 0, sent |-> 0]
-----------------------------------------------------------------------------
LiveInit ==
    /\ recording = TRUE /\ ccc = FALSE /\ codec = NoPacket /\ issued = 0 /\ boot = 0
    /\ link = FALSE /\ air = <<>>
    /\ monitor = "off" /\ listening = FALSE /\ lastValue = None
    /\ last = None /\ lost = 0 /\ dump = <<>>
    /\ trouble = 0 /\ missed = 0 /\ repeated = FALSE /\ strange = FALSE
-----------------------------------------------------------------------------
(* The device.  The button, the app: pause and resume.                     *)
Toggle ==
    /\ recording' = ~recording
    /\ UNCHANGED <<ccc, codec, issued, boot, radio, phone, heard, trouble>>

(* A frame is encoded while the device records.  packet_ready looks again, *)
(* and wr_ble_audio_submit_opus at the subscription; a packet above        *)
(* AUDIO_NOTIFY_MAX_PAYLOAD needs a second chunk.                          *)
Encode ==
    /\ codec = NoPacket /\ recording
    /\ \E chunks \in 1 .. 2 : codec' = [chunks |-> chunks, sent |-> -1]
    /\ UNCHANGED <<recording, ccc, issued, boot, radio, phone, heard, trouble>>

PacketReady ==
    /\ codec.sent = -1
    /\ codec' = IF recording /\ ccc THEN [codec EXCEPT !.sent = 0] ELSE NoPacket
    /\ UNCHANGED <<recording, ccc, issued, boot, radio, phone, heard, trouble>>

Sent == IF codec.sent + 1 = codec.chunks THEN NoPacket ELSE [codec EXCEPT !.sent = @ + 1]
Notification == [id |-> issued % IdSize, chunk |-> codec.sent, number |-> issued + 1,
                 boot |-> boot]

(* notify_chunk: accepted by the stack, or nobody is subscribed, which     *)
(* counts as sent, or refused, which ends the packet.                      *)
NotifyChunk ==
    /\ codec.chunks > 0 /\ codec.sent >= 0 /\ issued < MaxIssued
    /\ issued' = issued + 1
    /\ \/ link /\ ccc /\ Len(air) < MaxAir /\ air' = Append(air, Notification) /\ codec' = Sent
       \/ ~(link /\ ccc) /\ codec' = Sent /\ UNCHANGED air
       \/ link /\ codec' = NoPacket /\ UNCHANGED air
    /\ UNCHANGED <<recording, ccc, boot, link, phone, heard, trouble>>
-----------------------------------------------------------------------------
(* The link.  The stack forgets the subscription with the connection.      *)
Connect ==
    /\ ~link /\ link' = TRUE
    /\ UNCHANGED <<device, air, phone, heard, trouble>>

Cut ==
    /\ link' = FALSE /\ air' = <<>> /\ ccc' = FALSE /\ trouble' = trouble + 1
    /\ lastValue' \in {lastValue, None}

Disconnect ==
    /\ link /\ trouble < MaxTrouble /\ Cut
    /\ UNCHANGED <<recording, codec, issued, boot, monitor, listening, heard>>

DeviceReboot ==
    /\ trouble < MaxTrouble /\ Cut
    /\ recording' = TRUE /\ codec' = NoPacket /\ issued' = 0 /\ boot' = boot + 1
    /\ UNCHANGED <<monitor, listening, heard>>
-----------------------------------------------------------------------------
(* The phone.  _onPacket: what is missing since the last one is counted,   *)
(* and the packet goes into the dump.                                      *)
GapUnmasked(packet) == packet.id - ((last.id + 1) % IdSize)          \* mutant
Gap(packet) == (packet.id - last.id - 1) % IdSize
Again(packet) == last # None /\ packet = last

OnPacket(packet) ==
    /\ lost' = IF last = None THEN lost ELSE lost + Gap(packet)
    /\ last' = packet
    /\ dump' = Append(dump, packet)
    /\ missed' = IF last = None \/ Again(packet) THEN missed
                 ELSE missed + packet.number - last.number - 1
    /\ repeated' = (repeated \/ Again(packet))
    /\ strange' = \/ strange
                  \/ /\ last # None
                     /\ packet.boot # last.boot \/ packet.number - last.number > IdSize

Arrive ==
    /\ air # <<>>
    /\ air' = Tail(air) /\ lastValue' = Head(air)
    /\ IF listening THEN OnPacket(Head(air)) ELSE UNCHANGED heard
    /\ UNCHANGED <<device, link, monitor, listening, trouble>>

(* setLiveMonitor(true): subscribe, then listen.  A new listener is given  *)
(* the last value first.                                                   *)
Subscribe ==
    /\ monitor = "off" /\ link
    /\ monitor' = "subscribed" /\ ccc' = TRUE
    /\ UNCHANGED <<recording, codec, issued, boot, radio, listening, lastValue, heard, trouble>>

Listen ==
    /\ monitor = "subscribed"
    /\ monitor' = "on" /\ listening' = TRUE
    /\ IF lastValue = None THEN UNCHANGED heard ELSE OnPacket(lastValue)
    /\ UNCHANGED <<device, radio, lastValue, trouble>>

(* setLiveMonitor(false): stop listening, then unsubscribe, best effort.   *)
StopListening ==
    /\ monitor = "on" /\ trouble < MaxTrouble /\ trouble' = trouble + 1
    /\ monitor' = "leaving" /\ listening' = FALSE
    /\ UNCHANGED <<device, radio, lastValue, heard>>

Unsubscribe ==
    /\ monitor = "leaving"
    /\ monitor' = "off" /\ ccc' \in {ccc, FALSE}
    /\ UNCHANGED <<recording, codec, issued, boot, radio, listening, lastValue, heard, trouble>>

(* The page is left and opened again: a new session, a new dump.           *)
Reopen ==
    /\ trouble < MaxTrouble /\ Cut
    /\ monitor' = "off" /\ listening' = FALSE
    /\ last' = None /\ lost' = 0 /\ dump' = <<>>
    /\ missed' = 0 /\ repeated' = FALSE /\ strange' = FALSE
    /\ UNCHANGED <<recording, codec, issued, boot>>

LiveNext ==
    \/ Toggle \/ Encode \/ PacketReady \/ NotifyChunk
    \/ Connect \/ Disconnect \/ DeviceReboot
    \/ Arrive \/ Subscribe \/ Listen \/ StopListening \/ Unsubscribe \/ Reopen

LiveSpec == LiveInit /\ [][LiveNext]_liveVars
-----------------------------------------------------------------------------
(* framesFromDump.  From a header at position `at` the next one is the     *)
(* first whose chunk index is 0 and whose id is 1 to MaxGap further on;    *)
(* everything up to it is one frame.                                       *)
Header(d, at, id, next) ==
    /\ next > at /\ d[next].chunk = 0
    /\ (d[next].id - id) % IdSize \in 1 .. MaxGap

NextHeader(d, at, id) ==
    LET found == {next \in DOMAIN d : Header(d, at, id, next)}
    IN  IF found = {} THEN None ELSE CHOOSE next \in found : \A other \in found : next <= other

(* The positions at which its frames begin.                                *)
FramesFromFirstId(d) ==                                              \* mutant
    LET at[n \in 1 .. Len(d)] ==
            IF n = 1 THEN 1
            ELSE IF at[n - 1] = None THEN None ELSE NextHeader(d, at[n - 1], d[1].id)
    IN  {at[n] : n \in 1 .. Len(d)} \ {None}

FramesFromDump(d) ==
    LET at[n \in 1 .. Len(d)] ==
            IF n = 1 THEN 1
            ELSE IF at[n - 1] = None THEN None ELSE NextHeader(d, at[n - 1], d[at[n - 1]].id)
    IN  {at[n] : n \in 1 .. Len(d)} \ {None}
-----------------------------------------------------------------------------
(* What the app shows as lost (_lostCount) is what the device numbered     *)
(* since the first packet the app heard and the app did not hear: refused  *)
(* by the stack, gone with a connection, or sent while nobody listened.    *)
(* Not so once a packet was heard twice (below), and after a reboot or     *)
(* IdSize packets missed in a row the ids do not tell what was missed.     *)
LossIsCounted == ~strange /\ ~repeated => lost = missed

(* A dump in which no packet is there twice, none is in two chunks and no  *)
(* gap exceeds MaxGap is split into the packets it was made of.            *)
Plain(d) ==
    /\ \A i \in DOMAIN d : d[i].chunk = 0
    /\ \A i \in 1 .. Len(d) - 1 : d[i + 1].number - d[i].number \in 1 .. MaxGap

DumpSplitsIntoPackets == Plain(dump) => FramesFromDump(dump) = DOMAIN dump
-----------------------------------------------------------------------------
(* What a comment says and the code does not do.                           *)
(*                                                                         *)
(* wr_ble_device.dart:75 of lostPackets: "Cumulative count of dropped      *)
(* packets inferred from gaps in [packetId]."  Not when the monitor is     *)
(* switched off and on: the new listener on lastValueStream is told the    *)
(* last packet again, and _onPacket takes an id that did not advance for   *)
(* IdSize - 1 packets dropped.                                             *)
LostWereDropped == ~strange => lost <= missed
=============================================================================
