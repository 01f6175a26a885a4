------------------------------ MODULE LogProofs ------------------------------
(***************************************************************************)
(* What becomes of the packets of a recording: none is lost silently       *)
(* (NoSilentLoss), the recording in progress is a growing log              *)
(* (ImplementsRecordingLog), a rec_NNNN file is never written over         *)
(* (RecFilesAppendOnly), and a crash costs at most one checkpoint interval *)
(* (CrashLosesAtMostOneInterval); for every queue depth, buffer size,      *)
(* checkpoint interval and bound.                                          *)
(*                                                                         *)
(* The argument is about the sequences themselves: a turn of the recorder  *)
(* thread moves packets along the pipeline queue, hand, buffer, card, and  *)
(* leaves the pipeline as a whole alone.                                   *)
(***************************************************************************)
EXTENDS RecorderProofs

Fetched == SubSeq(files[path].live, 1, pos)

LEMMA StoredIs ==
    ASSUME TypeInv, open
    PROVE  /\ Fetched \in Seq(Packet) /\ Len(Fetched) = pos
           /\ \A i \in 1 .. pos : Fetched[i] = files[path].live[i]
           /\ buf \in Seq(Packet) /\ Len(buf) \in Nat /\ pos \in Nat
           /\ Stored = Fetched \o buf /\ Stored \in Seq(Packet)
           /\ Len(Stored) = pos + Len(buf)
           /\ \A i \in 1 .. pos + Len(buf) :
                 Stored[i] = IF i <= pos THEN Fetched[i] ELSE buf[i - pos]
<1>1. /\ pos \in Nat /\ buf \in Seq(Packet) /\ Len(buf) \in Nat
      /\ files[path].live \in Seq(Packet) /\ pos <= Len(files[path].live)
  BY StoredParts
<1>2. /\ Fetched \in Seq(Packet) /\ Len(Fetched) = pos
      /\ \A i \in 1 .. pos : Fetched[i] = files[path].live[i]
  BY <1>1 DEF Fetched
<1>3. Stored = Fetched \o buf
  BY DEF Stored, Fetched
<1>. QED
  BY ZenonT(40), <1>1, <1>2, <1>3, ConcatProperties

(* A write adds its records to what is on the card.                        *)
LEMMA WriteAppends ==
    ASSUME TypeInv, open, NEW recs \in Seq(Packet), FsWrite(recs)
    PROVE  Fetched' = Fetched \o recs
<1>. DEFINE old == files[path].live
            new == Overwrite(old, pos, recs)
<1>1. /\ pos \in Nat /\ old \in Seq(Packet) /\ pos <= Len(old) /\ Len(recs) \in Nat
      /\ path \in DOMAIN files /\ files[path] \in File
  BY StoredParts DEF TypeInv, TypeOK, CardTypeOK, FileOK
<1>2. /\ new \in Seq(Packet) /\ Len(new) >= pos + Len(recs)
      /\ \A i \in 1 .. pos : new[i] = old[i]
      /\ \A i \in 1 .. Len(recs) : new[pos + i] = recs[i]
  BY <1>1, OverwriteType
<1>3. pos' = pos + Len(recs) /\ path' = path
  BY DEF FsWrite
<1>4. files'[path'].live = new
  <2>1. files' = [files EXCEPT ![path] = [files[path] EXCEPT !.live = new]]
    BY DEF FsWrite
  <2>. HIDE DEF new, old
  <2>. QED
    BY <1>1, <1>3, <2>1 DEF File
<1>5. Fetched' = SubSeq(new, 1, pos + Len(recs))
  BY <1>3, <1>4 DEF Fetched
<1>6. /\ Fetched \in Seq(Packet) /\ Len(Fetched) = pos
      /\ \A i \in 1 .. pos : Fetched[i] = old[i]
  BY StoredIs
<1>. HIDE DEF new, old
<1>7. /\ Fetched' \in Seq(Packet) /\ Len(Fetched') = pos + Len(recs)
      /\ \A i \in 1 .. pos + Len(recs) : Fetched'[i] = new[i]
  BY <1>1, <1>2, <1>5
<1>8. /\ Fetched \o recs \in Seq(Packet) /\ Len(Fetched \o recs) = pos + Len(recs)
      /\ \A i \in 1 .. pos + Len(recs) :
            (Fetched \o recs)[i] = IF i <= pos THEN Fetched[i] ELSE recs[i - pos]
  BY <1>6, ConcatProperties
<1>9. ASSUME NEW i \in 1 .. pos + Len(recs)
      PROVE  Fetched'[i] = (Fetched \o recs)[i]
  <2>1. CASE i <= pos
    <3>1. i \in 1 .. pos
      BY <1>1, <2>1
    <3>. QED
      BY <1>2, <1>6, <1>7, <1>8, <2>1, <3>1
  <2>2. CASE ~(i <= pos)
    <3>1. i - pos \in 1 .. Len(recs) /\ pos + (i - pos) = i
      BY <1>1, <2>2
    <3>2. new[i] = recs[i - pos]
      BY <1>2, <3>1
    <3>. QED
      BY <1>7, <1>8, <2>2, <3>2
  <2>. QED
    BY <2>1, <2>2
<1>. QED
  BY <1>7, <1>8, <1>9, SeqEqual

(* The four things that happen to what is stored.                          *)
LEMMA FlushStores ==
    ASSUME TypeInv, open, WriteBuffer
    PROVE  Stored' = Stored
<1>1. Fetched' = Fetched \o buf /\ buf' = <<>>
  BY WriteAppends, StoredIs DEF WriteBuffer
<1>2. Stored = Fetched \o buf /\ Stored \in Seq(Packet)
  BY StoredIs
<1>3. Stored' = Fetched' \o buf'
  BY DEF Stored, Fetched
<1>4. Stored \o <<>> = Stored
  BY <1>2, ConcatEmptySeq
<1>. QED
  BY <1>1, <1>2, <1>3, <1>4

LEMMA AppendStores ==
    ASSUME TypeInv, open, hand # <<>>,
           \/ UNCHANGED cardVars /\ buf' = buf \o hand
           \/ FsWrite(buf) /\ buf' = hand
    PROVE  Stored' = Stored \o hand
<1>1. /\ Fetched \in Seq(Packet) /\ buf \in Seq(Packet) /\ hand \in Seq(Packet)
      /\ Stored = Fetched \o buf
  BY StoredIs, StoredParts
<1>2. Stored' = Fetched' \o buf'
  BY DEF Stored, Fetched
<1>3. CASE UNCHANGED cardVars /\ buf' = buf \o hand
  <2>1. Fetched' = Fetched
    BY <1>3 DEF Fetched, cardVars
  <2>. QED
    BY SMTT(30), <1>1, <1>2, <1>3, <2>1, ConcatAssociative
<1>4. CASE FsWrite(buf) /\ buf' = hand
  <2>1. Fetched' = Fetched \o buf
    BY <1>1, <1>4, WriteAppends
  <2>. QED
    BY <1>1, <1>2, <1>4, <2>1
<1>. QED
  BY <1>3, <1>4

LEMMA SameStored ==
    ASSUME files'[path'].live = files[path].live, UNCHANGED <<path, pos, buf>>
    PROVE  Stored' = Stored
BY DEF Stored

LEMMA SyncStores ==
    ASSUME TypeInv, open, FsSync, UNCHANGED buf
    PROVE  Stored' = Stored
<1>1. path \in DOMAIN files /\ CardTypeOK
  BY DEF TypeInv, TypeOK, CardTypeOK
<1>2. files'[path].live = files[path].live /\ UNCHANGED <<path, pos>>
  BY <1>1, CommitType DEF FsSync
<1>. QED
  BY <1>2, SameStored
-----------------------------------------------------------------------------
(***************************************************************************)
(* The steps by what they do to the pipeline, as long as there is a        *)
(* recording behind them.                                                  *)
(***************************************************************************)
LEMMA StillRecording ==
    ASSUME TypeInv, [Next]_vars, Recording'
    PROVE  ResetFileState \/ Recording
<1>. USE DEF At, Goto, Recording
<1>1. CASE PauseFlush \/ CheckpointFlush \/ AppendPacket \/ CheckpointSync
  BY <1>1 DEF PauseFlush, CheckpointFlush, AppendPacket, CheckpointSync, TypeInv, ControlInv, Writing
<1>2. CASE IdleFlush
  <2>1. CASE active
    BY <1>2, <2>1 DEF IdleFlush, TypeInv, ControlInv
  <2>2. CASE ~active
    BY <1>2, <2>2 DEF IdleFlush, cardVars
  <2>. QED
    BY <2>1, <2>2
<1>3. CASE PauseClose \/ Crash \/ WakeUp
  BY <1>3 DEF PauseClose, FsClose, Crash, WakeUp, Reboot, PowerLoss
<1>4. CASE FinishEpochPath \/ ScanRecPath
  BY <1>4 DEF FinishEpochPath, ScanRecPath
<1>5. CASE OpenFile
  BY <1>5 DEF OpenFile, cardVars
<1>6. CASE /\ UNCHANGED <<files, path, open, pos, buf, session>>
           /\ pc = "reset" => pc' = "reset"
  BY <1>6
<1>. QED
  BY <1>1, <1>2, <1>3, <1>4, <1>5, <1>6, WritingSteps

(* The hand is empty when the thread asks for the next packet.             *)
HandEmpty == pc \in {"get", "checkpoint", "sync"} => hand = <<>>

LEMMA HandEmptyInductive ==
    ASSUME TypeInv, HandEmpty, [Next]_vars
    PROVE  HandEmpty'
<1>. USE DEF HandEmpty, At, Goto
<1>1. CASE RecorderThread
  <2>1. CASE AppendPacket \/ DiscardPacket
    BY <2>1 DEF AppendPacket, DiscardPacket
  <2>2. CASE IdleFlush \/ CheckpointFlush \/ CheckpointSync
    BY <2>2 DEF IdleFlush, CheckpointFlush, CheckpointSync
  <2>3. CASE \/ GetPacket \/ GetTimeout \/ TakePause \/ PauseFlush \/ PauseClose \/ Deactivate
             \/ TakeResume \/ Mount \/ BeginEpochPath \/ FinishEpochPath \/ ScanRecPath
             \/ OpenFile \/ ResetFileState \/ Activate
    <3>1. pc' \notin {"get", "checkpoint", "sync"}
      BY <2>3 DEF GetPacket, GetTimeout, TakePause, PauseFlush, PauseClose, Deactivate, TakeResume,
         Mount, BeginEpochPath, FinishEpochPath, ScanRecPath, OpenFile, ResetFileState, Activate
    <3>. QED
      BY <3>1
  <2>. QED
    BY <1>1, <2>1, <2>2, <2>3 DEF RecorderThread
<1>2. ASSUME NEW oversize \in BOOLEAN, Submit(oversize) PROVE UNCHANGED <<pc, hand>>
  BY <1>2 DEF Submit, threadVars
<1>3. CASE RequestStep
  BY <1>3 DEF RequestStep, BlePause, BleResume, BleSleep, SetSyncTime, BtnBegin, BtnFinish,
     threadVars
<1>4. CASE Tick \/ PowerOff \/ UNCHANGED vars
  BY <1>4 DEF Tick, PowerOff, vars, threadVars
<1>5. CASE Crash \/ WakeUp
  BY <1>5 DEF Crash, WakeUp, Reboot
<1>. QED
  BY <1>1, <1>2, <1>3, <1>4, <1>5, StepCases

(* One step of a recording that goes on: a packet enters at the queue, one *)
(* moves on, one is stored, a write fails, or nothing moves.               *)
Enters ==
    /\ queue' = Append(queue, [id |-> nextId, session |-> session]) /\ nextId' = nextId + 1
    /\ UNCHANGED <<hand, firstId, session, clean>> /\ Stored' = Stored

Moves ==
    /\ queue # <<>> /\ hand = <<>> /\ hand' = <<Head(queue)>> /\ queue' = Tail(queue)
    /\ UNCHANGED <<nextId, firstId, session, clean>> /\ Stored' = Stored

Stores ==
    /\ hand # <<>> /\ hand' = <<>> /\ Stored' = Stored \o hand
    /\ UNCHANGED <<queue, nextId, firstId, session, clean>>

Fails ==
    /\ WriteFails /\ clean' = FALSE /\ hand' \in {hand, <<>>}
    /\ UNCHANGED <<queue, nextId, firstId, session>>

Stays ==
    /\ UNCHANGED <<hand, queue, nextId, firstId, session>> /\ Stored' = Stored
    /\ clean' \in {clean, FALSE}

LEMMA PipelineSteps ==
    ASSUME TypeInv, HandEmpty, [Next]_vars, Recording, Recording'
    PROVE  Enters \/ Moves \/ Stores \/ Fails \/ Stays
<1>. USE DEF At, Goto
<1>0. open /\ pc # "reset"
  BY DEF Recording
<1>1. CASE RecorderThread
  <2>1. CASE GetPacket
    BY <2>1, SameStored DEF GetPacket, HandEmpty, Moves, cardVars, ghostVars
  <2>2. CASE GetTimeout
    BY <2>2, SameStored DEF GetTimeout, HandEmpty, Stays, cardVars, ghostVars
  <2>3. CASE TakePause
    BY <2>3, SameStored DEF TakePause, Stays, cardVars, ghostVars
  <2>4. CASE PauseFlush
    BY <1>0, <2>4, FlushStores DEF PauseFlush, WriteBuffer, WriteFails, Stays, Fails
  <2>5. CASE PauseClose
    BY <2>5 DEF PauseClose, FsClose, Recording
  <2>6. CASE Deactivate
    BY <2>6, SameStored DEF Deactivate, Stays, cardVars, ghostVars
  <2>7. CASE TakeResume
    BY <2>7, SameStored DEF TakeResume, Stays, cardVars, ghostVars
  <2>8. CASE Mount
    BY <2>8, SameStored DEF Mount, Stays, cardVars, ghostVars
  <2>9. CASE BeginEpochPath
    BY <2>9, SameStored DEF BeginEpochPath, Stays, cardVars, ghostVars
  <2>10. CASE FinishEpochPath \/ ScanRecPath \/ OpenFile
    BY <1>0, <2>10 DEF FinishEpochPath, ScanRecPath, OpenFile, TypeInv, ControlInv, Idle
  <2>11. CASE ResetFileState
    BY <1>0, <2>11 DEF ResetFileState
  <2>12. CASE Activate
    BY <2>12, SameStored DEF Activate, Stays, cardVars, ghostVars
  <2>13. CASE IdleFlush
    <3>1. active
      BY <1>0, <2>13 DEF IdleFlush, TypeInv, ControlInv
    <3>. QED
      BY <1>0, <2>13, <3>1, FlushStores DEF IdleFlush, WriteBuffer, WriteFails, Stays, Fails
  <2>14. CASE DiscardPacket
    BY <1>0, <2>14 DEF DiscardPacket, TypeInv, ControlInv
  <2>15. CASE AppendPacket
    <3>1. hand # <<>> /\ hand' = <<>> /\ UNCHANGED <<queue, nextId, firstId, session>>
      BY <2>15 DEF AppendPacket
    <3>. DEFINE buffered == UNCHANGED cardVars /\ buf' = buf \o hand
                flushed  == FsWrite(buf) /\ buf' = hand
    <3>2. WriteFails \/ (UNCHANGED clean /\ (buffered \/ flushed))
      BY <2>15 DEF AppendPacket
    <3>3. CASE WriteFails
      BY <3>1, <3>3 DEF Fails, WriteFails
    <3>4. CASE UNCHANGED clean /\ (buffered \/ flushed)
      <4>1. Stored' = Stored \o hand
        BY <1>0, <3>1, <3>4, AppendStores
      <4>. QED
        BY <3>1, <3>4, <4>1 DEF Stores
    <3>. HIDE DEF buffered, flushed
    <3>. QED
      BY <3>2, <3>3, <3>4
  <2>16. CASE CheckpointFlush
    BY <1>0, <2>16, FlushStores DEF CheckpointFlush, WriteBuffer, WriteFails, Stays, Fails
  <2>17. CASE CheckpointSync
    <3>1. UNCHANGED buf
      BY <2>17 DEF CheckpointSync
    <3>2. Stored' = Stored
      BY <1>0, <2>17, <3>1, SyncStores, SameStored DEF CheckpointSync, cardVars
    <3>. QED
      BY <2>17, <3>2 DEF CheckpointSync, Stays
  <2>. QED
    BY <1>1, <2>1, <2>2, <2>3, <2>4, <2>5, <2>6, <2>7, <2>8, <2>9, <2>10, <2>11, <2>12, <2>13,
       <2>14, <2>15, <2>16, <2>17 DEF RecorderThread
<1>2. ASSUME NEW oversize \in BOOLEAN, Submit(oversize) PROVE Enters \/ Stays
  <2>1. Stored' = Stored /\ UNCHANGED <<hand, firstId, session, clean>>
    BY <1>2, SameStored DEF Submit, cardVars, threadVars
  <2>. QED
    BY <1>2, <2>1 DEF Submit, Enters, Stays
<1>3. CASE RequestStep
  <2>1. UNCHANGED <<cardVars, threadVars, queue, ghostVars>>
    BY <1>3 DEF RequestStep, BlePause, BleResume, BleSleep, SetSyncTime, BtnBegin, BtnFinish
  <2>. QED
    BY <2>1, SameStored DEF Stays, cardVars, threadVars, ghostVars
<1>4. CASE Tick \/ PowerOff \/ UNCHANGED vars
  <2>1. UNCHANGED <<cardVars, threadVars, queue, ghostVars>>
    BY <1>4 DEF Tick, PowerOff, vars
  <2>. QED
    BY <2>1, SameStored DEF Stays, cardVars, threadVars, ghostVars
<1>5. CASE Crash \/ WakeUp
  BY <1>5 DEF Crash, WakeUp, Reboot, PowerLoss, Recording
<1>. QED
  BY <1>1, <1>2, <1>3, <1>4, <1>5, StepCases
-----------------------------------------------------------------------------
(***************************************************************************)
(* No packet is lost silently.  A pipeline p is whole when, behind at most *)
(* one packet of another session, it holds packets first to next - 1 of    *)
(* session s.                                                              *)
(***************************************************************************)
Stale(p, s) == IF p # <<>> /\ p[1].session # s THEN 1 ELSE 0

Whole(p, next, first, s) ==
    /\ Len(p) - Stale(p, s) = next - first
    /\ \A i \in 1 .. next - first : p[Stale(p, s) + i] = [id |-> first + i - 1, session |-> s]

LEMMA WholeGrows ==
    ASSUME NEW p \in Seq(Packet), NEW next \in Nat, NEW first \in Nat, NEW s \in Nat,
           Whole(p, next, first, s)
    PROVE  Whole(Append(p, [id |-> next, session |-> s]), next + 1, first, s)
<1>. DEFINE new == [id |-> next, session |-> s]
            q == Append(p, new)
            k == Stale(p, s)
<1>1. new \in Packet /\ new.session = s
  BY DEF Packet
<1>. HIDE DEF new
<1>2. /\ q \in Seq(Packet) /\ q # <<>> /\ Len(q) = Len(p) + 1 /\ Len(p) \in Nat
      /\ \A i \in 1 .. Len(p) : q[i] = p[i]
      /\ q[Len(p) + 1] = new
  BY <1>1, AppendProperties, LenProperties
<1>. HIDE DEF q
<1>3. k \in {0, 1} /\ Len(p) - k = next - first
  BY DEF Stale, Whole
<1>4. Stale(q, s) = k
  <2>1. CASE p = <<>>
    <3>1. Len(p) = 0
      BY <2>1
    <3>2. q[1] = new
      BY <1>2, <3>1
    <3>. QED
      BY <1>1, <2>1, <3>2 DEF Stale
  <2>2. CASE p # <<>>
    <3>1. 1 \in 1 .. Len(p)
      BY <2>2, EmptySeq
    <3>2. q[1] = p[1]
      BY <1>2, <3>1
    <3>. QED
      BY <1>2, <2>2, <3>2 DEF Stale
  <2>. QED
    BY <2>1, <2>2
<1>5. \A i \in 1 .. next - first : p[k + i] = [id |-> first + i - 1, session |-> s]
  BY DEF Whole
<1>. HIDE DEF k
<1>6. ASSUME NEW i \in 1 .. next + 1 - first
      PROVE  q[k + i] = [id |-> first + i - 1, session |-> s]
  <2>1. CASE i <= next - first
    <3>1. i \in 1 .. next - first /\ k + i \in 1 .. Len(p)
      BY <1>2, <1>3, <2>1
    <3>. QED
      BY <1>2, <1>5, <3>1
  <2>2. CASE i = next + 1 - first
    <3>1. k + i = Len(p) + 1 /\ first + i - 1 = next
      BY <1>2, <1>3, <2>2
    <3>. QED
      BY <1>2, <3>1 DEF new
  <2>. QED
    BY SMTT(30), <2>1, <2>2
<1>7. Len(q) - k = next + 1 - first
  BY SMTT(30), <1>2, <1>3
<1>8. Whole(q, next + 1, first, s)
  BY <1>4, <1>6, <1>7 DEF Whole
<1>. QED
  BY <1>8 DEF q, new

LossInv == Recording /\ clean => Whole(Pipeline, nextId, firstId, session)

LEMMA PipelineIs ==
    ASSUME TypeInv, open
    PROVE  /\ Stored \in Seq(Packet) /\ hand \in Seq(Packet) /\ queue \in Seq(Packet)
           /\ Pipeline = (Stored \o hand) \o queue /\ Pipeline \in Seq(Packet)
<1>1. Stored \in Seq(Packet) /\ hand \in Seq(Packet) /\ queue \in Seq(Packet)
  BY StoredIs, StoredParts
<1>2. Pipeline = (Stored \o hand) \o queue
  BY DEF Pipeline
<1>. QED
  BY <1>1, <1>2, ConcatProperties

LEMMA LossStep ==
    ASSUME TypeInv, IsolationInv, HandEmpty, LossInv, [Next]_vars, Recording', clean'
    PROVE  Whole(Pipeline, nextId, firstId, session)'
<1>0. /\ nextId \in Nat /\ firstId \in Nat /\ session \in Nat /\ clean \in BOOLEAN
      /\ clean' # FALSE
  BY DEF TypeInv, TypeOK, CountTypeOK, FlagTypeOK
<1>1. CASE ResetFileState
  <2>1. /\ open /\ queue' = <<>> /\ buf' = <<>> /\ UNCHANGED <<hand, files, path, pos>>
        /\ pos = 0 /\ session' = session + 1 /\ firstId' = nextId /\ nextId' = nextId
    BY <1>1 DEF ResetFileState, PurgeQueue, cardVars, IsolationInv, TypeInv, ControlInv, At
  <2>2. hand \in Seq(Packet)
    BY <2>1, PipelineIs
  <2>3. Pipeline' = hand
    <3>1. Fetched \in Seq(Packet) /\ Len(Fetched) = 0
      BY <2>1, StoredIs
    <3>2. Fetched = <<>>
      BY <3>1
    <3>3. Stored' = Fetched' \o buf' /\ Fetched' = Fetched
      BY <2>1 DEF Stored, Fetched
    <3>4. Stored' = <<>>
      BY <2>1, <3>2, <3>3
    <3>5. Pipeline' = (Stored' \o hand') \o queue'
      BY DEF Pipeline
    <3>. QED
      BY <2>1, <2>2, <3>4, <3>5, ConcatEmptySeq
  <2>4. hand = <<>> \/ hand[1].session # session + 1
    <3>1. hand # <<>> => hand[1].session = session
      BY <1>1 DEF IsolationInv, HandFresh, ResetFileState, At
    <3>. QED
      BY <1>0, <3>1
  <2>5. Len(hand) = Stale(hand, session + 1)
    <3>1. CASE hand = <<>>
      BY <3>1 DEF Stale
    <3>2. CASE hand # <<>>
      BY <2>4, <3>2, HandOf DEF Stale
    <3>. QED
      BY <3>1, <3>2
  <2>6. Stale(hand, session + 1) \in {0, 1}
    BY DEF Stale
  <2>7. Len(hand) - Stale(hand, session + 1) = nextId - nextId
    BY <1>0, <2>5, <2>6
  <2>8. \A i \in 1 .. nextId - nextId : FALSE
    BY <1>0
  <2>9. Whole(hand, nextId, nextId, session + 1)
    BY <2>7, <2>8 DEF Whole
  <2>. QED
    BY <2>1, <2>3, <2>9 DEF Whole, Stale
<1>2. CASE Recording
  <2>0. open
    BY <1>2 DEF Recording
  <2>1. /\ Stored \in Seq(Packet) /\ hand \in Seq(Packet) /\ queue \in Seq(Packet)
        /\ Pipeline = (Stored \o hand) \o queue /\ Pipeline \in Seq(Packet)
    BY <2>0, PipelineIs
  <2>2. Pipeline' = (Stored' \o hand') \o queue'
    BY DEF Pipeline
  <2>3. ASSUME clean = clean' PROVE Whole(Pipeline, nextId, firstId, session)
    BY <1>2, <2>3 DEF LossInv
  <2>4. CASE Enters
    <3>. DEFINE new == [id |-> nextId, session |-> session]
    <3>1. new \in Packet
      BY <1>0 DEF Packet
    <3>2. (Stored \o hand) \in Seq(Packet)
      BY <2>1, ConcatProperties
    <3>3. Pipeline' = Append(Pipeline, new)
      <4>1. Pipeline' = (Stored \o hand) \o Append(queue, new)
        BY <2>2, <2>4 DEF Enters
      <4>2. Append(queue, new) = queue \o <<new>> /\ <<new>> \in Seq(Packet)
        BY <2>1, <3>1, AppendIsConcat
      <4>3. Append(Pipeline, new) = Pipeline \o <<new>>
        BY <2>1, <3>1, AppendIsConcat
      <4>. HIDE DEF new
      <4>. QED
        BY <2>1, <3>2, <4>1, <4>2, <4>3, ConcatAssociative
    <3>4. Whole(Append(Pipeline, new), nextId + 1, firstId, session)
      BY <1>0, <2>1, <2>3, <2>4, WholeGrows DEF Enters
    <3>. HIDE DEF new
    <3>. QED
      BY <2>4, <3>3, <3>4 DEF Enters, Whole, Stale
  <2>5. CASE Moves
    <3>1. Stored \o <<>> = Stored
      BY <2>1, ConcatEmptySeq
    <3>2. /\ Head(queue) \in Packet /\ Tail(queue) \in Seq(Packet)
          /\ queue = <<Head(queue)>> \o Tail(queue)
      BY <2>1, <2>5 DEF Moves
    <3>3. Pipeline = Stored \o queue
      BY <2>1, <2>5, <3>1 DEF Moves
    <3>4. Pipeline' = (Stored \o <<Head(queue)>>) \o Tail(queue)
      BY <2>2, <2>5 DEF Moves
    <3>5. <<Head(queue)>> \in Seq(Packet)
      BY <3>2
    <3>6. Pipeline' = Pipeline
      BY SMTT(30), <2>1, <3>2, <3>3, <3>4, <3>5, ConcatAssociative
    <3>. QED
      BY <2>3, <2>5, <3>6 DEF Moves, Whole, Stale
  <2>6. CASE Stores
    <3>1. Stored \o hand \in Seq(Packet)
      BY <2>1, ConcatProperties
    <3>2. Pipeline' = Pipeline
      BY <2>1, <2>2, <2>6, <3>1, ConcatEmptySeq DEF Stores
    <3>. QED
      BY <2>3, <2>6, <3>2 DEF Stores, Whole, Stale
  <2>7. CASE Stays
    <3>1. Pipeline' = Pipeline /\ clean' = clean
      BY <1>0, <2>1, <2>2, <2>7 DEF Stays
    <3>. QED
      BY <2>3, <2>7, <3>1 DEF Stays, Whole, Stale
  <2>8. CASE Fails
    BY <1>0, <2>8 DEF Fails
  <2>. QED
    BY <1>2, <2>4, <2>5, <2>6, <2>7, <2>8, PipelineSteps
<1>. QED
  BY <1>1, <1>2, StillRecording

LEMMA SpecLossInv == Spec => [](HandEmpty /\ LossInv)
<1>1. Init => HandEmpty /\ LossInv
  BY DEF Init, CardInit, HandEmpty, LossInv, Recording
<1>2. TypeInv /\ IsolationInv /\ HandEmpty /\ LossInv /\ [Next]_vars => (HandEmpty /\ LossInv)'
  BY HandEmptyInductive, LossStep DEF LossInv
<1>. QED
  BY <1>1, <1>2, SpecIsolationInv, PTL DEF Spec

(* While recording, and as long as no fs call failed on the file, every    *)
(* packet accepted since the file was opened is in the file, the buffer,   *)
(* the thread's hand or the queue, once and in capture order.              *)
THEOREM SpecNoSilentLoss == Spec => []NoSilentLoss
<1>1. LossInv => NoSilentLoss
  BY DEF LossInv, NoSilentLoss, Whole, Stale, StaleHead
<1>. QED
  BY <1>1, SpecLossInv, PTL
-----------------------------------------------------------------------------
(***************************************************************************)
(* The recording in progress is a growing log.  What is still to come, in  *)
(* hand and queue, is in capture order and younger than what is stored.    *)
(***************************************************************************)
Coming == hand \o queue

InOrder ==
    /\ nextId >= 1
    /\ \A i \in 1 .. Len(Coming) : Coming[i].id >= 1 /\ Coming[i].id < nextId
    /\ \A i, j \in 1 .. Len(Coming) : i < j => Coming[i].id < Coming[j].id

Older ==
    \A k \in 1 .. Len(StoredIds) :
        /\ StoredIds[k] < nextId
        /\ \A i \in 1 .. Len(Coming) : StoredIds[k] < Coming[i].id

LEMMA ComingType ==
    ASSUME TypeInv
    PROVE  /\ Coming \in Seq(Packet) /\ Len(Coming) \in Nat
           /\ \A i \in 1 .. Len(Coming) : Coming[i].id \in Nat
           /\ hand \in Seq(Packet) /\ queue \in Seq(Packet) /\ nextId \in Nat /\ session \in Nat
<1>1. hand \in Seq(Packet) /\ queue \in Seq(Packet) /\ nextId \in Nat /\ session \in Nat
  BY StoredParts DEF TypeInv, TypeOK, CountTypeOK
<1>2. Coming \in Seq(Packet) /\ Len(Coming) \in Nat
  BY <1>1, ConcatProperties DEF Coming
<1>3. \A i \in 1 .. Len(Coming) : Coming[i] \in Packet
  BY <1>2, ElementOfSeq
<1>4. \A p \in Packet : p.id \in Nat
  BY DEF Packet
<1>. QED
  BY <1>1, <1>2, <1>3, <1>4

(* The steps by what they do to what is still to come.                     *)
Joined == Coming' = Append(Coming, [id |-> nextId, session |-> session]) /\ nextId' = nextId + 1
Taken  == hand # <<>> /\ Coming' = Tail(Coming) /\ nextId' = nextId
Purged == Coming' \in {<<>>, hand, Coming} /\ nextId' = nextId

LEMMA ComingSteps ==
    ASSUME TypeInv, HandEmpty, [Next]_vars
    PROVE  Joined \/ Taken \/ Purged
<1>0. hand \in Seq(Packet) /\ queue \in Seq(Packet) /\ Coming' = hand' \o queue'
  BY ComingType DEF Coming
<1>1. CASE UNCHANGED <<hand, queue, nextId>>
  BY <1>1 DEF Purged, Coming
<1>2. CASE GetPacket
  <2>1. /\ queue # <<>> /\ hand = <<>> /\ hand' = <<Head(queue)>> /\ queue' = Tail(queue)
        /\ nextId' = nextId
    BY <1>2 DEF GetPacket, HandEmpty, At, ghostVars
  <2>2. Coming = queue /\ queue = <<Head(queue)>> \o Tail(queue)
    BY <1>0, <2>1, ConcatEmptySeq DEF Coming
  <2>. QED
    BY <1>0, <2>1, <2>2 DEF Purged
<1>3. CASE GetTimeout
  BY <1>1, <1>3 DEF GetTimeout, HandEmpty, At, ghostVars
<1>4. CASE DiscardPacket \/ AppendPacket
  <2>1. hand # <<>> /\ hand' = <<>> /\ queue' = queue /\ nextId' = nextId
    BY <1>4 DEF DiscardPacket, AppendPacket, ghostVars
  <2>2. hand = <<hand[1]>> /\ hand[1] \in Packet
    BY <2>1, HandOf
  <2>3. Coming' = queue
    BY <1>0, <2>1, ConcatEmptySeq
  <2>4. Coming \in Seq(Packet) /\ Coming # <<>> /\ Len(Coming) = 1 + Len(queue)
        /\ \A i \in 1 .. 1 + Len(queue) : Coming[i] = IF i <= 1 THEN hand[1] ELSE queue[i - 1]
    <3>1. Len(hand) = 1
      BY <2>1, HandOf
    <3>2. /\ Coming \in Seq(Packet) /\ Len(Coming) = Len(hand) + Len(queue)
          /\ \A i \in 1 .. Len(hand) + Len(queue) :
                Coming[i] = IF i <= Len(hand) THEN hand[i] ELSE queue[i - Len(hand)]
      BY <1>0, ConcatProperties DEF Coming
    <3>3. Len(queue) \in Nat
      BY <1>0
    <3>4. Coming # <<>>
      BY <3>1, <3>2, <3>3
    <3>. QED
      BY <3>1, <3>2, <3>3, <3>4
  <2>5. Tail(Coming) \in Seq(Packet) /\ Len(Tail(Coming)) = Len(Coming) - 1
        /\ \A i \in 1 .. Len(Tail(Coming)) : Tail(Coming)[i] = Coming[i + 1]
    BY <2>4, HeadTailProperties
  <2>6. Len(Tail(Coming)) = Len(queue)
    BY <1>0, <2>4, <2>5
  <2>7. \A i \in 1 .. Len(queue) : Tail(Coming)[i] = queue[i]
    <3>1. ASSUME NEW i \in 1 .. Len(queue) PROVE Tail(Coming)[i] = queue[i]
      <4>1. i + 1 \in 1 .. 1 + Len(queue) /\ ~(i + 1 <= 1) /\ i + 1 - 1 = i
        BY <1>0
      <4>. QED
        BY <2>4, <2>5, <2>6, <4>1
    <3>. QED
      BY <3>1
  <2>8. Tail(Coming) = queue
    BY <1>0, <2>5, <2>6, <2>7, SeqEqual
  <2>. QED
    BY <2>1, <2>3, <2>8 DEF Taken
<1>5. CASE ResetFileState
  BY <1>0, <1>5, ConcatEmptySeq DEF ResetFileState, PurgeQueue, Purged
<1>6. CASE Crash \/ WakeUp
  <2>1. hand' = <<>> /\ queue' = <<>> /\ nextId' = nextId
    BY <1>6 DEF Crash, WakeUp, Reboot, ghostVars
  <2>2. <<>> \o <<>> = <<>>
    BY EmptySeq, ConcatEmptySeq
  <2>. QED
    BY <1>0, <2>1, <2>2 DEF Purged
<1>7. CASE RecorderThread
  BY <1>1, <1>2, <1>3, <1>4, <1>5, <1>7 DEF RecorderThread, TakePause, PauseFlush, PauseClose,
     Deactivate, TakeResume, Mount, BeginEpochPath, FinishEpochPath, ScanRecPath, OpenFile,
     Activate, IdleFlush, CheckpointFlush, CheckpointSync, ghostVars
<1>8. ASSUME NEW oversize \in BOOLEAN, Submit(oversize) PROVE Joined \/ Purged
  <2>. DEFINE new == [id |-> nextId, session |-> session]
  <2>1. new \in Packet
    BY ComingType DEF Packet
  <2>2. CASE queue' = Append(queue, new) /\ nextId' = nextId + 1
    <3>1. hand' = hand
      BY <1>8 DEF Submit, threadVars
    <3>2. Append(queue, new) = queue \o <<new>> /\ <<new>> \in Seq(Packet)
      BY <1>0, <2>1, AppendIsConcat
    <3>3. Append(Coming, new) = Coming \o <<new>>
      BY <2>1, ComingType, AppendIsConcat
    <3>4. Coming' = Append(Coming, new)
      <4>1. Coming' = hand \o (queue \o <<new>>)
        BY <1>0, <2>2, <3>1, <3>2
      <4>2. Coming = hand \o queue
        BY DEF Coming
      <4>. HIDE DEF new
      <4>. QED
        BY <1>0, <3>2, <3>3, <4>1, <4>2, ConcatAssociative
    <3>. QED
      BY <2>2, <3>4 DEF Joined
  <2>3. CASE UNCHANGED <<queue, nextId>>
    <3>1. hand' = hand
      BY <1>8 DEF Submit, threadVars
    <3>. QED
      BY <1>0, <2>3, <3>1 DEF Purged, Coming
  <2>. QED
    BY <1>8, <2>2, <2>3 DEF Submit
<1>9. CASE RequestStep
  BY <1>1, <1>9 DEF RequestStep, BlePause, BleResume, BleSleep, SetSyncTime, BtnBegin, BtnFinish,
     threadVars, ghostVars
<1>10. CASE Tick \/ PowerOff \/ UNCHANGED vars
  BY <1>1, <1>10 DEF Tick, PowerOff, vars, threadVars, ghostVars
<1>. QED
  BY <1>6, <1>7, <1>8, <1>9, <1>10, StepCases

LEMMA InOrderInductive ==
    ASSUME TypeInv, HandEmpty, InOrder, [Next]_vars
    PROVE  InOrder'
<1>0. /\ Coming \in Seq(Packet) /\ Len(Coming) \in Nat /\ nextId \in Nat /\ session \in Nat
      /\ \A i \in 1 .. Len(Coming) : Coming[i].id \in Nat
  BY ComingType
<1>1. CASE Joined
  <2>. DEFINE new == [id |-> nextId, session |-> session]
  <2>1. new \in Packet /\ new.id = nextId
    BY <1>0 DEF Packet
  <2>. HIDE DEF new
  <2>2. /\ Len(Coming') = Len(Coming) + 1 /\ nextId' = nextId + 1
        /\ \A i \in 1 .. Len(Coming) : Coming'[i] = Coming[i]
        /\ Coming'[Len(Coming) + 1] = new
    <3>1. Coming' = Append(Coming, new) /\ nextId' = nextId + 1
      BY <1>1 DEF Joined, new
    <3>. QED
      BY <1>0, <2>1, <3>1, AppendProperties
  <2>3. ASSUME NEW i \in 1 .. Len(Coming') PROVE Coming'[i].id >= 1 /\ Coming'[i].id < nextId + 1
    BY <1>0, <2>1, <2>2 DEF InOrder
  <2>4. ASSUME NEW i \in 1 .. Len(Coming'), NEW j \in 1 .. Len(Coming'), i < j
        PROVE  Coming'[i].id < Coming'[j].id
    <3>1. i \in 1 .. Len(Coming) /\ (j \in 1 .. Len(Coming) \/ j = Len(Coming) + 1)
      BY <1>0, <2>2, <2>4
    <3>. QED
      BY <2>1, <2>2, <2>4, <3>1 DEF InOrder
  <2>5. nextId' >= 1
    BY <1>0, <2>2
  <2>. QED
    BY <2>2, <2>3, <2>4, <2>5 DEF InOrder
<1>2. CASE Taken
  <2>1. Coming # <<>>
    BY <1>2, ComingType, ConcatEqualIffEmpty DEF Taken, Coming
  <2>2. /\ Len(Coming') = Len(Coming) - 1 /\ nextId' = nextId
        /\ \A i \in 1 .. Len(Coming') : Coming'[i] = Coming[i + 1]
    BY <1>0, <1>2, <2>1, HeadTailProperties DEF Taken
  <2>3. \A i \in 1 .. Len(Coming') : i + 1 \in 1 .. Len(Coming)
    BY <1>0, <2>2
  <2>4. \A i, j \in 1 .. Len(Coming') : i < j => i + 1 < j + 1
    OBVIOUS
  <2>. QED
    BY <2>2, <2>3, <2>4 DEF InOrder
<1>3. CASE Purged
  <2>1. /\ Len(Coming') \in Nat /\ Len(Coming') <= Len(Coming)
        /\ \A i \in 1 .. Len(Coming') : Coming'[i] = Coming[i]
    <3>1. CASE Coming' = <<>>
      BY <1>0, <3>1, EmptySeq
    <3>2. CASE Coming' = hand
      <4>1. /\ Len(Coming) = Len(hand) + Len(queue) /\ Len(hand) \in Nat /\ Len(queue) \in Nat
            /\ \A i \in 1 .. Len(hand) + Len(queue) :
                  Coming[i] = IF i <= Len(hand) THEN hand[i] ELSE queue[i - Len(hand)]
        BY ComingType, ConcatProperties, LenProperties DEF Coming
      <4>. QED
        BY <3>2, <4>1
    <3>3. CASE Coming' = Coming
      BY <1>0, <3>3
    <3>. QED
      BY <1>3, <3>1, <3>2, <3>3 DEF Purged
  <2>2. \A i \in 1 .. Len(Coming') : i \in 1 .. Len(Coming)
    BY <1>0, <2>1
  <2>. QED
    BY <1>3, <2>1, <2>2 DEF InOrder, Purged
<1>. QED
  BY <1>1, <1>2, <1>3, ComingSteps
(* Where what is still to come comes from.                                 *)
LEMMA ComingFrom ==
    ASSUME TypeInv, HandEmpty, [Next]_vars
    PROVE  /\ nextId <= nextId' /\ nextId' \in Nat
           /\ \A i \in 1 .. Len(Coming') :
                 \/ Coming'[i].id = nextId /\ nextId < nextId'
                 \/ \E j \in 1 .. Len(Coming) : Coming'[i].id = Coming[j].id
<1>0. /\ Coming \in Seq(Packet) /\ Len(Coming) \in Nat /\ nextId \in Nat /\ session \in Nat
  BY ComingType
<1>1. CASE Joined
  <2>. DEFINE new == [id |-> nextId, session |-> session]
  <2>1. new \in Packet /\ new.id = nextId
    BY <1>0 DEF Packet
  <2>. HIDE DEF new
  <2>2. /\ Len(Coming') = Len(Coming) + 1 /\ nextId' = nextId + 1
        /\ \A i \in 1 .. Len(Coming) : Coming'[i] = Coming[i]
        /\ Coming'[Len(Coming) + 1] = new
    <3>1. Coming' = Append(Coming, new) /\ nextId' = nextId + 1
      BY <1>1 DEF Joined, new
    <3>. QED
      BY <1>0, <2>1, <3>1, AppendProperties
  <2>3. ASSUME NEW i \in 1 .. Len(Coming')
        PROVE  \/ Coming'[i].id = nextId /\ nextId < nextId'
               \/ \E j \in 1 .. Len(Coming) : Coming'[i].id = Coming[j].id
    <3>1. i \in 1 .. Len(Coming) \/ i = Len(Coming) + 1
      BY <1>0, <2>2
    <3>. QED
      BY <1>0, <2>1, <2>2, <3>1
  <2>. QED
    BY <1>0, <2>2, <2>3
<1>2. CASE Taken
  <2>1. Coming # <<>>
    BY <1>2, ComingType, ConcatEqualIffEmpty DEF Taken, Coming
  <2>2. /\ Len(Coming') = Len(Coming) - 1 /\ nextId' = nextId
        /\ \A i \in 1 .. Len(Coming') : Coming'[i] = Coming[i + 1]
    BY <1>0, <1>2, <2>1, HeadTailProperties DEF Taken
  <2>3. \A i \in 1 .. Len(Coming') : i + 1 \in 1 .. Len(Coming)
    BY <1>0, <2>2
  <2>. QED
    BY <1>0, <2>2, <2>3
<1>3. CASE Purged
  <2>1. \A i \in 1 .. Len(Coming') : i \in 1 .. Len(Coming) /\ Coming'[i] = Coming[i]
    <3>1. CASE Coming' = <<>>
      BY <1>0, <3>1, EmptySeq
    <3>2. CASE Coming' = hand
      <4>1. /\ Len(Coming) = Len(hand) + Len(queue) /\ Len(hand) \in Nat /\ Len(queue) \in Nat
            /\ \A i \in 1 .. Len(hand) + Len(queue) :
                  Coming[i] = IF i <= Len(hand) THEN hand[i] ELSE queue[i - Len(hand)]
        BY ComingType, ConcatProperties, LenProperties DEF Coming
      <4>. QED
        BY <3>2, <4>1
    <3>3. CASE Coming' = Coming
      BY <1>0, <3>3
    <3>. QED
      BY <1>3, <3>1, <3>2, <3>3 DEF Purged
  <2>. QED
    BY <1>0, <1>3, <2>1 DEF Purged
<1>. QED
  BY <1>1, <1>2, <1>3, ComingSteps

(* The capture numbers of what is stored.                                  *)
LEMMA StoredIdsAre ==
    ASSUME TypeInv, Recording
    PROVE  /\ StoredIds \in Seq(Nat) /\ Len(StoredIds) = pos + Len(buf) /\ Len(StoredIds) \in Nat
           /\ \A i \in 1 .. pos : StoredIds[i] = Fetched[i].id
           /\ \A i \in 1 .. Len(buf) : StoredIds[pos + i] = buf[i].id
           /\ StoredIds = [i \in 1 .. Len(Stored) |-> Stored[i].id]
           /\ \A i \in 1 .. Len(Stored) : StoredIds[i] = Stored[i].id
<1>1. open
  BY DEF Recording
<1>2. /\ Fetched \in Seq(Packet) /\ Len(Fetched) = pos /\ buf \in Seq(Packet) /\ pos \in Nat
      /\ Len(buf) \in Nat /\ Stored \in Seq(Packet) /\ Len(Stored) = pos + Len(buf)
      /\ \A i \in 1 .. pos + Len(buf) :
            Stored[i] = IF i <= pos THEN Fetched[i] ELSE buf[i - pos]
  BY <1>1, StoredIs
<1>3. StoredIds = [i \in 1 .. Len(Stored) |-> Stored[i].id]
  BY DEF StoredIds
<1>4. \A i \in 1 .. Len(Stored) : Stored[i].id \in Nat
  <2>1. \A i \in 1 .. Len(Stored) : Stored[i] \in Packet
    BY <1>2, ElementOfSeq
  <2>. QED
    BY <2>1 DEF Packet
<1>5. Len(Stored) \in Nat
  BY <1>2
<1>6. StoredIds \in [1 .. Len(Stored) -> Nat]
  BY <1>3, <1>4
<1>7. StoredIds \in Seq(Nat) /\ Len(StoredIds) = Len(Stored)
  BY <1>5, <1>6
<1>8. \A i \in 1 .. Len(Stored) : StoredIds[i] = Stored[i].id
  BY <1>3
<1>9. ASSUME NEW i \in 1 .. pos PROVE StoredIds[i] = Fetched[i].id
  <2>1. i \in 1 .. pos + Len(buf) /\ i <= pos
    BY <1>2
  <2>. QED
    BY <1>2, <1>8, <2>1
<1>10. ASSUME NEW i \in 1 .. Len(buf) PROVE StoredIds[pos + i] = buf[i].id
  <2>1. pos + i \in 1 .. pos + Len(buf) /\ ~(pos + i <= pos) /\ pos + i - pos = i
    BY <1>2
  <2>. QED
    BY SMTT(30), <1>2, <1>8, <2>1
<1>. QED
  BY <1>2, <1>3, <1>5, <1>7, <1>8, <1>9, <1>10

(* The same, of the next state.                                            *)
IdsAre ==
    /\ Len(Fetched) = pos
    /\ StoredIds \in Seq(Nat) /\ Len(StoredIds) = pos + Len(buf)
    /\ \A i \in 1 .. pos : StoredIds[i] = Fetched[i].id
    /\ \A i \in 1 .. Len(buf) : StoredIds[pos + i] = buf[i].id

LEMMA IdsAreNext == (TypeInv /\ Recording => IdsAre)'
<1>1. TypeInv /\ Recording => IdsAre
  BY StoredIs, StoredIdsAre DEF IdsAre, Recording
<1>. QED
  BY <1>1, PTL

LEMMA OlderFrom ==
    ASSUME TypeInv, HandEmpty, InOrder, Older, InOrder', [Next]_vars,
           \A k \in 1 .. Len(StoredIds') :
              \/ StoredIds'[k] = 0
              \/ \E j \in 1 .. Len(StoredIds) : StoredIds'[k] = StoredIds[j] /\ StoredIds[j] \in Nat
    PROVE  Older'
<1>1. /\ nextId <= nextId' /\ nextId' \in Nat /\ nextId \in Nat
      /\ \A i \in 1 .. Len(Coming') :
            \/ Coming'[i].id = nextId /\ nextId < nextId'
            \/ \E j \in 1 .. Len(Coming) : Coming'[i].id = Coming[j].id
  BY ComingFrom, ComingType
<1>2. ASSUME NEW k \in 1 .. Len(StoredIds')
      PROVE  /\ StoredIds'[k] < nextId'
             /\ \A i \in 1 .. Len(Coming') : StoredIds'[k] < Coming'[i].id
  <2>1. CASE StoredIds'[k] = 0
    <3>1. nextId' >= 1 /\ \A i \in 1 .. Len(Coming') : Coming'[i].id >= 1
      BY DEF InOrder
    <3>2. \A i \in 1 .. Len(Coming') : Coming'[i].id \in Nat
      BY <1>1, ComingType
    <3>. QED
      BY <1>1, <2>1, <3>1, <3>2
  <2>2. ASSUME NEW j \in 1 .. Len(StoredIds), StoredIds'[k] = StoredIds[j], StoredIds[j] \in Nat
        PROVE  /\ StoredIds'[k] < nextId'
               /\ \A i \in 1 .. Len(Coming') : StoredIds'[k] < Coming'[i].id
    <3>1. /\ StoredIds[j] < nextId
          /\ \A i \in 1 .. Len(Coming) : StoredIds[j] < Coming[i].id
      BY DEF Older
    <3>. DEFINE x == StoredIds[j]
    <3>2. x \in Nat /\ x < nextId /\ StoredIds'[k] = x
      BY <2>2, <3>1
    <3>3. \A i \in 1 .. Len(Coming) : x < Coming[i].id
      BY <3>1
    <3>. HIDE DEF x
    <3>4. x < nextId'
      BY <1>1, <3>2
    <3>5. ASSUME NEW i \in 1 .. Len(Coming') PROVE x < Coming'[i].id
      <4>1. CASE Coming'[i].id = nextId
        BY <3>2, <4>1
      <4>2. CASE \E l \in 1 .. Len(Coming) : Coming'[i].id = Coming[l].id
        BY <3>3, <4>2
      <4>. QED
        BY <1>1, <4>1, <4>2
    <3>. QED
      BY <3>2, <3>4, <3>5
  <2>. QED
    BY <2>1, <2>2
<1>. QED
  BY <1>2 DEF Older

(* The three kinds of step of the log.                                     *)
LEMMA ResetBegins ==
    ASSUME TypeInv, IsolationInv, ResetFileState
    PROVE  Stored' = <<>> /\ ~Recording
<1>1. /\ open /\ pos = 0 /\ buf' = <<>> /\ UNCHANGED <<files, path, pos>> /\ pc = "reset"
  BY DEF ResetFileState, PurgeQueue, cardVars, IsolationInv, TypeInv, ControlInv, At
<1>2. Fetched \in Seq(Packet) /\ Len(Fetched) = 0
  BY <1>1, StoredIs
<1>3. Fetched = <<>>
  BY <1>2
<1>4. Stored' = Fetched' \o buf' /\ Fetched' = Fetched
  BY <1>1 DEF Stored, Fetched
<1>. QED
  BY <1>1, <1>3, <1>4 DEF Recording

LEMMA StoresExtends ==
    ASSUME TypeInv, TypeInv', InOrder, InOrder', Older, Recording, Recording', Stores
    PROVE  /\ Len(StoredIds') = Len(StoredIds) + 1
           /\ \A i \in 1 .. Len(StoredIds) :
                 StoredIds'[i] = StoredIds[i] /\ StoredIds[i] < StoredIds'[Len(StoredIds')]
           /\ Older'
<1>. DEFINE n == Len(StoredIds)
<1>1. /\ StoredIds \in Seq(Nat) /\ n \in Nat /\ n = Len(Stored) /\ Stored \in Seq(Packet)
      /\ \A i \in 1 .. n : StoredIds[i] = Stored[i].id /\ StoredIds[i] \in Nat
  <2>1. Stored \in Seq(Packet) /\ Len(Stored) = pos + Len(buf)
    BY StoredIs DEF Recording
  <2>2. \A i \in 1 .. Len(StoredIds) : StoredIds[i] \in Nat
    BY StoredIdsAre, ElementOfSeq
  <2>. QED
    BY <2>1, <2>2, StoredIdsAre
<1>2. hand = <<hand[1]>> /\ Len(hand) = 1 /\ hand[1] \in Packet
  BY HandOf DEF Stores
<1>3. /\ Len(Stored') = n + 1
      /\ \A i \in 1 .. n : Stored'[i] = Stored[i]
      /\ Stored'[n + 1] = hand[1]
  <2>1. Stored' = Stored \o hand /\ hand \in Seq(Packet)
    BY StoredParts DEF Stores
  <2>2. /\ Len(Stored \o hand) = Len(Stored) + 1
        /\ \A i \in 1 .. Len(Stored) + 1 :
              (Stored \o hand)[i] = IF i <= Len(Stored) THEN Stored[i] ELSE hand[i - Len(Stored)]
    <3>1. /\ Len(Stored \o hand) = Len(Stored) + Len(hand)
          /\ \A i \in 1 .. Len(Stored) + Len(hand) :
                (Stored \o hand)[i] = IF i <= Len(Stored) THEN Stored[i] ELSE hand[i - Len(Stored)]
      BY <1>1, <2>1, ConcatProperties
    <3>. QED
      BY <1>2, <3>1
  <2>3. n + 1 \in 1 .. Len(Stored) + 1 /\ ~(n + 1 <= Len(Stored)) /\ n + 1 - Len(Stored) = 1
    BY <1>1
  <2>4. \A i \in 1 .. n : i \in 1 .. Len(Stored) + 1 /\ i <= Len(Stored)
    BY <1>1
  <2>. HIDE DEF n
  <2>. QED
    BY <1>1, <2>1, <2>2, <2>3, <2>4
<1>4. /\ Len(StoredIds') = n + 1
      /\ \A i \in 1 .. n + 1 : StoredIds'[i] = Stored'[i].id
  <2>1. StoredIds' = [i \in 1 .. Len(Stored') |-> Stored'[i].id]
    BY DEF StoredIds
  <2>. HIDE DEF n
  <2>. QED
    BY <1>1, <1>3, <2>1
<1>5. /\ Coming \in Seq(Packet) /\ Len(Coming) = 1 + Len(queue) /\ Len(queue) \in Nat
      /\ Coming[1] = hand[1]
      /\ \A i \in 1 .. Len(queue) : Coming[i + 1] = queue[i]
  <2>1. /\ hand \in Seq(Packet) /\ queue \in Seq(Packet) /\ Len(queue) \in Nat
    BY StoredParts
  <2>2. /\ Coming \in Seq(Packet) /\ Len(Coming) = Len(hand) + Len(queue)
        /\ \A i \in 1 .. Len(hand) + Len(queue) :
              Coming[i] = IF i <= Len(hand) THEN hand[i] ELSE queue[i - Len(hand)]
    BY <2>1, ConcatProperties DEF Coming
  <2>3. ASSUME NEW i \in 1 .. Len(queue) PROVE Coming[i + 1] = queue[i]
    <3>1. i + 1 \in 1 .. 1 + Len(queue) /\ ~(i + 1 <= 1) /\ i + 1 - 1 = i
      BY <2>1
    <3>. QED
      BY <1>2, <2>2, <3>1
  <2>4. Coming[1] = hand[1]
    BY <1>2, <2>1, <2>2
  <2>. QED
    BY <1>2, <2>1, <2>2, <2>3, <2>4
<1>6. Coming' = queue
  <2>1. queue \in Seq(Packet) /\ Coming' = hand' \o queue'
    BY StoredParts DEF Coming
  <2>. QED
    BY <2>1, ConcatEmptySeq DEF Stores
<1>. DEFINE h == hand[1].id
<1>7. h \in Nat /\ nextId \in Nat /\ nextId' = nextId
  BY <1>2, ComingType DEF Packet, Stores
<1>8. /\ \A i \in 1 .. n : StoredIds[i] < h /\ StoredIds[i] < nextId
      /\ h < nextId
      /\ \A i \in 1 .. Len(queue) : h < queue[i].id
      /\ \A k \in 1 .. n, i \in 1 .. Len(queue) : StoredIds[k] < queue[i].id
  <2>1. 1 \in 1 .. Len(Coming) /\ \A i \in 1 .. Len(queue) : i + 1 \in 1 .. Len(Coming) /\ 1 < i + 1
    BY <1>5
  <2>2. \A i \in 1 .. n : StoredIds[i] < h /\ StoredIds[i] < nextId
    BY <1>5, <2>1 DEF Older
  <2>3. h < nextId
    BY <1>5, <2>1 DEF InOrder
  <2>4. \A i \in 1 .. Len(queue) : h < queue[i].id
    BY <1>5, <2>1 DEF InOrder
  <2>5. \A k \in 1 .. n, i \in 1 .. Len(queue) : StoredIds[k] < queue[i].id
    BY <1>5, <2>1 DEF Older
  <2>. QED
    BY <2>2, <2>3, <2>4, <2>5
<1>9. /\ StoredIds'[n + 1] = h
      /\ \A i \in 1 .. n : StoredIds'[i] = StoredIds[i]
  <2>1. n + 1 \in 1 .. n + 1 /\ \A i \in 1 .. n : i \in 1 .. n + 1
    BY <1>1
  <2>. HIDE DEF n
  <2>. QED
    BY <1>1, <1>3, <1>4, <2>1
<1>10. Older'
  <2>1. ASSUME NEW k \in 1 .. n + 1
        PROVE  StoredIds'[k] < nextId /\ \A i \in 1 .. Len(queue) : StoredIds'[k] < queue[i].id
    <3>1. k \in 1 .. n \/ k = n + 1
      BY <1>1
    <3>. HIDE DEF n, h
    <3>. QED
      BY <1>8, <1>9, <3>1
  <2>. HIDE DEF n, h
  <2>. QED
    BY <1>4, <1>6, <1>7, <2>1 DEF Older
<1>. HIDE DEF n, h
<1>11. \A i \in 1 .. n : StoredIds'[i] = StoredIds[i] /\ StoredIds[i] < StoredIds'[n + 1]
  BY <1>8, <1>9
<1>. QED
  BY <1>4, <1>10, <1>11 DEF n

LEMMA RepeatIs ==
    ASSUME NEW s \in Seq(Nat), NEW a \in 0 .. Len(s), NEW b \in a .. Len(s),
           NEW piece \in {<<>>, << 0 >>}
    PROVE  LET r == SubSeq(s, 1, b) \o piece \o SubSeq(s, a + 1, Len(s))
           IN  /\ r \in Seq(Nat) /\ Len(r) = b + Len(piece) + (Len(s) - a)
               /\ \A i \in 1 .. b : r[i] = s[i]
               /\ piece # <<>> => r[b + 1] = 0
               /\ \A j \in 1 .. Len(s) - a : r[b + Len(piece) + j] = s[a + j]
<1>. DEFINE x == SubSeq(s, 1, b)
            z == SubSeq(s, a + 1, Len(s))
            r == x \o piece \o z
<1>1. Len(s) \in Nat /\ a \in Nat /\ b \in Nat /\ a <= b /\ b <= Len(s)
  OBVIOUS
<1>2. x \in Seq(Nat) /\ Len(x) = b /\ \A i \in 1 .. b : x[i] = s[i]
  BY <1>1
<1>3. z \in Seq(Nat) /\ Len(z) = Len(s) - a /\ \A j \in 1 .. Len(s) - a : z[j] = s[a + j]
  <2>1. a + 1 \in Int /\ Len(s) \in Int /\ \A i \in a + 1 .. Len(s) : s[i] \in Nat
    BY <1>1
  <2>. DEFINE m == a + 1
              n == Len(s)
  <2>2. /\ n - m + 1 = n - a /\ (IF m <= n THEN n - m + 1 ELSE 0) = n - a
        /\ \A j \in 1 .. n - a : m + j - 1 = a + j
    BY <1>1
  <2>3. m \in Int /\ n \in Int /\ z = SubSeq(s, m, n) /\ \A i \in m .. n : s[i] \in Nat
    BY <2>1
  <2>. HIDE DEF m, n, z
  <2>4. /\ z \in Seq(Nat) /\ Len(z) = IF m <= n THEN n - m + 1 ELSE 0
        /\ \A j \in 1 .. n - m + 1 : z[j] = s[m + j - 1]
    BY ONLY <2>3, SubSeqProperties
  <2>5. z \in Seq(Nat) /\ Len(z) = n - a /\ \A j \in 1 .. n - a : z[j] = s[a + j]
    BY <2>2, <2>4
  <2>. QED
    BY <2>5 DEF n
<1>4. piece \in Seq(Nat) /\ Len(piece) \in {0, 1} /\ (piece # <<>> => Len(piece) = 1 /\ piece[1] = 0)
  <2>1. CASE piece = <<>>
    BY <2>1, EmptySeq
  <2>2. CASE piece = <<0>>
    BY <2>2
  <2>. QED
    BY <2>1, <2>2
<1>. HIDE DEF x, z
<1>5. /\ x \o piece \in Seq(Nat) /\ Len(x \o piece) = b + Len(piece)
      /\ \A i \in 1 .. b + Len(piece) : (x \o piece)[i] = IF i <= b THEN x[i] ELSE piece[i - b]
  BY ZenonT(40), <1>2, <1>4, ConcatProperties
<1>6. /\ r \in Seq(Nat) /\ Len(r) = b + Len(piece) + (Len(s) - a)
      /\ \A i \in 1 .. b + Len(piece) + (Len(s) - a) :
            r[i] = IF i <= b + Len(piece) THEN (x \o piece)[i] ELSE z[i - (b + Len(piece))]
  <2>. DEFINE y == x \o piece
  <2>1. y \in Seq(Nat) /\ Len(y) = b + Len(piece) /\ r = y \o z /\ z \in Seq(Nat)
    BY <1>3, <1>5
  <2>. HIDE DEF y, r
  <2>2. /\ y \o z \in Seq(Nat) /\ Len(y \o z) = Len(y) + Len(z)
        /\ \A i \in 1 .. Len(y) + Len(z) :
              (y \o z)[i] = IF i <= Len(y) THEN y[i] ELSE z[i - Len(y)]
    <3>1. y \in Seq(Nat) /\ z \in Seq(Nat)
      BY <2>1
    <3>. QED
      BY ONLY <3>1, ConcatProperties
  <2>. QED
    BY <1>3, <2>1, <2>2 DEF y
<1>. HIDE DEF r
<1>7. ASSUME NEW i \in 1 .. b PROVE r[i] = s[i]
  <2>1. /\ i \in 1 .. b + Len(piece) + (Len(s) - a) /\ i <= b + Len(piece)
        /\ i \in 1 .. b + Len(piece) /\ i <= b
    BY <1>1, <1>4
  <2>. QED
    BY <1>2, <1>5, <1>6, <2>1
<1>8. ASSUME piece # <<>> PROVE r[b + 1] = 0
  <2>1. /\ b + 1 \in 1 .. b + Len(piece) + (Len(s) - a) /\ b + 1 <= b + Len(piece)
        /\ b + 1 \in 1 .. b + Len(piece) /\ ~(b + 1 <= b) /\ b + 1 - b = 1
    BY <1>1, <1>4, <1>8
  <2>2. r[b + 1] = (x \o piece)[b + 1]
    BY <1>6, <2>1
  <2>3. (x \o piece)[b + 1] = piece[1]
    BY <1>5, <2>1
  <2>. QED
    BY <1>4, <1>8, <2>2, <2>3
<1>9. ASSUME NEW j \in 1 .. Len(s) - a PROVE r[b + Len(piece) + j] = s[a + j]
  <2>1. /\ b + Len(piece) + j \in 1 .. b + Len(piece) + (Len(s) - a)
        /\ ~(b + Len(piece) + j <= b + Len(piece))
        /\ b + Len(piece) + j - (b + Len(piece)) = j
    BY <1>1, <1>4
  <2>. QED
    BY <1>3, <1>6, <2>1
<1>. QED
  BY <1>6, <1>7, <1>8, <1>9 DEF r, x, z

(* A failed write repeats what it wrote of the buffer in front of it.      *)
LEMMA FailsRepeats ==
    ASSUME TypeInv, TypeInv', Recording, Recording', Fails
    PROVE  /\ \E a \in 0 .. Len(StoredIds), piece \in {<<>>, <<0>>} : \E b \in a .. Len(StoredIds) :
                 StoredIds' = SubSeq(StoredIds, 1, b) \o piece
                                 \o SubSeq(StoredIds, a + 1, Len(StoredIds))
           /\ \A k \in 1 .. Len(StoredIds') :
                 \/ StoredIds'[k] = 0
                 \/ \E j \in 1 .. Len(StoredIds) :
                       StoredIds'[k] = StoredIds[j] /\ StoredIds[j] \in Nat
<1>0. PICK k \in 0 .. Len(buf) - 1, part \in {<<>>, <<Fragment(session)>>} :
          FsWrite(SubSeq(buf, 1, k) \o part)
  BY DEF Fails, WriteFails
<1>. DEFINE piece == IF part = <<>> THEN <<>> ELSE <<0>>
            m     == Len(part)
            ids   == StoredIds
            recs  == SubSeq(buf, 1, k) \o part
            head  == SubSeq(buf, 1, k)
<1>1. /\ open /\ buf' = buf /\ buf \in Seq(Packet) /\ Len(buf) \in Nat /\ pos \in Nat
      /\ session \in Nat /\ k \in Nat /\ k < Len(buf)
      /\ Fetched \in Seq(Packet) /\ Len(Fetched) = pos
  <2>1. open /\ buf' = buf
    BY DEF Recording, Fails, WriteFails
  <2>. QED
    BY <1>0, <2>1, StoredParts, StoredIs
<1>2. /\ part \in Seq(Packet) /\ m \in {0, 1} /\ Len(piece) = m /\ piece \in {<<>>, <<0>>}
      /\ piece # <<>> => part # <<>> /\ part[1].id = 0
      /\ m = 1 => piece # <<>>
  <2>1. Fragment(session) \in Packet /\ Fragment(session).id = 0
    BY <1>1 DEF Fragment, Packet
  <2>2. CASE part = <<>>
    BY <2>2, EmptySeq
  <2>3. CASE part = <<Fragment(session)>>
    BY <2>1, <2>3
  <2>. QED
    BY <1>0, <2>2, <2>3
<1>3. head \in Seq(Packet) /\ Len(head) = k /\ \A i \in 1 .. k : head[i] = buf[i]
  BY <1>1
<1>. HIDE DEF piece, m, head
<1>4. /\ recs \in Seq(Packet) /\ Len(recs) = k + m
      /\ \A i \in 1 .. k + m : recs[i] = IF i <= k THEN head[i] ELSE part[i - k]
  <2>1. /\ head \o part \in Seq(Packet) /\ Len(head \o part) = k + m
        /\ \A i \in 1 .. k + m : (head \o part)[i] = IF i <= k THEN head[i] ELSE part[i - k]
    <3>1. /\ head \o part \in Seq(Packet) /\ Len(head \o part) = Len(head) + Len(part)
          /\ \A i \in 1 .. Len(head) + Len(part) :
                (head \o part)[i] = IF i <= Len(head) THEN head[i] ELSE part[i - Len(head)]
      BY <1>2, <1>3, ConcatProperties
    <3>. QED
      BY <1>3, <3>1 DEF m
  <2>. QED
    BY <2>1 DEF head
<1>. HIDE DEF recs
<1>5. Fetched' = Fetched \o recs
  <2>1. FsWrite(recs)
    BY <1>0 DEF recs
  <2>. QED
    BY <1>1, <1>4, <2>1, WriteAppends
<1>6. /\ Len(Fetched') = pos + (k + m)
      /\ \A i \in 1 .. pos + (k + m) :
            Fetched'[i] = IF i <= pos THEN Fetched[i] ELSE recs[i - pos]
  BY <1>1, <1>4, <1>5, ConcatProperties
<1>7. pos' = pos + (k + m) /\ pos' \in Nat
  <2>1. Len(Fetched') = pos'
    BY IdsAreNext DEF IdsAre
  <2>2. k + m \in Nat /\ pos + (k + m) \in Nat
    BY <1>1, <1>2
  <2>. QED
    BY <1>6, <2>1, <2>2
<1>8. /\ ids \in Seq(Nat) /\ Len(ids) = pos + Len(buf)
      /\ \A i \in 1 .. pos : ids[i] = Fetched[i].id
      /\ \A i \in 1 .. Len(buf) : ids[pos + i] = buf[i].id
  BY StoredIdsAre
<1>9. /\ StoredIds' \in Seq(Nat) /\ Len(StoredIds') = pos' + Len(buf)
      /\ \A i \in 1 .. pos' : StoredIds'[i] = Fetched'[i].id
      /\ \A i \in 1 .. Len(buf) : StoredIds'[pos' + i] = buf[i].id
  BY <1>1, IdsAreNext DEF IdsAre
<1>. DEFINE new == StoredIds'
<1>. HIDE DEF ids, new
<1>10. ASSUME NEW i \in 1 .. pos + k PROVE new[i] = ids[i]
  <2>1. i \in 1 .. pos' /\ i \in 1 .. pos + (k + m)
    BY <1>1, <1>2, <1>7
  <2>2. new[i] = Fetched'[i].id
    BY <1>9, <2>1 DEF new
  <2>3. CASE i <= pos
    <3>1. i \in 1 .. pos
      BY <1>1, <2>3
    <3>. QED
      BY <1>6, <1>8, <2>1, <2>2, <2>3, <3>1
  <2>4. CASE ~(i <= pos)
    <3>1. /\ i - pos \in 1 .. k /\ i - pos \in 1 .. k + m /\ i - pos <= k /\ i - pos \in 1 .. Len(buf)
          /\ pos + (i - pos) = i
      BY <1>1, <1>2, <2>4
    <3>2. Fetched'[i] = buf[i - pos]
      BY <1>3, <1>4, <1>6, <2>1, <2>4, <3>1
    <3>. QED
      BY <1>8, <2>2, <3>1, <3>2
  <2>. QED
    BY <2>3, <2>4
<1>11. ASSUME m = 1 PROVE new[pos + k + 1] = 0
  <2>1. /\ pos + k + 1 \in 1 .. pos' /\ pos + k + 1 \in 1 .. pos + (k + m) /\ ~(pos + k + 1 <= pos)
        /\ pos + k + 1 - pos = k + 1 /\ k + 1 \in 1 .. k + m /\ ~(k + 1 <= k) /\ k + 1 - k = 1
    BY <1>1, <1>7, <1>11
  <2>2. new[pos + k + 1] = Fetched'[pos + k + 1].id
    BY <1>9, <2>1 DEF new
  <2>3. Fetched'[pos + k + 1] = part[1]
    <3>1. Fetched'[pos + k + 1] = recs[k + 1]
      <4>1. Fetched'[pos + k + 1] = recs[pos + k + 1 - pos]
        BY <1>1, <1>6, <2>1
      <4>. QED
        BY <2>1, <4>1
    <3>2. recs[k + 1] = part[1]
      BY <1>4, <2>1
    <3>. QED
      BY <3>1, <3>2
  <2>. QED
    BY <1>2, <1>11, <2>2, <2>3
<1>12. ASSUME NEW j \in 1 .. Len(buf) PROVE new[pos + k + m + j] = ids[pos + j]
  <2>1. pos + k + m + j = pos' + j
    BY <1>1, <1>2, <1>7
  <2>. QED
    BY <1>8, <1>9, <2>1 DEF new
<1>13. new \in Seq(Nat) /\ Len(new) = pos + k + m + Len(buf)
  BY <1>1, <1>2, <1>7, <1>9 DEF new
<1>14. pos \in 0 .. Len(ids) /\ pos + k \in pos .. Len(ids) /\ Len(ids) \in Nat
  BY <1>1, <1>8
<1>. DEFINE r == SubSeq(ids, 1, pos + k) \o piece \o SubSeq(ids, pos + 1, Len(ids))
<1>15. /\ r \in Seq(Nat) /\ Len(r) = pos + k + m + Len(buf)
       /\ \A i \in 1 .. pos + k : r[i] = ids[i]
       /\ m = 1 => r[pos + k + 1] = 0
       /\ \A j \in 1 .. Len(buf) : r[pos + k + m + j] = ids[pos + j]
  <2>1. Len(ids) - pos = Len(buf)
    BY <1>1, <1>8
  <2>2. /\ r \in Seq(Nat) /\ Len(r) = pos + k + Len(piece) + (Len(ids) - pos)
        /\ \A i \in 1 .. pos + k : r[i] = ids[i]
        /\ piece # <<>> => r[pos + k + 1] = 0
        /\ \A j \in 1 .. Len(ids) - pos : r[pos + k + Len(piece) + j] = ids[pos + j]
    BY <1>2, <1>8, <1>14, RepeatIs
  <2>. HIDE DEF r
  <2>. QED
    BY <1>2, <2>1, <2>2
<1>. HIDE DEF r
<1>16. \A i \in 1 .. Len(new) :
          \/ i \in 1 .. pos + k
          \/ m = 1 /\ i = pos + k + 1
          \/ \E j \in 1 .. Len(buf) : i = pos + k + m + j
  <2>1. ASSUME NEW i \in 1 .. Len(new), i \notin 1 .. pos + k, ~(m = 1 /\ i = pos + k + 1)
        PROVE  \E j \in 1 .. Len(buf) : i = pos + k + m + j
    <3>1. i - (pos + k + m) \in 1 .. Len(buf) /\ i = pos + k + m + (i - (pos + k + m))
      <4>0. pos + k \in Nat /\ Len(buf) \in Nat /\ i \in 1 .. pos + k + m + Len(buf)
        BY <1>1, <1>13
      <4>1. CASE m = 0
        BY <2>1, <4>0, <4>1
      <4>2. CASE m = 1
        BY <2>1, <4>0, <4>2
      <4>. QED
        BY <1>2, <4>1, <4>2
    <3>. QED
      BY <3>1
  <2>. QED
    BY <2>1
<1>17. \A i \in 1 .. Len(new) : new[i] = r[i]
  BY ZenonT(40), <1>10, <1>11, <1>12, <1>15, <1>16
<1>18. new = r
  BY <1>13, <1>15, <1>17, SeqEqual
<1>19. ASSUME NEW i \in 1 .. Len(new)
       PROVE  new[i] = 0 \/ \E j \in 1 .. Len(ids) : new[i] = ids[j] /\ ids[j] \in Nat
  <2>1. \A j \in 1 .. Len(ids) : ids[j] \in Nat
    BY <1>8, ElementOfSeq
  <2>2. CASE i \in 1 .. pos + k
    <3>1. i \in 1 .. Len(ids)
      BY <1>1, <1>14, <2>2
    <3>. QED
      BY <1>10, <2>1, <2>2, <3>1
  <2>3. CASE m = 1 /\ i = pos + k + 1
    BY <1>11, <2>3
  <2>4. ASSUME NEW j \in 1 .. Len(buf), i = pos + k + m + j
        PROVE  \E l \in 1 .. Len(ids) : new[i] = ids[l] /\ ids[l] \in Nat
    <3>1. pos + j \in 1 .. Len(ids)
      BY <1>1, <1>8
    <3>. QED
      BY <1>12, <2>1, <2>4, <3>1
  <2>. QED
    BY <1>16, <2>2, <2>3, <2>4
<1>. QED
  BY <1>2, <1>14, <1>18, <1>19 DEF r, ids, new

LEMMA LogStep ==
    ASSUME TypeInv, TypeInv', IsolationInv, HandEmpty, InOrder, InOrder', Older, [Next]_vars
    PROVE  [Log!LogNext]_(Log!logVars) /\ Older'
<1>0. Recording \in BOOLEAN /\ Recording' \in BOOLEAN
  BY DEF Recording, TypeInv, TypeOK, CardTypeOK
<1>1. CASE StoredIds' = <<>> /\ ~(Recording /\ Recording')
  <2>1. Older'
    BY <1>1, EmptySeq DEF Older
  <2>2. CASE ~Recording
    <3>1. StoredIds = <<>>
      BY <2>2 DEF StoredIds
    <3>2. CASE ~Recording'
      <4>1. Recording' = Recording
        BY <1>0, <2>2, <3>2
      <4>2. StoredIds' = StoredIds
        BY <1>1, <3>1
      <4>. QED
        BY <2>1, <4>1, <4>2 DEF Log!logVars
    <3>3. CASE Recording'
      <4>1. Recording' = TRUE
        BY <1>0, <3>3
      <4>. QED
        BY <1>1, <2>1, <2>2, <4>1 DEF Log!LogNext, Log!Begin
    <3>. QED
      BY <2>1, <3>2, <3>3
  <2>3. CASE Recording /\ ~Recording'
    BY <1>0, <1>1, <2>1, <2>3 DEF Log!LogNext, Log!End
  <2>. QED
    BY <1>1, <2>2, <2>3
<1>2. CASE ~Recording'
  BY <1>1, <1>2 DEF StoredIds
<1>3. CASE ResetFileState
  <2>1. Len(Stored') = 0
    BY <1>3, ResetBegins, EmptySeq
  <2>2. StoredIds' = <<>>
    BY <2>1 DEF StoredIds
  <2>. QED
    BY <1>1, <1>3, <2>2, ResetBegins
<1>4. CASE Recording /\ Recording'
  <2>0. Recording' = Recording
    BY <1>0, <1>4
  <2>1. CASE Enters \/ Moves \/ Stays
    <3>1. StoredIds' = StoredIds
      BY <1>4, <2>1 DEF Enters, Moves, Stays, StoredIds
    <3>2. \A i \in 1 .. Len(StoredIds) : StoredIds[i] \in Nat
      BY <1>4, StoredIdsAre, ElementOfSeq
    <3>3. Older'
      BY <3>1, <3>2, OlderFrom
    <3>. QED
      BY <2>0, <3>1, <3>3 DEF Log!logVars
  <2>2. CASE Stores
    BY <1>4, <2>0, <2>2, StoresExtends DEF Log!LogNext, Log!Extend
  <2>3. CASE Fails
    <3>1. Older'
      BY <1>4, <2>3, FailsRepeats, OlderFrom
    <3>2. Log!Repeat
      BY <1>4, <2>0, <2>3, FailsRepeats DEF Log!Repeat
    <3>. QED
      BY <3>1, <3>2 DEF Log!LogNext
  <2>. QED
    BY <1>4, <2>1, <2>2, <2>3, PipelineSteps
<1>. QED
  BY <1>2, <1>3, <1>4, StillRecording

(* The recorder implements RecordingLog: seen from outside, the recording  *)
(* in progress is one log that grows at its end until it is closed.        *)
THEOREM SpecImplementsRecordingLog == Spec => ImplementsRecordingLog
<1>1. Init => InOrder /\ Older /\ Log!LogInit
  <2>. SUFFICES ASSUME Init PROVE InOrder /\ Older /\ Log!LogInit
    OBVIOUS
  <2>1. hand = <<>> /\ queue = <<>> /\ open = FALSE /\ nextId = 1
    BY DEF Init, CardInit
  <2>2. Len(Coming) = 0
    BY <2>1 DEF Coming
  <2>3. StoredIds = <<>> /\ Len(StoredIds) = 0 /\ Recording = FALSE
    BY <2>1 DEF StoredIds, Recording
  <2>. QED
    BY <2>1, <2>2, <2>3 DEF InOrder, Older, Log!LogInit
<1>2. TypeInv /\ HandEmpty /\ InOrder /\ [Next]_vars => InOrder'
  BY InOrderInductive
<1>3. /\ TypeInv /\ TypeInv' /\ IsolationInv /\ HandEmpty /\ InOrder /\ InOrder' /\ Older
      /\ [Next]_vars
      => [Log!LogNext]_(Log!logVars) /\ Older'
  BY LogStep
<1>. QED
  BY <1>1, <1>2, <1>3, SpecIsolationInv, SpecLossInv, PTL DEF Spec, ImplementsRecordingLog, Log!LogSpec
-----------------------------------------------------------------------------
(***************************************************************************)
(* A rec_NNNN file is never written over.  Its handle stands at the end of *)
(* the file from the open to the close, because the scan chose a name no   *)
(* file had.                                                               *)
(***************************************************************************)
IsRec(n) == \E i \in 1 .. MaxRec : n = RecName(i)

AtTheEnd ==
    /\ open /\ IsRec(path) => pos = Len(files[path].live)
    /\ pc = "open" /\ IsRec(path) => path \notin DOMAIN files

(* The steps by what they do to the files.                                 *)
SameFiles ==
    /\ DOMAIN files' = DOMAIN files
    /\ \A n \in DOMAIN files : files'[n].live = files[n].live

Leaves  == SameFiles /\ UNCHANGED <<path, pos>> /\ (open' => open) /\ (pc' = "open" => pc = "open")
Writes  == open /\ pc' # "open" /\ \E recs \in Seq(Packet) : FsWrite(recs)
Names   == /\ SameFiles /\ ~open /\ ~open'
           /\ pc' = "open" /\ IsRec(path') => path' \notin DOMAIN files
Opens   == pc = "open" /\ pc' = "reset" /\ FsOpen
Reboots == ~open' /\ pc' = "boot"

LEMMA BufferWrites ==
    ASSUME TypeInv, WriteBuffer \/ WriteFails
    PROVE  \E recs \in Seq(Packet) : FsWrite(recs)
<1>1. buf \in Seq(Packet) /\ session \in Nat
  BY StoredParts
<1>2. CASE WriteBuffer
  BY <1>1, <1>2 DEF WriteBuffer
<1>3. CASE WriteFails
  <2>1. PICK k \in 0 .. Len(buf) - 1, piece \in {<<>>, <<Fragment(session)>>} :
            FsWrite(SubSeq(buf, 1, k) \o piece)
    BY <1>3 DEF WriteFails
  <2>2. SubSeq(buf, 1, k) \in Seq(Packet)
    BY <1>1, <2>1, SubSeqProperties
  <2>3. Fragment(session) \in Packet
    BY <1>1 DEF Fragment, Packet
  <2>4. piece \in Seq(Packet)
    <3>1. CASE piece = <<>>
      BY <3>1, EmptySeq
    <3>2. CASE piece = <<Fragment(session)>>
      BY <2>3, <3>2
    <3>. QED
      BY <2>1, <3>1, <3>2
  <2>5. SubSeq(buf, 1, k) \o piece \in Seq(Packet)
    BY <2>2, <2>4, ConcatProperties
  <2>. QED
    BY <2>1, <2>5
<1>. QED
  BY <1>2, <1>3

LEMMA FileSteps ==
    ASSUME TypeInv, [Next]_vars
    PROVE  Leaves \/ Writes \/ Names \/ Opens \/ Reboots
<1>. USE DEF At, Goto
<1>0. buf \in Seq(Packet) /\ ControlInv /\ CardTypeOK
  BY StoredParts DEF TypeInv, TypeOK
<1>1. CASE UNCHANGED <<files, path, open, pos>> /\ pc' # "open"
  BY <1>1 DEF Leaves, SameFiles
<1>2. CASE PauseFlush \/ CheckpointFlush
  BY <1>0, <1>2, BufferWrites DEF PauseFlush, CheckpointFlush, Writes, ControlInv, Writing
<1>3. CASE IdleFlush
  <2>1. CASE active
    <3>1. open /\ pc' # "open"
      BY <1>0, <1>3, <2>1 DEF IdleFlush, ControlInv
    <3>. QED
      BY <1>3, <2>1, <3>1, BufferWrites DEF IdleFlush, Writes
  <2>2. CASE ~active
    BY <1>1, <1>3, <2>2 DEF IdleFlush, cardVars
  <2>. QED
    BY <2>1, <2>2
<1>4. CASE AppendPacket
  <2>1. open /\ pc' # "open"
    BY <1>0, <1>4 DEF AppendPacket, Appended, ControlInv
  <2>2. UNCHANGED cardVars \/ FsWrite(buf) \/ WriteFails
    BY <1>4 DEF AppendPacket
  <2>. QED
    BY <1>0, <1>1, <2>1, <2>2, BufferWrites DEF Writes, cardVars
<1>5. CASE PauseClose \/ CheckpointSync
  <2>1. open /\ path \in DOMAIN files /\ pc' # "open"
    BY <1>0, <1>5 DEF PauseClose, CheckpointSync, ControlInv, Writing, CardTypeOK
  <2>2. /\ UNCHANGED <<path, pos>>
        /\ files' = files \/ files' = [files EXCEPT ![path] = Committed(@)]
    BY <1>5 DEF PauseClose, CheckpointSync, FsClose, FsSync, cardVars
  <2>3. SameFiles
    BY <1>0, <2>1, <2>2, CommitType DEF SameFiles
  <2>. QED
    BY <2>1, <2>2, <2>3 DEF Leaves
<1>6. CASE FinishEpochPath \/ ScanRecPath
  <2>1. ~open /\ open' = open /\ SameFiles
    BY <1>0, <1>6 DEF FinishEpochPath, ScanRecPath, ControlInv, Idle, SameFiles
  <2>2. ASSUME IsRec(path'), pc' = "open" PROVE path' \notin DOMAIN files
    <3>1. CASE FinishEpochPath
      BY <2>2, <3>1 DEF FinishEpochPath, IsRec, EpochName, RecName
    <3>2. CASE ScanRecPath
      BY <2>2, <3>2 DEF ScanRecPath, FreeRecs
    <3>. QED
      BY <1>6, <3>1, <3>2
  <2>. QED
    BY <2>1, <2>2 DEF Names
<1>7. CASE OpenFile
  BY <1>1, <1>7 DEF OpenFile, Opens, cardVars
<1>8. CASE Crash \/ WakeUp
  BY <1>8 DEF Crash, WakeUp, Reboot, PowerLoss, Reboots
<1>9. CASE RecorderThread
  <2>1. CASE \/ GetPacket \/ GetTimeout \/ TakePause \/ Deactivate \/ TakeResume \/ Mount
             \/ BeginEpochPath \/ ResetFileState \/ Activate \/ DiscardPacket
    BY <1>1, <2>1 DEF GetPacket, GetTimeout, TakePause, Deactivate, TakeResume, Mount,
       BeginEpochPath, ResetFileState, Activate, DiscardPacket, cardVars
  <2>. QED
    BY <1>2, <1>3, <1>4, <1>5, <1>6, <1>7, <1>9, <2>1 DEF RecorderThread
<1>10. CASE UNCHANGED <<files, path, open, pos, pc>>
  BY <1>10 DEF Leaves, SameFiles
<1>11. ASSUME NEW oversize \in BOOLEAN, Submit(oversize)
       PROVE  UNCHANGED <<files, path, open, pos, pc>>
  BY <1>11 DEF Submit, cardVars, threadVars
<1>12. CASE RequestStep
  BY <1>10, <1>12 DEF RequestStep, BlePause, BleResume, BleSleep, SetSyncTime, BtnBegin, BtnFinish,
     cardVars, threadVars
<1>13. CASE Tick \/ PowerOff \/ UNCHANGED vars
  BY <1>10, <1>13 DEF Tick, PowerOff, vars, cardVars, threadVars
<1>. QED
  BY <1>8, <1>9, <1>10, <1>11, <1>12, <1>13, StepCases

(* A write at the end of a file leaves what the file holds where it is.    *)
LEMMA WriteAtTheEnd ==
    ASSUME TypeInv, AtTheEnd, Writes
    PROVE  /\ DOMAIN files' = DOMAIN files /\ UNCHANGED <<path, open>>
           /\ \A n \in DOMAIN files : n # path => files'[n] = files[n]
           /\ IsRec(path) =>
                /\ pos' = Len(files'[path].live)
                /\ IsPrefixOf(files[path].live, files'[path].live)
<1>1. PICK recs \in Seq(Packet) : FsWrite(recs)
  BY DEF Writes
<1>. DEFINE old == files[path].live
            new == Overwrite(old, pos, recs)
            f   == [files[path] EXCEPT !.live = new]
<1>2. /\ open /\ path \in DOMAIN files /\ old \in Seq(Packet) /\ Len(old) \in Nat
      /\ pos \in Nat /\ pos <= Len(old) /\ files[path] \in File
  BY FileFields DEF Writes, TypeInv, TypeOK, CardTypeOK, FileOK
<1>3. /\ new \in Seq(Packet) /\ Len(new) \in Nat
      /\ \A i \in 1 .. pos : new[i] = old[i]
  BY <1>2, OverwriteType
<1>4. ASSUME pos = Len(old) PROVE Len(new) = pos + Len(recs)
  <2>1. Len(recs) \in Nat
    OBVIOUS
  <2>2. (IF pos + Len(recs) > Len(old) THEN pos + Len(recs) ELSE Len(old)) = pos + Len(recs)
    BY <1>2, <1>4, <2>1
  <2>3. new = [i \in 1 .. pos + Len(recs) |->
                  IF pos < i /\ i <= pos + Len(recs) THEN recs[i - pos] ELSE old[i]]
    BY <2>2 DEF Overwrite
  <2>4. pos + Len(recs) \in Nat
    BY <1>2, <2>1
  <2>5. DOMAIN new = 1 .. pos + Len(recs)
    BY <2>3
  <2>6. DOMAIN new = 1 .. Len(new)
    BY <1>3
  <2>. HIDE DEF new
  <2>. QED
    BY <1>3, <2>4, <2>5, <2>6
<1>5. files' = [files EXCEPT ![path] = f] /\ pos' = pos + Len(recs) /\ UNCHANGED <<path, open>>
  BY <1>1 DEF FsWrite
<1>6. f.live = new
  BY <1>2 DEF File
<1>7. /\ DOMAIN files' = DOMAIN files /\ files'[path] = f
      /\ \A n \in DOMAIN files : n # path => files'[n] = files[n]
  BY <1>2, <1>5
<1>. HIDE DEF f, new
<1>8. ASSUME IsRec(path)
      PROVE  pos' = Len(files'[path].live) /\ IsPrefixOf(old, files'[path].live)
  <2>1. pos = Len(old) /\ files'[path].live = new
    BY <1>2, <1>6, <1>7, <1>8 DEF AtTheEnd
  <2>2. Len(new) = pos + Len(recs) /\ Len(recs) \in Nat
    BY <1>4, <2>1
  <2>3. SubSeq(new, 1, Len(old)) = old
    <3>1. Len(old) <= Len(new)
      BY <1>2, <2>1, <2>2
    <3>2. /\ SubSeq(new, 1, Len(old)) \in Seq(Packet)
          /\ Len(SubSeq(new, 1, Len(old))) = Len(old)
          /\ \A i \in 1 .. Len(old) : SubSeq(new, 1, Len(old))[i] = new[i]
      BY <1>2, <1>3, <3>1
    <3>. QED
      BY <1>2, <1>3, <2>1, <3>2, SeqEqual
  <2>. QED
    <3>1. Len(old) <= Len(new)
      BY <1>2, <2>1, <2>2
    <3>2. IsPrefixOf(old, new)
      BY <2>3, <3>1 DEF IsPrefixOf
    <3>3. pos' = Len(new)
      BY <1>5, <2>2
    <3>. QED
      BY <2>1, <3>2, <3>3
<1>. QED
  BY <1>5, <1>7, <1>8

LEMMA AtTheEndInductive ==
    ASSUME TypeInv, AtTheEnd, [Next]_vars
    PROVE  AtTheEnd'
<1>0. open => path \in DOMAIN files
  BY DEF TypeInv, TypeOK, CardTypeOK
<1>1. CASE Leaves
  BY <1>0, <1>1 DEF Leaves, SameFiles, AtTheEnd
<1>2. CASE Writes
  BY <1>2, WriteAtTheEnd DEF Writes, AtTheEnd
<1>3. CASE Names
  BY <1>3 DEF Names, SameFiles, AtTheEnd
<1>4. CASE Opens
  <2>1. pc' # "open" /\ path' = path /\ pos' = 0
    BY <1>4 DEF Opens, FsOpen
  <2>2. ASSUME IsRec(path) PROVE Len(files'[path].live) = 0
    <3>1. path \notin DOMAIN files
      BY <1>4, <2>2 DEF AtTheEnd, Opens
    <3>2. files'[path] = Empty
      BY <1>4, <3>1 DEF Opens, FsOpen
    <3>. QED
      BY <3>2 DEF Empty
  <2>. QED
    BY <2>1, <2>2 DEF AtTheEnd
<1>5. CASE Reboots
  BY <1>5 DEF Reboots, AtTheEnd
<1>. QED
  BY <1>1, <1>2, <1>3, <1>4, <1>5, FileSteps

(* What is in a rec_NNNN file stays there as long as the card has power.   *)
THEOREM SpecRecFilesAppendOnly == Spec => RecFilesAppendOnly
<1>. DEFINE Step == pc' # "boot" =>
                      \A i \in 1 .. MaxRec : RecName(i) \in DOMAIN files =>
                        /\ RecName(i) \in DOMAIN files'
                        /\ IsPrefixOf(files[RecName(i)].live, files'[RecName(i)].live)
<1>1. Init => AtTheEnd
  BY DEF Init, CardInit, AtTheEnd
<1>2. TypeInv /\ AtTheEnd /\ [Next]_vars => AtTheEnd'
  BY AtTheEndInductive
<1>3. TypeInv /\ AtTheEnd /\ [Next]_vars => [Step]_vars
  <2>. SUFFICES ASSUME TypeInv, AtTheEnd, [Next]_vars, pc' # "boot",
                       NEW i \in 1 .. MaxRec, RecName(i) \in DOMAIN files
                PROVE  /\ RecName(i) \in DOMAIN files'
                       /\ IsPrefixOf(files[RecName(i)].live, files'[RecName(i)].live)
    OBVIOUS
  <2>. DEFINE n == RecName(i)
  <2>0. IsRec(n) /\ files[n].live \in Seq(Packet)
    BY FileFields DEF IsRec, TypeInv, TypeOK, CardTypeOK
  <2>. HIDE DEF n
  <2>1. IsPrefixOf(files[n].live, files[n].live)
    <3>1. SubSeq(files[n].live, 1, Len(files[n].live)) = files[n].live
      BY <2>0, SubSeqFull
    <3>. QED
      BY <2>0, <3>1 DEF IsPrefixOf
  <2>2. n \in DOMAIN files
    BY DEF n
  <2>3. CASE Leaves \/ Names
    BY <2>1, <2>2, <2>3 DEF Leaves, Names, SameFiles, n
  <2>4. CASE Writes
    BY <2>0, <2>1, <2>2, <2>4, WriteAtTheEnd DEF n
  <2>5. CASE Opens
    BY <2>1, <2>2, <2>5 DEF Opens, FsOpen, n
  <2>6. CASE Reboots
    BY <2>6 DEF Reboots
  <2>. QED
    BY <2>3, <2>4, <2>5, <2>6, FileSteps
<1>. QED
  BY <1>1, <1>2, <1>3, SpecTypeInv, PTL DEF Spec, RecFilesAppendOnly
-----------------------------------------------------------------------------
(***************************************************************************)
(* A crash costs at most one checkpoint interval.  What lastCheckpoint     *)
(* counts is on the card as the thread wrote it, and written runs ahead of *)
(* it by less than an interval, or by one while a checkpoint is being made. *)
(***************************************************************************)
LEMMA RemainderOf ==
    ASSUME NEW n \in Nat \ {0}, NEW x \in Nat
    PROVE  x % n = 0 <=> \E q \in Nat : x = n * q
<1>1. /\ x \div n \in Int /\ x % n \in 0 .. n - 1
      /\ x = n * (x \div n) + (x % n)
  OBVIOUS
<1>2. ASSUME x % n = 0 PROVE \E q \in Nat : x = n * q
  <2>1. x = n * (x \div n)
    BY <1>1, <1>2
  <2>2. x \div n \in Nat
    BY <1>1
  <2>. QED
    BY <2>1, <2>2
<1>3. ASSUME NEW q \in Nat, x = n * q PROVE x % n = 0
  <2>. DEFINE d == x \div n
              r == x % n
  <2>1. d \in Int /\ r \in 0 .. n - 1 /\ x = n * d + r
    BY <1>1
  <2>. HIDE DEF d, r
  <2>2. n * (q - d) = r
    BY <1>3, <2>1
  <2>3. q - d \in Int /\ -n < n * (q - d) /\ n * (q - d) < n
    BY <2>1, <2>2
  <2>4. \A m \in Int : -n < n * m /\ n * m < n => m = 0
    OBVIOUS
  <2>5. q - d = 0
    BY <2>3, <2>4
  <2>6. r = 0
    BY <2>1, <2>2, <2>5
  <2>. QED
    BY <2>6 DEF r
<1>. QED
  BY <1>2, <1>3

IsMultiple(x) == \E q \in Nat : x = CheckpointInterval * q

OnDisk(n) ==
    /\ n <= pos /\ n <= Len(files[path].disk)
    /\ n > 0 => files[path].entry
    /\ \A i \in 1 .. n : files[path].disk[i] = files[path].live[i]

Checkpointing == pc \in {"checkpoint", "sync"}

CheckpointInv ==
    Recording /\ clean =>
       /\ pos + Len(buf) = written
       /\ OnDisk(lastCheckpoint) /\ IsMultiple(lastCheckpoint)
       /\ lastCheckpoint <= written /\ written <= lastCheckpoint + CheckpointInterval
       /\ ~Checkpointing => written < lastCheckpoint + CheckpointInterval
       /\ Checkpointing => IsMultiple(written)
       /\ pc = "sync" => buf = <<>>

(* What a write leaves of the file alone.                                  *)
LEMMA WriteKeeps ==
    ASSUME TypeInv, open, NEW recs \in Seq(Packet), FsWrite(recs)
    PROVE  /\ path' = path /\ pos' = pos + Len(recs)
           /\ \A n \in Nat : OnDisk(n) => OnDisk(n)'
<1>. DEFINE old == files[path].live
            new == Overwrite(old, pos, recs)
<1>1. /\ pos \in Nat /\ old \in Seq(Packet) /\ pos <= Len(old) /\ Len(recs) \in Nat
      /\ path \in DOMAIN files /\ files[path] \in File
  BY StoredParts DEF TypeInv, TypeOK, CardTypeOK, FileOK
<1>2. \A i \in 1 .. pos : new[i] = old[i]
  BY <1>1, OverwriteType
<1>3. pos' = pos + Len(recs) /\ path' = path
  BY DEF FsWrite
<1>4. /\ files'[path'].live = new /\ files'[path'].disk = files[path].disk
      /\ files'[path'].entry = files[path].entry
  <2>1. files' = [files EXCEPT ![path] = [files[path] EXCEPT !.live = new]]
    BY DEF FsWrite
  <2>. HIDE DEF new, old
  <2>. QED
    BY <1>1, <1>3, <2>1 DEF File
<1>. HIDE DEF new
<1>5. ASSUME NEW n \in Nat, OnDisk(n) PROVE OnDisk(n)'
  <2>1. n <= pos' /\ \A i \in 1 .. n : i \in 1 .. pos
    BY <1>1, <1>3, <1>5 DEF OnDisk
  <2>. QED
    BY <1>2, <1>4, <1>5, <2>1 DEF OnDisk
<1>. QED
  BY <1>3, <1>5

(* The steps by what they do to the counters, in a recording that is still *)
(* clean.                                                                  *)
Idles  == /\ UNCHANGED <<files, path, pos, buf, written, lastCheckpoint, clean>>
          /\ pc' = pc \/ (~Checkpointing /\ ~Checkpointing')
Flushs == /\ FsWrite(buf) /\ buf' = <<>> /\ UNCHANGED <<written, lastCheckpoint, clean>>
          /\ \/ ~Checkpointing /\ ~Checkpointing'
             \/ pc = "checkpoint" /\ pc' = "sync"
Counts == /\ hand # <<>> /\ written' = written + 1 /\ UNCHANGED <<lastCheckpoint, clean>>
          /\ ~Checkpointing /\ pc' = (IF CheckpointDue THEN "checkpoint" ELSE "get")
          /\ \/ buf' = buf \o hand /\ UNCHANGED <<files, path, pos>>
             \/ FsWrite(buf) /\ buf' = hand
Syncs  == /\ pc = "sync" /\ pc' = "get" /\ FsSync /\ lastCheckpoint' = written
          /\ UNCHANGED <<buf, written, clean>>

LEMMA CheckpointSteps ==
    ASSUME TypeInv, HandEmpty, [Next]_vars, Recording', clean', ~ResetFileState
    PROVE  /\ Recording /\ open
           /\ Idles \/ Flushs \/ Counts \/ Syncs
<1>. USE DEF At, Goto
<1>0. Recording /\ open /\ clean' # FALSE
  BY StillRecording DEF Recording
<1>1. CASE UNCHANGED <<cardVars, buf, written, lastCheckpoint, clean>>
           /\ ~Checkpointing /\ ~Checkpointing'
  BY <1>0, <1>1 DEF Idles, cardVars
<1>2. CASE UNCHANGED <<cardVars, threadVars, clean>>
  BY <1>0, <1>2 DEF Idles, Checkpointing, cardVars, threadVars
<1>3. CASE RecorderThread
  <2>1. CASE \/ GetPacket \/ GetTimeout \/ TakePause \/ Deactivate \/ TakeResume \/ Mount
             \/ BeginEpochPath \/ Activate \/ DiscardPacket
    BY <1>1, <2>1 DEF GetPacket, GetTimeout, TakePause, Deactivate, TakeResume, Mount,
       BeginEpochPath, Activate, DiscardPacket, Checkpointing, ghostVars
  <2>2. CASE PauseFlush \/ CheckpointFlush
    BY <1>0, <2>2 DEF PauseFlush, CheckpointFlush, WriteBuffer, WriteFails, Flushs, Checkpointing
  <2>3. CASE IdleFlush
    <3>1. active
      BY <1>0, <2>3 DEF IdleFlush, TypeInv, ControlInv
    <3>. QED
      BY <1>0, <2>3, <3>1 DEF IdleFlush, WriteBuffer, WriteFails, Flushs, Checkpointing
  <2>4. CASE AppendPacket
    <3>1. /\ hand # <<>> /\ UNCHANGED lastCheckpoint /\ ~Checkpointing
      BY <2>4 DEF AppendPacket, Checkpointing
    <3>2. /\ UNCHANGED clean /\ written' = written + 1
          /\ pc' = IF CheckpointDue THEN "checkpoint" ELSE "get"
          /\ \/ buf' = buf \o hand /\ UNCHANGED <<files, path, pos>>
             \/ FsWrite(buf) /\ buf' = hand
      BY <1>0, <2>4 DEF AppendPacket, Appended, WriteFails, cardVars
    <3>. QED
      BY <1>0, <3>1, <3>2 DEF Counts
  <2>5. CASE CheckpointSync
    BY <1>0, <2>5 DEF CheckpointSync, Syncs
  <2>6. CASE PauseClose
    BY <2>6 DEF PauseClose, FsClose, Recording
  <2>7. CASE FinishEpochPath \/ ScanRecPath \/ OpenFile
    BY <1>0, <2>7 DEF FinishEpochPath, ScanRecPath, OpenFile, TypeInv, ControlInv, Idle
  <2>. QED
    BY <1>3, <2>1, <2>2, <2>3, <2>4, <2>5, <2>6, <2>7 DEF RecorderThread
<1>4. ASSUME NEW oversize \in BOOLEAN, Submit(oversize)
      PROVE  UNCHANGED <<cardVars, threadVars, clean>>
  BY <1>4 DEF Submit
<1>5. CASE RequestStep
  BY <1>2, <1>5 DEF RequestStep, BlePause, BleResume, BleSleep, SetSyncTime, BtnBegin, BtnFinish,
     ghostVars
<1>6. CASE Tick \/ PowerOff \/ UNCHANGED vars
  BY <1>2, <1>6 DEF Tick, PowerOff, vars, ghostVars
<1>7. CASE Crash \/ WakeUp
  BY <1>7 DEF Crash, WakeUp, Reboot, PowerLoss, Recording
<1>. QED
  BY <1>0, <1>2, <1>3, <1>4, <1>5, <1>6, <1>7, StepCases

LEMMA CheckpointStep ==
    ASSUME TypeInv, IsolationInv, HandEmpty, CheckpointInv, [Next]_vars
    PROVE  CheckpointInv'
<1>. SUFFICES ASSUME Recording', clean' PROVE
       /\ pos' + Len(buf') = written'
       /\ OnDisk(lastCheckpoint)' /\ IsMultiple(lastCheckpoint')
       /\ lastCheckpoint' <= written' /\ written' <= lastCheckpoint' + CheckpointInterval
       /\ ~Checkpointing' => written' < lastCheckpoint' + CheckpointInterval
       /\ Checkpointing' => IsMultiple(written')
       /\ pc' = "sync" => buf' = <<>>
  BY DEF CheckpointInv, IsMultiple
<1>0. /\ CheckpointInterval \in Nat \ {0} /\ written \in Nat /\ lastCheckpoint \in Nat
      /\ buf \in Seq(Packet) /\ Len(buf) \in Nat /\ pos \in Nat
  BY RecorderAssumption, StoredParts DEF TypeInv, TypeOK, CountTypeOK
<1>1. CASE ResetFileState
  <2>1. /\ pos' = 0 /\ buf' = <<>> /\ written' = 0 /\ lastCheckpoint' = 0 /\ pc' = "activate"
        /\ UNCHANGED <<files, path>> /\ open
    BY <1>1 DEF ResetFileState, IsolationInv, TypeInv, ControlInv, At, Goto, cardVars
  <2>2. IsMultiple(0)
    <3>1. 0 = CheckpointInterval * 0 /\ 0 \in Nat
      BY <1>0
    <3>. QED
      BY <3>1 DEF IsMultiple
  <2>3. OnDisk(0)'
    <3>1. Len(files[path].disk) \in Nat
      BY <2>1, FileFields DEF TypeInv, TypeOK, CardTypeOK
    <3>2. 0 <= Len(files[path].disk)
      BY <3>1
    <3>. QED
      BY <2>1, <3>2 DEF OnDisk
  <2>4. ~Checkpointing' /\ Len(buf') = 0 /\ pc' # "sync"
    BY <2>1, EmptySeq DEF Checkpointing
  <2>. QED
    BY <1>0, <2>1, <2>2, <2>3, <2>4
<1>2. CASE ~ResetFileState
  <2>0. /\ Recording /\ open
        /\ Idles \/ Flushs \/ Counts \/ Syncs
    BY <1>2, CheckpointSteps
  <2>1. clean
    BY <2>0 DEF Idles, Flushs, Counts, Syncs
  <2>2. /\ pos + Len(buf) = written
        /\ OnDisk(lastCheckpoint) /\ IsMultiple(lastCheckpoint)
        /\ lastCheckpoint <= written /\ written <= lastCheckpoint + CheckpointInterval
        /\ ~Checkpointing => written < lastCheckpoint + CheckpointInterval
        /\ Checkpointing => IsMultiple(written)
        /\ pc = "sync" => buf = <<>>
    BY <2>0, <2>1 DEF CheckpointInv
  <2>3. CASE Idles
    <3>1. OnDisk(lastCheckpoint)'
      BY <2>2, <2>3 DEF Idles, OnDisk
    <3>2. /\ ~Checkpointing' => ~Checkpointing
          /\ Checkpointing' => Checkpointing
          /\ pc' = "sync" => pc = "sync"
      BY <2>3 DEF Idles, Checkpointing
    <3>. QED
      BY <2>2, <2>3, <3>1, <3>2 DEF Idles
  <2>4. CASE Flushs
    <3>1. /\ pos' = pos + Len(buf) /\ Len(buf') = 0 /\ OnDisk(lastCheckpoint)'
      BY <1>0, <2>0, <2>2, <2>4, WriteKeeps, EmptySeq DEF Flushs, OnDisk
    <3>2. /\ ~Checkpointing' => ~Checkpointing
          /\ Checkpointing' => Checkpointing
      BY <2>4 DEF Flushs, Checkpointing
    <3>. QED
      BY <1>0, <2>2, <2>4, <3>1, <3>2 DEF Flushs
  <2>5. CASE Counts
    <3>1. pos' + Len(buf') = written + 1 /\ OnDisk(lastCheckpoint)'
      <4>1. hand = <<hand[1]>> /\ Len(hand) = 1 /\ hand[1] \in Packet /\ hand \in Seq(Packet)
        BY <2>5, HandOf, StoredParts DEF Counts
      <4>2. CASE buf' = buf \o hand /\ UNCHANGED <<files, path, pos>>
        <5>1. Len(buf') = Len(buf) + 1
          BY <1>0, <4>1, <4>2, ConcatProperties
        <5>2. OnDisk(lastCheckpoint)'
          BY <2>2, <2>5, <4>2 DEF Counts, OnDisk
        <5>. QED
          <6>1. pos' = pos
            BY <4>2
          <6>. QED
            BY <1>0, <2>2, <5>1, <5>2, <6>1
      <4>3. CASE FsWrite(buf) /\ buf' = hand
        <5>1. pos' = pos + Len(buf) /\ \A n \in Nat : OnDisk(n) => OnDisk(n)'
          BY <1>0, <2>0, <4>3, WriteKeeps
        <5>2. OnDisk(lastCheckpoint)'
          BY <1>0, <2>2, <2>5, <5>1 DEF Counts, OnDisk
        <5>. QED
          BY <1>0, <2>2, <4>1, <4>3, <5>1, <5>2
      <4>. QED
        BY <2>5, <4>2, <4>3 DEF Counts
    <3>2. /\ written' = written + 1 /\ lastCheckpoint' = lastCheckpoint
          /\ written < lastCheckpoint + CheckpointInterval /\ pc' # "sync"
          /\ Checkpointing' <=> CheckpointDue
      BY <2>2, <2>5 DEF Counts, Checkpointing
    <3>3. CASE CheckpointDue
      <4>0. CheckpointInterval \in Nat \ {0} /\ written + 1 \in Nat
        BY <1>0
      <4>1. (written + 1) % CheckpointInterval = 0
        BY <3>3 DEF CheckpointDue
      <4>2. IsMultiple(written + 1)
        <5>1. \E q \in Nat : written + 1 = CheckpointInterval * q
          BY <4>0, <4>1, RemainderOf
        <5>. QED
          BY <5>1 DEF IsMultiple
      <4>. QED
        BY <1>0, <2>2, <3>1, <3>2, <3>3, <4>2
    <3>4. CASE ~CheckpointDue
      <4>0. CheckpointInterval \in Nat \ {0} /\ written + 1 \in Nat
        BY <1>0
      <4>1. lastCheckpoint # written + 1
        BY <1>0, <2>2
      <4>2. (written + 1) % CheckpointInterval # 0
        BY <3>4, <4>1 DEF CheckpointDue
      <4>3. ~IsMultiple(written + 1)
        <5>1. ~ \E q \in Nat : written + 1 = CheckpointInterval * q
          BY <4>0, <4>2, RemainderOf
        <5>. QED
          BY <5>1 DEF IsMultiple
      <4>4. written + 1 # lastCheckpoint + CheckpointInterval
        <5>1. PICK q \in Nat : lastCheckpoint = CheckpointInterval * q
          BY <2>2 DEF IsMultiple
        <5>2. lastCheckpoint + CheckpointInterval = CheckpointInterval * (q + 1) /\ q + 1 \in Nat
          BY <1>0, <5>1
        <5>. QED
          BY <4>3, <5>2 DEF IsMultiple
      <4>. QED
        BY <1>0, <2>2, <3>1, <3>2, <3>4, <4>4
    <3>. QED
      BY <3>3, <3>4
  <2>6. CASE Syncs
    <3>1. /\ UNCHANGED <<path, pos, buf, written>> /\ lastCheckpoint' = written
          /\ pos = written /\ IsMultiple(written) /\ ~Checkpointing' /\ pc' # "sync"
      <4>1. buf = <<>> /\ Checkpointing
        BY <2>2, <2>6 DEF Syncs, Checkpointing
      <4>2. Len(buf) = 0
        BY <4>1, EmptySeq
      <4>. QED
        BY <1>0, <2>2, <2>6, <4>1, <4>2 DEF Syncs, FsSync, Checkpointing
    <3>2. OnDisk(written)'
      <4>1. path \in DOMAIN files /\ CardTypeOK /\ pos <= Len(files[path].live)
        BY <2>0 DEF TypeInv, TypeOK, CardTypeOK
      <4>2. files'[path] = Committed(files[path])
        BY <2>6, <4>1, CommitType DEF Syncs, FsSync
      <4>. QED
        BY <1>0, <3>1, <4>1, <4>2 DEF OnDisk, Committed
    <3>3. OnDisk(lastCheckpoint)'
      BY <3>1, <3>2 DEF OnDisk
    <3>. QED
      BY <1>0, <2>2, <3>1, <3>3
  <2>. QED
    BY <2>0, <2>3, <2>4, <2>5, <2>6
<1>. QED
  BY <1>1, <1>2

(* What a power loss leaves of the records on disk.                        *)
LEMMA DiskSurvives ==
    ASSUME TypeInv, open, PowerLoss, NEW n \in Nat \ {0}, OnDisk(n)
    PROVE  /\ path \in DOMAIN files'
           /\ \A i \in 1 .. n :
                 i <= Len(files'[path].live) /\ files'[path].live[i] = files[path].live[i]
<1>1. PICK lost \in SUBSET {f \in DOMAIN files : ~files[f].entry}, k \in 0 .. pos :
         files' = [f \in DOMAIN files \ lost |->
                     LET s == IF f = path THEN Mix(files[f], k) ELSE files[f].disk
                     IN  [live |-> s, disk |-> s, entry |-> TRUE]]
  BY DEF PowerLoss
<1>2. path \in DOMAIN files \ lost
  BY <1>1 DEF OnDisk, TypeInv, TypeOK, CardTypeOK
<1>3. path \in DOMAIN files' /\ files'[path].live = Mix(files[path], k)
  BY <1>1, <1>2
<1>4. /\ Len(files[path].disk) \in Nat /\ n <= Len(files[path].disk)
      /\ \A i \in 1 .. n : files[path].disk[i] = files[path].live[i]
  BY <1>2, FileFields DEF OnDisk, TypeInv, TypeOK, CardTypeOK
<1>5. Len(Mix(files[path], k)) = Len(files[path].disk)
  BY <1>4 DEF Mix
<1>6. \A i \in 1 .. n : Mix(files[path], k)[i] = files[path].live[i]
  BY <1>4 DEF Mix
<1>. QED
  BY <1>3, <1>4, <1>5, <1>6

(* A crash costs a recording at most one checkpoint interval of stored     *)
(* packets.                                                                *)
THEOREM SpecCrashLosesAtMostOneInterval == Spec => CrashLosesAtMostOneInterval
<1>. DEFINE Step == crashes' # crashes /\ Recording /\ clean /\ written > CheckpointInterval =>
                      /\ path \in DOMAIN files'
                      /\ \A i \in 1 .. written - CheckpointInterval :
                           /\ i <= Len(files'[path].live)
                           /\ files'[path].live[i] = Stored[i]
<1>1. Init => CheckpointInv
  BY DEF Init, CardInit, CheckpointInv, Recording
<1>2. TypeInv /\ IsolationInv /\ HandEmpty /\ CheckpointInv /\ [Next]_vars => CheckpointInv'
  BY CheckpointStep
<1>3. TypeInv /\ CheckpointInv /\ [Next]_vars => [Step]_vars
  <2>. SUFFICES ASSUME TypeInv, CheckpointInv, [Next]_vars, crashes' # crashes, Recording, clean,
                       written > CheckpointInterval
                PROVE  /\ path \in DOMAIN files'
                       /\ \A i \in 1 .. written - CheckpointInterval :
                            /\ i <= Len(files'[path].live)
                            /\ files'[path].live[i] = Stored[i]
    OBVIOUS
  <2>0. /\ CheckpointInterval \in Nat \ {0} /\ written \in Nat /\ lastCheckpoint \in Nat /\ pos \in Nat
    BY RecorderAssumption, StoredParts DEF TypeInv, TypeOK, CountTypeOK
  <2>1. Crash
    <3>1. CASE RecorderThread
      BY <3>1 DEF RecorderThread, GetPacket, GetTimeout, TakePause, PauseFlush, PauseClose,
         Deactivate, TakeResume, Mount, BeginEpochPath, FinishEpochPath, ScanRecPath, OpenFile,
         ResetFileState, Activate, IdleFlush, DiscardPacket, AppendPacket, CheckpointFlush,
         CheckpointSync, boundVars
    <3>2. ASSUME NEW oversize \in BOOLEAN, Submit(oversize) PROVE crashes' = crashes
      BY <3>2 DEF Submit, boundVars
    <3>3. CASE RequestStep
      BY <3>3 DEF RequestStep, BlePause, BleResume, BleSleep, SetSyncTime, BtnBegin, BtnFinish,
         boundVars
    <3>4. CASE Tick \/ PowerOff \/ WakeUp \/ UNCHANGED vars
      BY <3>4 DEF Tick, PowerOff, WakeUp, vars, boundVars
    <3>. QED
      BY <3>1, <3>2, <3>3, <3>4, StepCases
  <2>2. open /\ PowerLoss
    BY <2>1 DEF Crash, Reboot, Recording
  <2>3. /\ OnDisk(lastCheckpoint) /\ written <= lastCheckpoint + CheckpointInterval
    BY DEF CheckpointInv
  <2>4. lastCheckpoint \in Nat \ {0} /\ lastCheckpoint <= pos
    BY <2>0, <2>3 DEF OnDisk
  <2>5. /\ path \in DOMAIN files'
        /\ \A i \in 1 .. lastCheckpoint :
              i <= Len(files'[path].live) /\ files'[path].live[i] = files[path].live[i]
    BY <2>2, <2>3, <2>4, DiskSurvives
  <2>6. \A i \in 1 .. written - CheckpointInterval : i \in 1 .. lastCheckpoint /\ i \in 1 .. pos
    BY <2>0, <2>3, <2>4
  <2>7. \A i \in 1 .. pos : Stored[i] = files[path].live[i]
    <3>1. /\ \A i \in 1 .. pos : Fetched[i] = files[path].live[i]
          /\ Len(buf) \in Nat
          /\ \A i \in 1 .. pos + Len(buf) :
                Stored[i] = IF i <= pos THEN Fetched[i] ELSE buf[i - pos]
      BY <2>2, StoredIs
    <3>2. \A i \in 1 .. pos : i \in 1 .. pos + Len(buf) /\ i <= pos
      BY <2>0, <3>1
    <3>. QED
      BY <3>1, <3>2
  <2>. QED
    BY <2>5, <2>6, <2>7
<1>. QED
  BY <1>1, <1>2, <1>3, SpecIsolationInv, SpecLossInv, PTL DEF Spec, CrashLosesAtMostOneInterval

-----------------------------------------------------------------------------
(***************************************************************************)
(* Deep sleep.  The recorder thread never breaks SleepInv: a step outside  *)
(* the turn's pause leaves the request pending, and a thread at rest stays *)
(* there, because no resume is left to take.                               *)
(***************************************************************************)
LEMMA ThreadKeeps ==
    ASSUME RecorderThread
    PROVE  /\ UNCHANGED <<btn, power, overridden>> /\ power # "off" /\ btn = "idle"
           /\ resumePending' => resumePending
<1>1. UNCHANGED <<btn, power, overridden>>
  BY DEF RecorderThread, GetPacket, GetTimeout, TakePause, PauseFlush, PauseClose, Deactivate,
     TakeResume, Mount, BeginEpochPath, FinishEpochPath, ScanRecPath, OpenFile, ResetFileState,
     Activate, IdleFlush, DiscardPacket, AppendPacket, CheckpointFlush, CheckpointSync, powerVars
<1>2. power # "off" /\ btn = "idle"
  BY DEF At, RecorderThread, GetPacket, GetTimeout, TakePause, PauseFlush, PauseClose, Deactivate,
     TakeResume, Mount, BeginEpochPath, FinishEpochPath, ScanRecPath, OpenFile, ResetFileState,
     Activate, IdleFlush, DiscardPacket, AppendPacket, CheckpointFlush, CheckpointSync
<1>3. resumePending' => resumePending
  <2>1. CASE TakeResume
    BY <2>1 DEF TakeResume
  <2>2. CASE ~TakeResume
    BY <2>2 DEF RecorderThread, GetPacket, GetTimeout, TakePause, PauseFlush, PauseClose,
       Deactivate, Mount, BeginEpochPath, FinishEpochPath, ScanRecPath, OpenFile, ResetFileState,
       Activate, IdleFlush, DiscardPacket, AppendPacket, CheckpointFlush, CheckpointSync, flagVars
  <2>. QED
    BY <2>1, <2>2
<1>. QED
  BY <1>1, <1>2, <1>3

(* A step of the thread outside the pause leaves a pending request alone.  *)
LEMMA ThreadSleeps ==
    ASSUME TypeInv, ControlInv', SleepInv, RecorderThread, ~overridden
    PROVE  SleepInv'
<1>. USE DEF At, Goto, TypeInv, TypeOK, ControlInv, Idle, Writing, PauseUnderWay, AtRest, PauseSteps
<1>1. /\ UNCHANGED <<btn, power, overridden>> /\ power # "off" /\ btn = "idle"
      /\ resumePending' => resumePending
  BY ThreadKeeps
<1>2. NoResumeLeft /\ NoResumeLeft' /\ (power # "on" => ~resumePending)
  BY <1>1 DEF SleepInv, NoResumeLeft, Sleeping
<1>3. PauseUnderWay /\ turns \in Nat
  BY DEF SleepInv, CountTypeOK
<1>4. ASSUME PauseUnderWay' PROVE SleepInv'
  BY <1>1, <1>2, <1>4 DEF SleepInv
<1>5. CASE Mount \/ BeginEpochPath \/ FinishEpochPath \/ ScanRecPath \/ OpenFile \/ ResetFileState
           \/ Activate \/ CheckpointFlush \/ CheckpointSync
  <2>1. /\ pc \in {"boot", "begin", "epoch", "open", "reset", "activate", "checkpoint", "sync"}
        /\ UNCHANGED <<pausePending, turns>>
    BY <1>5 DEF Mount, BeginEpochPath, FinishEpochPath, ScanRecPath, OpenFile, ResetFileState,
       Activate, CheckpointFlush, CheckpointSync, flagVars, powerVars
  <2>2. PauseUnderWay'
    BY <1>1, <1>3, <2>1
  <2>. QED
    BY <1>4, <2>2
<1>6. CASE GetPacket \/ GetTimeout
  <2>1. /\ pc = "get" /\ pc' = "pause" /\ UNCHANGED <<pausePending, active>>
        /\ turns = 0 /\ power \in {"btn", "ble"} => turns' = 1
    BY <1>6, RecorderAssumption DEF GetPacket, GetTimeout, CountTurn, flagVars
  <2>2. PauseUnderWay'
    BY <1>1, <1>3, <2>1
  <2>. QED
    BY <1>4, <2>2
<1>7. CASE TakePause
  <2>1. /\ pc = "pause" /\ pc' = (IF pausePending /\ active THEN "flush" ELSE "resume")
        /\ UNCHANGED <<turns, active>>
    BY <1>7 DEF TakePause, powerVars
  <2>2. PauseUnderWay'
    BY <1>1, <1>3, <2>1
  <2>. QED
    BY <1>4, <2>2
<1>8. CASE PauseFlush \/ PauseClose
  <2>1. /\ pc \in {"flush", "close"} /\ pc' \in {"close", "deactivate"}
        /\ UNCHANGED <<pausePending, turns>>
    BY <1>8 DEF PauseFlush, PauseClose, flagVars, powerVars
  <2>2. PauseUnderWay'
    BY <1>1, <1>3, <2>1
  <2>. QED
    BY <1>4, <2>2
<1>9. CASE Deactivate
  <2>1. pc' = "resume" /\ ~active'
    BY <1>9 DEF Deactivate
  <2>2. PauseUnderWay'
    BY <2>1
  <2>. QED
    BY <1>4, <2>2
<1>10. CASE TakeResume
  <2>1. /\ pc = "resume" /\ (~resumePending => pc' = "work")
        /\ UNCHANGED <<pausePending, turns, active>>
    BY <1>10 DEF TakeResume, powerVars
  <2>2. PauseUnderWay'
    BY <1>1, <1>2, <1>3, <2>1
  <2>. QED
    BY <1>4, <2>2
<1>11. CASE IdleFlush \/ DiscardPacket \/ AppendPacket
  <2>1. /\ pc = "work" /\ (pc' = "get" \/ active) /\ UNCHANGED <<pausePending, turns, active>>
    BY <1>11 DEF IdleFlush, DiscardPacket, AppendPacket, flagVars, powerVars
  <2>2. PauseUnderWay'
    BY <1>1, <1>3, <2>1
  <2>. QED
    BY <1>4, <2>2
<1>. QED
  BY <1>5, <1>6, <1>7, <1>8, <1>9, <1>10, <1>11 DEF RecorderThread

(* The requests.  A deep-sleep request clears the resume flag and sets the *)
(* pause flag, at once or when the button thread is resumed; from then on  *)
(* every request that undoes it sets overridden.                           *)
LEMMA RequestSleeps ==
    ASSUME TypeInv, ControlInv', SleepInv, RequestStep, ~overridden'
    PROVE  SleepInv'
<1>. USE DEF TypeInv, TypeOK, FlagTypeOK, PauseUnderWay, NoResumeLeft, AtRest, PauseSteps, Sleeping
<1>0. power \in {"on", "btn", "ble", "off"} /\ ControlInv
  OBVIOUS
<1>1. power # "off" /\ UNCHANGED <<pc, active, open>>
  BY DEF RequestStep, BlePause, BleResume, BleSleep, SetSyncTime, BtnBegin, BtnFinish, Request,
     threadVars, cardVars
<1>2. CASE BlePause
  BY <1>1, <1>2 DEF BlePause, SleepInv, powerVars
<1>3. CASE BleResume
  BY <1>1, <1>3 DEF BleResume, SleepInv
<1>4. CASE BleSleep
  BY <1>0, <1>1, <1>4 DEF BleSleep, SleepInv
<1>5. ASSUME NEW skew \in Skews, SetSyncTime(skew) PROVE SleepInv'
  BY <1>1, <1>5 DEF SetSyncTime, SleepInv, powerVars, flagVars
<1>6. ASSUME NEW request \in {"pause", "resume", "sleep"}, BtnBegin(request) PROVE SleepInv'
  BY <1>1, <1>6 DEF BtnBegin, SleepInv
<1>7. CASE BtnFinish
  BY <1>1, <1>7 DEF BtnFinish, SleepInv
<1>. QED
  BY <1>2, <1>3, <1>4, <1>5, <1>6, <1>7 DEF RequestStep

LEMMA SleepInvInductive == TypeInv /\ SleepInv /\ [Next]_vars => SleepInv'
<1>. SUFFICES ASSUME TypeInv, SleepInv, [Next]_vars, ~overridden'
              PROVE  SleepInv'
  BY DEF SleepInv
<1>0. ControlInv'
  BY ControlInvInductive
<1>1. CASE RecorderThread
  <2>1. UNCHANGED overridden
    BY <1>1, ThreadKeeps
  <2>. QED
    BY <1>0, <1>1, <2>1, ThreadSleeps
<1>2. CASE RequestStep
  BY <1>0, <1>2, RequestSleeps
<1>3. CASE PowerOff
  <2>1. /\ UNCHANGED <<pc, open, overridden, resumePending, btn>> /\ power' = "off"
        /\ power \in {"btn", "ble"} /\ (turns = SleepTurns \/ pc \in {"none", "boot"})
    BY <1>3 DEF PowerOff, threadVars, cardVars, flagVars
  <2>2. ~open
    <3>1. CASE pc \in {"none", "boot"}
      BY <3>1 DEF TypeInv, ControlInv, Idle
    <3>2. CASE turns = SleepTurns
      <4>1. turns >= 2 /\ turns \in Nat
        BY <3>2, RecorderAssumption
      <4>2. AtRest \/ (pc \in PauseSteps /\ turns <= 1) \/ turns = 0 \/ turns = 1
        BY <2>1 DEF SleepInv, PauseUnderWay
      <4>. QED
        BY <4>1, <4>2 DEF AtRest
    <3>. QED
      BY <2>1, <3>1, <3>2
  <2>. QED
    BY <2>1, <2>2 DEF SleepInv, NoResumeLeft, PauseUnderWay, Sleeping
<1>4. CASE Crash \/ WakeUp
  BY <1>4 DEF Crash, WakeUp, Reboot, SleepInv, NoResumeLeft, PauseUnderWay, Sleeping
<1>5. CASE (\E oversize \in BOOLEAN : Submit(oversize)) \/ Tick \/ UNCHANGED vars
  <2>1. UNCHANGED <<pc, open, pausePending, resumePending, btn, power, turns, overridden>>
    BY <1>5 DEF Submit, Tick, vars, threadVars, cardVars, flagVars, powerVars
  <2>. QED
    BY <2>1 DEF SleepInv, NoResumeLeft, PauseUnderWay, Sleeping, AtRest, PauseSteps
<1>. QED
  BY <1>1, <1>2, <1>3, <1>4, <1>5, StepCases

(***************************************************************************)
(* The last recording: the steps that touch a file, a name, the handle or  *)
(* the books about them.                                                   *)
(***************************************************************************)
LEMMA HomeSteps ==
    ASSUME [Next]_vars
    PROVE  \/ PauseFlush \/ IdleFlush \/ CheckpointFlush \/ AppendPacket
           \/ PauseClose \/ OpenFile \/ ResetFileState \/ CheckpointSync
           \/ FinishEpochPath \/ ScanRecPath \/ Crash \/ WakeUp
           \/ UNCHANGED <<files, path, open, home, clean>> /\ (pc = "reset" <=> pc' = "reset")
<1>1. CASE RecorderThread
  BY <1>1 DEF At, Goto, RecorderThread, GetPacket, GetTimeout, TakePause, Deactivate, TakeResume,
     Mount, BeginEpochPath, Activate, DiscardPacket, cardVars, ghostVars
<1>2. ASSUME NEW oversize \in BOOLEAN, Submit(oversize)
      PROVE  UNCHANGED <<files, path, open, home, clean, pc>>
  BY <1>2 DEF Submit, cardVars, threadVars
<1>3. CASE RequestStep
  BY <1>3 DEF RequestStep, BlePause, BleResume, BleSleep, SetSyncTime, BtnBegin, BtnFinish,
     cardVars, threadVars, ghostVars
<1>4. CASE Tick \/ PowerOff \/ UNCHANGED vars
  BY <1>4 DEF Tick, PowerOff, vars, cardVars, threadVars, ghostVars
<1>. QED
  BY <1>1, <1>2, <1>3, <1>4, StepCases

LEMMA HomeInvInductive == TypeInv /\ HomeInv /\ [Next]_vars => HomeInv'
<1>. SUFFICES ASSUME TypeInv, HomeInv, [Next]_vars PROVE HomeInv'
  OBVIOUS
<1>. USE DEF At, Goto
<1>0. CardTypeOK /\ ControlInv
  BY DEF TypeInv, TypeOK
<1>1. ASSUME Recording, open' = open, pc' # "reset", UNCHANGED <<path, home>> PROVE HomeInv'
  BY <1>1 DEF HomeInv, Recording
<1>2. ASSUME ~Recording, ~open', UNCHANGED <<files, home, clean>> PROVE HomeInv'
  BY <1>2 DEF HomeInv, Recording
<1>3. CASE PauseFlush \/ CheckpointFlush
  <2>1. Recording
    BY <1>0, <1>3 DEF PauseFlush, CheckpointFlush, Recording, ControlInv, Writing
  <2>2. pc' # "reset" /\ UNCHANGED <<path, open, home>>
    BY <1>3 DEF PauseFlush, CheckpointFlush, WriteBuffer, WriteFails, FsWrite
  <2>. QED
    BY <1>1, <2>1, <2>2
<1>4. CASE IdleFlush \/ AppendPacket
  <2>0. pc = "work" /\ pc' # "reset" /\ UNCHANGED <<path, open, home>>
    BY <1>4 DEF IdleFlush, AppendPacket, Appended, WriteBuffer, WriteFails, FsWrite, cardVars
  <2>1. CASE active
    BY <1>0, <1>1, <2>0, <2>1 DEF Recording, ControlInv
  <2>2. CASE ~active
    <3>1. ~open /\ UNCHANGED <<files, clean>>
      BY <1>0, <1>4, <2>0, <2>2 DEF IdleFlush, AppendPacket, ControlInv, cardVars
    <3>. QED
      BY <1>2, <2>0, <3>1 DEF Recording
  <2>. QED
    BY <2>1, <2>2
<1>5. CASE PauseClose
  <2>1. Recording /\ home = path /\ path \in DOMAIN files
    BY <1>0, <1>5 DEF PauseClose, Recording, ControlInv, Writing, HomeInv, CardTypeOK
  <2>2. ~open' /\ home' = home
    BY <1>5 DEF PauseClose, FsClose
  <2>3. ASSUME clean' PROVE files' = [files EXCEPT ![path] = Committed(@)]
    BY <1>5, <2>3 DEF PauseClose, FsClose
  <2>4. ASSUME clean' PROVE files'[path].live = files'[path].disk
    <3>1. files'[path] = Committed(files[path])
      BY <2>1, <2>3, <2>4
    <3>. QED
      BY <3>1 DEF Committed
  <2>. QED
    BY <2>1, <2>2, <2>4 DEF HomeInv, Recording
<1>6. CASE OpenFile
  <2>1. ~Recording /\ UNCHANGED <<home, clean>>
    BY <1>0, <1>6 DEF OpenFile, Recording, ControlInv, Idle, ghostVars
  <2>2. CASE FsOpen /\ pc' = "reset"
    <3>1. \A n \in DOMAIN files' : files'[n] = IF n \in DOMAIN files THEN files[n] ELSE Empty
      BY <2>2 DEF FsOpen
    <3>2. Empty.live = Empty.disk
      BY DEF Empty
    <3>. QED
      BY <2>1, <2>2, <3>1, <3>2 DEF HomeInv, Recording
  <2>3. CASE UNCHANGED cardVars /\ pc' = "work"
    <3>1. ~open'
      BY <1>0, <1>6, <2>3 DEF OpenFile, cardVars, ControlInv, Idle
    <3>. QED
      BY <1>2, <2>1, <2>3, <3>1 DEF cardVars
  <2>. QED
    BY <1>6, <2>2, <2>3 DEF OpenFile
<1>7. CASE ResetFileState
  <2>1. open' /\ pc' = "activate" /\ home' = path'
    BY <1>0, <1>7 DEF ResetFileState, ControlInv, cardVars
  <2>. QED
    BY <2>1 DEF HomeInv, Recording
<1>8. CASE CheckpointSync
  <2>1. Recording /\ pc' # "reset" /\ UNCHANGED <<path, open, home>>
    BY <1>0, <1>8 DEF CheckpointSync, FsSync, cardVars, Recording, ControlInv, Writing
  <2>. QED
    BY <1>1, <2>1
<1>9. CASE FinishEpochPath \/ ScanRecPath
  <2>1. ~Recording /\ ~open' /\ UNCHANGED <<files, home, clean>>
    BY <1>0, <1>9 DEF FinishEpochPath, ScanRecPath, Recording, ControlInv, Idle, ghostVars
  <2>. QED
    BY <1>2, <2>1
<1>10. CASE Crash \/ WakeUp
  <2>1. PowerLoss
    BY <1>10 DEF Crash, WakeUp, Reboot
  <2>2. ~open' /\ \A n \in DOMAIN files' : files'[n].live = files'[n].disk
    BY <2>1 DEF PowerLoss
  <2>. QED
    BY <2>2 DEF HomeInv, Recording
<1>11. CASE UNCHANGED <<files, path, open, home, clean>> /\ (pc = "reset" <=> pc' = "reset")
  BY <1>11 DEF HomeInv, Recording
<1>. QED
  BY <1>3, <1>4, <1>5, <1>6, <1>7, <1>8, <1>9, <1>10, <1>11, HomeSteps

(* Deep sleep cuts the power with the last recording closed, and on the    *)
(* card unless an fs call on it failed, when nobody asked to resume since. *)
THEOREM SpecDeepSleepCommits == Spec => []DeepSleepCommits
<1>1. Init => SleepInv
  BY DEF Init, SleepInv, NoResumeLeft, PauseUnderWay, Sleeping
<1>2. Init => HomeInv
  BY DEF Init, CardInit, HomeInv, Recording
<1>3. SleepInv /\ HomeInv => DeepSleepCommits
  BY DEF SleepInv, HomeInv, Recording, DeepSleepCommits
<1>. QED
  BY <1>1, <1>2, <1>3, SpecTypeInv, SleepInvInductive, HomeInvInductive, PTL DEF Spec
=============================================================================
