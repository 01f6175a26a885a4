--------------------------- MODULE RecorderProofs ---------------------------
(***************************************************************************)
(* Proofs about Recorder, for every queue depth, buffer size, checkpoint   *)
(* interval and bound: types, the discipline of the file handle, and that  *)
(* the recorder never mixes recordings.  LogProofs has what becomes of the *)
(* packets of one recording.                                               *)
(***************************************************************************)
EXTENDS Recorder, SequenceTheorems, TLAPS

(***************************************************************************)
(* What Overwrite returns: the first p records are kept, recs follow.      *)
(***************************************************************************)
LEMMA OverwriteType ==
    ASSUME NEW s \in Seq(Packet), NEW p \in Nat, p <= Len(s), NEW recs \in Seq(Packet)
    PROVE  /\ Overwrite(s, p, recs) \in Seq(Packet)
           /\ Len(Overwrite(s, p, recs)) >= p + Len(recs)
           /\ Len(Overwrite(s, p, recs)) >= Len(s)
           /\ \A i \in 1 .. p : Overwrite(s, p, recs)[i] = s[i]
           /\ \A i \in 1 .. Len(recs) : Overwrite(s, p, recs)[p + i] = recs[i]
<1> DEFINE n == IF p + Len(recs) > Len(s) THEN p + Len(recs) ELSE Len(s)
           e(i) == IF p < i /\ i <= p + Len(recs) THEN recs[i - p] ELSE s[i]
<1>1. n \in Nat /\ n >= p + Len(recs) /\ n >= Len(s)
  OBVIOUS
<1>2. \A i \in 1 .. n : e(i) \in Packet
  BY ElementOfSeq
<1>3. Overwrite(s, p, recs) = [i \in 1 .. n |-> e(i)]
  BY DEF Overwrite
<1>4. Overwrite(s, p, recs) \in [1 .. n -> Packet]
  BY <1>2, <1>3
<1>5. Overwrite(s, p, recs) \in Seq(Packet) /\ Len(Overwrite(s, p, recs)) = n
  BY <1>1, <1>4
<1>. QED
  BY <1>1, <1>3, <1>5

(***************************************************************************)
(* Each fs call keeps the card well-typed.                                 *)
(***************************************************************************)
LEMMA FileFields ==
    ASSUME NEW f, FileOK(f)
    PROVE  /\ f.live \in Seq(Packet) /\ f.disk \in Seq(Packet)
           /\ Len(f.live) \in Nat /\ Len(f.disk) \in Nat
BY DEF FileOK, File

(* Replacing the file of one name.                                         *)
LEMMA UpdateFile ==
    ASSUME CardTypeOK, path \in DOMAIN files, NEW f, FileOK(f),
           files' = [files EXCEPT ![path] = f]
    PROVE  /\ DOMAIN files' = DOMAIN files
           /\ \A n \in DOMAIN files : FileOK(files'[n])
           /\ files'[path] = f
           /\ \A n \in DOMAIN files \ {path} : files'[n] = files[n]
<1>1. DOMAIN files' = DOMAIN files /\ files'[path] = f
  OBVIOUS
<1>2. \A n \in DOMAIN files \ {path} : files'[n] = files[n]
  OBVIOUS
<1>. QED
  BY <1>1, <1>2 DEF CardTypeOK

LEMMA WriteType ==
    ASSUME CardTypeOK, open, NEW recs \in Seq(Packet), FsWrite(recs)
    PROVE  CardTypeOK' /\ UNCHANGED <<open, path>>
<1> DEFINE old == files[path].live
           new == Overwrite(old, pos, recs)
           f   == [files[path] EXCEPT !.live = new]
<1>1. /\ path \in DOMAIN files /\ FileOK(files[path])
      /\ old \in Seq(Packet) /\ pos \in Nat /\ pos <= Len(old)
  BY FileFields DEF CardTypeOK
<1>2. /\ new \in Seq(Packet) /\ Len(new) \in Nat
      /\ Len(new) >= pos + Len(recs) /\ Len(new) >= Len(old)
  BY <1>1, OverwriteType
<1>3. files' = [files EXCEPT ![path] = f] /\ pos' = pos + Len(recs) /\ UNCHANGED <<open, path>>
  BY DEF FsWrite
<1>4. FileOK(f) /\ f.live = new
  <2>. HIDE DEF new
  <2>1. f = [live |-> new, disk |-> files[path].disk, entry |-> files[path].entry]
    BY <1>1 DEF FileOK, File
  <2>2. files[path].disk \in Seq(Packet) /\ Len(files[path].disk) <= Len(old)
        /\ Len(files[path].disk) \in Nat /\ files[path].entry \in BOOLEAN /\ Len(old) \in Nat
    BY <1>1 DEF FileOK, File
  <2>3. FileOK([live |-> new, disk |-> files[path].disk, entry |-> files[path].entry])
    BY <1>2, <2>2 DEF FileOK, File
  <2>. QED
    BY <2>1, <2>3
<1>5. /\ DOMAIN files' = DOMAIN files /\ files'[path] = f
      /\ \A n \in DOMAIN files : FileOK(files'[n])
  BY <1>1, <1>3, <1>4, UpdateFile
<1>6. Len(recs) \in Nat
  OBVIOUS
<1>. HIDE DEF f, new, old
<1>. QED
  BY <1>1, <1>2, <1>3, <1>4, <1>5, <1>6 DEF CardTypeOK

LEMMA CommitType ==
    ASSUME CardTypeOK, path \in DOMAIN files,
           files' = [files EXCEPT ![path] = Committed(@)]
    PROVE  /\ DOMAIN files' = DOMAIN files
           /\ \A n \in DOMAIN files : FileOK(files'[n])
           /\ files'[path] = Committed(files[path])
           /\ \A n \in DOMAIN files : files'[n].live = files[n].live
<1>1. FileOK(files[path])
  BY DEF CardTypeOK
<1>2. FileOK(Committed(files[path])) /\ Committed(files[path]).live = files[path].live
  BY <1>1, FileFields DEF Committed, File, FileOK
<1>3. /\ DOMAIN files' = DOMAIN files
      /\ \A n \in DOMAIN files : FileOK(files'[n])
      /\ files'[path] = Committed(files[path])
      /\ \A n \in DOMAIN files \ {path} : files'[n] = files[n]
  BY <1>2, UpdateFile
<1>. QED
  BY <1>2, <1>3

LEMMA OpenType ==
    ASSUME CardTypeOK, path \in Name, FsOpen
    PROVE  CardTypeOK'
<1>1. FileOK(Empty)
  BY EmptySeq DEF Empty, File, FileOK
<1>2. /\ DOMAIN files' = DOMAIN files \cup {path}
      /\ \A n \in DOMAIN files' : FileOK(files'[n])
  BY <1>1 DEF CardTypeOK, FsOpen
<1>3. pos' = 0 /\ open' = TRUE /\ path' = path /\ path' \in DOMAIN files'
  BY <1>2 DEF FsOpen
<1>4. Len(files'[path'].live) \in Nat
  BY <1>2, <1>3, FileFields
<1>5. DOMAIN files' \subseteq Name
  BY <1>2 DEF CardTypeOK
<1>. QED
  BY <1>2, <1>3, <1>4, <1>5 DEF CardTypeOK

LEMMA PowerLossType ==
    ASSUME CardTypeOK, PowerLoss
    PROVE  CardTypeOK'
<1>1. PICK lost \in SUBSET {n \in DOMAIN files : ~files[n].entry}, k \in 0 .. pos :
         files' = [n \in DOMAIN files \ lost |->
                     LET s == IF n = path THEN Mix(files[n], k) ELSE files[n].disk
                     IN  [live |-> s, disk |-> s, entry |-> TRUE]]
  BY DEF PowerLoss
<1>2. ASSUME NEW n \in DOMAIN files PROVE Mix(files[n], k) \in Seq(Packet)
  <2>1. /\ files[n].live \in Seq(Packet) /\ files[n].disk \in Seq(Packet)
        /\ Len(files[n].disk) \in Nat
        /\ Len(files[n].disk) <= Len(files[n].live)
    BY FileFields DEF CardTypeOK, FileOK
  <2>2. \A i \in 1 .. Len(files[n].disk) : files[n].live[i] \in Packet /\ files[n].disk[i] \in Packet
    BY <2>1, ElementOfSeq
  <2>. QED
    BY <2>1, <2>2 DEF Mix
<1>3. ASSUME NEW n \in DOMAIN files \ lost PROVE FileOK(files'[n])
  <2> DEFINE s == IF n = path THEN Mix(files[n], k) ELSE files[n].disk
  <2>1. s \in Seq(Packet)
    BY <1>2, FileFields DEF CardTypeOK
  <2>2. files'[n] = [live |-> s, disk |-> s, entry |-> TRUE]
    BY <1>1
  <2>. HIDE DEF s
  <2>. QED
    BY <2>1, <2>2 DEF FileOK, File
<1>4. DOMAIN files' = DOMAIN files \ lost
  BY <1>1
<1>. QED
  BY <1>3, <1>4 DEF PowerLoss, CardTypeOK, FileOK
-----------------------------------------------------------------------------
(***************************************************************************)
(* Type correctness, and with it the agreement of pc, recording_active and *)
(* the open handle: neither is inductive without the other, because a      *)
(* write is well-typed only through an open handle.                        *)
(***************************************************************************)
TypeInv == TypeOK /\ ControlInv

LEMMA InitTypeInv == Init => TypeInv
<1>. SUFFICES ASSUME Init PROVE TypeInv
  OBVIOUS
<1>1. CardTypeOK
  BY DEF Init, CardInit, CardTypeOK
<1>2. ThreadTypeOK
  BY RecorderAssumption, EmptySeq DEF Init, ThreadTypeOK, PC
<1>3. FlagTypeOK
  BY DEF Init, FlagTypeOK
<1>4. CountTypeOK
  BY DEF Init, CountTypeOK
<1>5. ControlInv
  BY DEF Init, CardInit, ControlInv, Idle, Writing
<1>. QED
  BY <1>1, <1>2, <1>3, <1>4, <1>5 DEF TypeInv, TypeOK

LEMMA CardUnchanged == CardTypeOK /\ UNCHANGED cardVars => CardTypeOK'
BY DEF CardTypeOK, cardVars

(* What is left of the buffer after it was written out.                    *)
LEMMA BufferType ==
    ASSUME TypeInv, NEW b, b \in {buf, <<>>}
    PROVE  b \in Seq(Packet) /\ Len(b) \in Nat /\ Len(b) <= BufferRecords
<1>1. BufferRecords \in Nat
  BY RecorderAssumption
<1>2. CASE b = buf
  BY <1>1, <1>2 DEF TypeInv, TypeOK, ThreadTypeOK
<1>3. CASE b = <<>>
  BY <1>1, <1>3, EmptySeq
<1>. QED
  BY <1>2, <1>3

(* Writing the buffer out, whether or not it succeeds.                     *)
LEMMA BufferWritten ==
    ASSUME TypeInv, open, WriteBuffer \/ WriteFails
    PROVE  CardTypeOK' /\ UNCHANGED <<open, path>> /\ buf' \in {buf, <<>>}
<1>1. CASE WriteBuffer
  BY <1>1, WriteType DEF WriteBuffer, TypeInv, TypeOK, ThreadTypeOK
<1>2. CASE WriteFails
  <2>1. PICK k \in 0 .. Len(buf) - 1, piece \in {<<>>, <<Fragment(session)>>} :
            FsWrite(SubSeq(buf, 1, k) \o piece)
    BY <1>2 DEF WriteFails
  <2>2. SubSeq(buf, 1, k) \in Seq(Packet)
    BY <2>1, SubSeqProperties DEF TypeInv, TypeOK, ThreadTypeOK
  <2>3. Fragment(session) \in Packet
    BY DEF TypeInv, TypeOK, CountTypeOK, Fragment, Packet
  <2>4. piece \in Seq(Packet)
    <3>1. CASE piece = <<>>
      BY <3>1, EmptySeq
    <3>2. CASE piece = <<Fragment(session)>>
      BY <2>3, <3>2
    <3>. QED
      BY <2>1, <3>1, <3>2
  <2>5. SubSeq(buf, 1, k) \o piece \in Seq(Packet)
    BY <2>2, <2>4, ConcatProperties
  <2>. QED
    BY <1>2, <2>1, <2>5, WriteType DEF WriteFails, TypeInv, TypeOK
<1>. QED
  BY <1>1, <1>2

(* The steps of the recorder thread, and the others, by who takes them.    *)
RequestStep ==
    \/ BlePause \/ BleResume \/ BleSleep
    \/ \E skew \in Skews : SetSyncTime(skew)
    \/ \E request \in {"pause", "resume", "sleep"} : BtnBegin(request)
    \/ BtnFinish

LEMMA StepCases ==
    ASSUME Next
    PROVE  RecorderThread \/ (\E oversize \in BOOLEAN : Submit(oversize))
              \/ RequestStep \/ Tick \/ PowerOff \/ Crash \/ WakeUp
BY DEF Next, RequestStep, ToggleRecording, LongPress

LEMMA FlagsTypeInv == TypeInv /\ [Next]_vars => FlagTypeOK'
<1>. SUFFICES ASSUME TypeInv, [Next]_vars PROVE FlagTypeOK'
  OBVIOUS
<1>. USE DEF TypeInv, TypeOK, FlagTypeOK
<1>1. CASE RecorderThread
  <2>. USE DEF flagVars, syncVars, powerVars, ghostVars
  <2>1. CASE GetPacket
    BY <2>1 DEF GetPacket
  <2>2. CASE GetTimeout
    BY <2>2 DEF GetTimeout
  <2>3. CASE TakePause
    BY <2>3 DEF TakePause
  <2>4. CASE Deactivate
    BY <2>4 DEF Deactivate
  <2>5. CASE TakeResume
    BY <2>5 DEF TakeResume
  <2>6. CASE Activate
    BY <2>6 DEF Activate
  <2>7. CASE Mount
    BY <2>7 DEF Mount
  <2>8. CASE BeginEpochPath
    BY <2>8 DEF BeginEpochPath
  <2>9. CASE FinishEpochPath
    BY <2>9 DEF FinishEpochPath
  <2>10. CASE ScanRecPath
    BY <2>10 DEF ScanRecPath
  <2>11. CASE OpenFile
    BY <2>11 DEF OpenFile
  <2>12. CASE ResetFileState
    BY <2>12 DEF ResetFileState
  <2>13. CASE DiscardPacket
    BY <2>13 DEF DiscardPacket
  <2>14. CASE PauseFlush
    BY ZenonT(40), <2>14 DEF PauseFlush, WriteBuffer, WriteFails
  <2>15. CASE IdleFlush
    BY ZenonT(40), <2>15 DEF IdleFlush, WriteBuffer, WriteFails
  <2>16. CASE CheckpointFlush
    BY ZenonT(40), <2>16 DEF CheckpointFlush, WriteBuffer, WriteFails
  <2>17. CASE PauseClose
    BY ZenonT(40), <2>17 DEF PauseClose
  <2>18. CASE CheckpointSync
    BY ZenonT(40), <2>18 DEF CheckpointSync
  <2>19. CASE AppendPacket
    BY <2>19 DEF AppendPacket, WriteFails
  <2>. QED
    BY <1>1, <2>1, <2>2, <2>3, <2>4, <2>5, <2>6, <2>7, <2>8, <2>9, <2>10, <2>11, <2>12, <2>13, <2>14, <2>15, <2>16, <2>17, <2>18, <2>19 DEF RecorderThread
<1>2. CASE \E oversize \in BOOLEAN : Submit(oversize)
  BY <1>2 DEF Submit, flagVars, syncVars, powerVars, ghostVars
<1>3. CASE BlePause \/ BleResume \/ BleSleep
  BY ZenonT(40), <1>3 DEF BlePause, BleResume, BleSleep, flagVars, syncVars, powerVars, ghostVars
<1>4. CASE \E skew \in Skews : SetSyncTime(skew)
  BY <1>4 DEF SetSyncTime, flagVars, syncVars, powerVars, ghostVars
<1>5. ASSUME NEW request \in {"pause", "resume", "sleep"}, BtnBegin(request)
      PROVE  FlagTypeOK'
  <2>1. overridden' \in BOOLEAN
    BY <1>5 DEF BtnBegin
  <2>. QED
    BY <1>5, <2>1 DEF BtnBegin, syncVars, ghostVars
<1>6. CASE BtnFinish
  BY <1>6 DEF BtnFinish, syncVars, ghostVars
<1>9. CASE Tick \/ PowerOff
  BY <1>9 DEF Tick, PowerOff, flagVars, syncVars, powerVars, ghostVars
<1>7. CASE Crash \/ WakeUp
  BY <1>7 DEF Crash, WakeUp, Reboot, ghostVars
<1>8. CASE UNCHANGED vars
  BY <1>8 DEF vars, flagVars, syncVars, powerVars, ghostVars
<1>. QED
  BY <1>1, <1>2, <1>3, <1>4, <1>5, <1>6, <1>7, <1>8, <1>9, StepCases DEF RequestStep

LEMMA CountsTypeInv == TypeInv /\ [Next]_vars => CountTypeOK'
<1>. SUFFICES ASSUME TypeInv, [Next]_vars PROVE CountTypeOK'
  OBVIOUS
<1>. USE RecorderAssumption DEF TypeInv, TypeOK, CountTypeOK, Fault, NoFault
<1>1. CASE RecorderThread
  <2>1. CASE GetPacket
    <3>1. turns' \in Nat
      BY <2>1 DEF GetPacket, CountTurn
    <3>. QED
      BY <2>1, <3>1 DEF GetPacket, syncVars, boundVars, ghostVars
  <2>2. CASE GetTimeout
    <3>1. turns' \in Nat
      BY <2>2 DEF GetTimeout, CountTurn
    <3>. QED
      BY <2>2, <3>1 DEF GetTimeout, syncVars, boundVars, ghostVars
  <2>3. CASE TakePause
    BY <2>3 DEF TakePause, syncVars, powerVars, boundVars, ghostVars
  <2>4. CASE PauseFlush
    BY <2>4 DEF PauseFlush, WriteBuffer, WriteFails, syncVars, powerVars, boundVars, ghostVars
  <2>5. CASE PauseClose
    <3>1. faults' \in Nat
      BY <2>5 DEF PauseClose, FsClose
    <3>. QED
      BY <2>5, <3>1 DEF PauseClose, syncVars, powerVars
  <2>6. CASE Deactivate
    BY <2>6 DEF Deactivate, syncVars, powerVars, boundVars, ghostVars
  <2>7. CASE TakeResume
    BY <2>7 DEF TakeResume, syncVars, powerVars, boundVars, ghostVars
  <2>8. CASE Mount
    BY <2>8 DEF Mount, syncVars, powerVars, boundVars, ghostVars
  <2>9. CASE BeginEpochPath
    BY <2>9 DEF BeginEpochPath, syncVars, powerVars, boundVars, ghostVars
  <2>10. CASE FinishEpochPath
    BY <2>10 DEF FinishEpochPath, syncVars, powerVars, boundVars, ghostVars
  <2>11. CASE ScanRecPath
    BY <2>11 DEF ScanRecPath, syncVars, powerVars, boundVars, ghostVars
  <2>12. CASE OpenFile
    BY <2>12 DEF OpenFile, syncVars, powerVars, boundVars, ghostVars
  <2>13. CASE ResetFileState
    BY <2>13 DEF ResetFileState, CardTypeOK, syncVars, powerVars, boundVars, ghostVars
  <2>14. CASE Activate
    BY <2>14 DEF Activate, syncVars, powerVars, boundVars, ghostVars
  <2>15. CASE IdleFlush
    BY SMTT(30), <2>15 DEF IdleFlush, WriteBuffer, WriteFails, syncVars, powerVars, boundVars, ghostVars
  <2>16. CASE DiscardPacket
    BY <2>16 DEF DiscardPacket, syncVars, powerVars, boundVars, ghostVars
  <2>17. CASE AppendPacket
    <3>1. written' \in {written, written + 1}
      BY <2>17 DEF AppendPacket, Appended
    <3>2. faults' \in {faults, faults + 1}
      BY <2>17 DEF AppendPacket, WriteFails
    <3>3. UNCHANGED <<lastCheckpoint, delta, dropped, syncEpoch, syncTime, turns, now, requests,
                      crashes, nextId, firstId, session, home>>
      BY <2>17 DEF AppendPacket, powerVars
    <3>. HIDE DEF Fault, NoFault
    <3>. QED
      BY <3>1, <3>2, <3>3
  <2>18. CASE CheckpointFlush
    BY <2>18 DEF CheckpointFlush, WriteBuffer, WriteFails, syncVars, powerVars, boundVars, ghostVars
  <2>19. CASE CheckpointSync
    BY <2>19 DEF CheckpointSync, syncVars, powerVars, boundVars, ghostVars
  <2>. QED
    BY <1>1, <2>1, <2>2, <2>3, <2>4, <2>5, <2>6, <2>7, <2>8, <2>9, <2>10, <2>11, <2>12, <2>13, <2>14, <2>15, <2>16, <2>17, <2>18, <2>19 DEF RecorderThread
<1>2. ASSUME NEW oversize \in BOOLEAN, Submit(oversize) PROVE CountTypeOK'
  <2>1. dropped' \in Nat /\ nextId' \in Nat
    BY SMTT(30), <1>2 DEF Submit
  <2>. QED
    BY <1>2, <2>1 DEF Submit, threadVars, syncVars, powerVars, boundVars
<1>3. CASE BlePause
  BY <1>3 DEF BlePause, Request, threadVars, syncVars, powerVars, boundVars, ghostVars
<1>4. CASE BleResume
  BY <1>4 DEF BleResume, Request, threadVars, syncVars, powerVars, boundVars, ghostVars
<1>5. CASE BleSleep
  BY <1>5 DEF BleSleep, Request, threadVars, syncVars, powerVars, boundVars, ghostVars
<1>6. ASSUME NEW skew \in Skews, SetSyncTime(skew) PROVE CountTypeOK'
  BY <1>6 DEF SetSyncTime, Request, threadVars, syncVars, powerVars, boundVars, ghostVars
<1>7. ASSUME NEW request \in {"pause", "resume", "sleep"}, BtnBegin(request) PROVE CountTypeOK'
  BY <1>7 DEF BtnBegin, Request, threadVars, syncVars, powerVars, boundVars, ghostVars
<1>8. CASE BtnFinish
  BY <1>8 DEF BtnFinish, threadVars, syncVars, powerVars, boundVars, ghostVars
<1>9. CASE Tick
  BY <1>9 DEF Tick, threadVars, syncVars, powerVars, boundVars, ghostVars
<1>10. CASE PowerOff
  BY <1>10 DEF PowerOff, threadVars, syncVars, powerVars, boundVars, ghostVars
<1>11. CASE Crash
  BY <1>11 DEF Crash, Reboot, threadVars, syncVars, powerVars, boundVars, ghostVars
<1>12. CASE WakeUp
  BY <1>12 DEF WakeUp, Reboot, threadVars, syncVars, powerVars, boundVars, ghostVars
<1>13. CASE UNCHANGED vars
  BY <1>13 DEF vars, threadVars, syncVars, powerVars, boundVars, ghostVars
<1>. QED
  BY <1>1, <1>2, <1>3, <1>4, <1>5, <1>6, <1>7, <1>8, <1>9, <1>10, <1>11, <1>12, <1>13, StepCases DEF RequestStep

LEMMA ThreadTypeInv == TypeInv /\ [Next]_vars => ThreadTypeOK'
<1>. SUFFICES ASSUME TypeInv, [Next]_vars PROVE ThreadTypeOK'
  OBVIOUS
<1>. USE RecorderAssumption, EmptySeq DEF TypeInv, TypeOK, ThreadTypeOK, PC, Goto
<1>1. CASE RecorderThread
  <2>1. CASE GetPacket
    BY <2>1 DEF GetPacket
  <2>2. CASE GetTimeout
    BY <2>2 DEF GetTimeout
  <2>3. CASE TakePause
    BY <2>3 DEF TakePause
  <2>4. CASE PauseFlush
    <3>1. buf' \in {buf, <<>>}
      BY <2>4 DEF PauseFlush, WriteBuffer, WriteFails
    <3>2. buf' \in Seq(Packet) /\ Len(buf') <= BufferRecords
      BY <3>1, BufferType
    <3>. QED
      BY <2>4, <3>2 DEF PauseFlush
  <2>5. CASE PauseClose
    BY <2>5 DEF PauseClose
  <2>6. CASE Deactivate
    BY <2>6 DEF Deactivate
  <2>7. CASE TakeResume
    BY <2>7 DEF TakeResume
  <2>8. CASE Mount
    BY <2>8 DEF Mount
  <2>9. CASE BeginEpochPath
    BY <2>9 DEF BeginEpochPath
  <2>10. CASE FinishEpochPath
    BY <2>10 DEF FinishEpochPath
  <2>11. CASE ScanRecPath
    BY <2>11 DEF ScanRecPath
  <2>12. CASE OpenFile
    BY <2>12 DEF OpenFile
  <2>13. CASE ResetFileState
    BY <2>13 DEF ResetFileState, PurgeQueue
  <2>14. CASE Activate
    BY <2>14 DEF Activate
  <2>15. CASE IdleFlush
    <3>1. buf' \in {buf, <<>>}
      BY <2>15 DEF IdleFlush, WriteBuffer, WriteFails
    <3>2. buf' \in Seq(Packet) /\ Len(buf') <= BufferRecords
      BY <3>1, BufferType
    <3>. QED
      BY <2>15, <3>2 DEF IdleFlush
  <2>16. CASE DiscardPacket
    BY <2>16 DEF DiscardPacket
  <2>17. CASE AppendPacket
    <3>1. buf \o hand \in Seq(Packet) /\ Len(buf \o hand) = Len(buf) + Len(hand)
      BY ConcatProperties
    <3>2. buf' \in {buf, hand, buf \o hand}
      BY <2>17 DEF AppendPacket, WriteFails
    <3>3. Len(buf') <= BufferRecords
      BY SMTT(30), <2>17, <3>1 DEF AppendPacket, WriteFails
    <3>4. pc' \in PC
      BY <2>17 DEF AppendPacket, Appended
    <3>5. buf' \in Seq(Packet)
      BY <3>1, <3>2
    <3>6. hand' = <<>> /\ UNCHANGED queue
      BY <2>17 DEF AppendPacket
    <3>. QED
      BY <3>3, <3>4, <3>5, <3>6
  <2>18. CASE CheckpointFlush
    <3>1. buf' \in {buf, <<>>}
      BY <2>18 DEF CheckpointFlush, WriteBuffer, WriteFails
    <3>2. buf' \in Seq(Packet) /\ Len(buf') <= BufferRecords
      BY <3>1, BufferType
    <3>. QED
      BY <2>18, <3>2 DEF CheckpointFlush
  <2>19. CASE CheckpointSync
    BY <2>19 DEF CheckpointSync
  <2>. QED
    BY <1>1, <2>1, <2>2, <2>3, <2>4, <2>5, <2>6, <2>7, <2>8, <2>9, <2>10, <2>11, <2>12, <2>13, <2>14, <2>15, <2>16, <2>17, <2>18, <2>19 DEF RecorderThread
<1>2. ASSUME NEW oversize \in BOOLEAN, Submit(oversize) PROVE ThreadTypeOK'
  <2>1. CASE UNCHANGED queue
    BY <1>2, <2>1 DEF Submit, threadVars
  <2>2. CASE queue' = Append(queue, [id |-> nextId, session |-> session]) /\ ~QueueFull
    <3>1. [id |-> nextId, session |-> session] \in Packet
      BY DEF CountTypeOK, Packet
    <3>2. queue' \in Seq(Packet) /\ Len(queue') = Len(queue) + 1
      BY <2>2, <3>1, AppendProperties
    <3>. QED
      BY <1>2, <2>2, <3>2 DEF Submit, QueueFull, threadVars
  <2>. QED
    BY <1>2, <2>1, <2>2 DEF Submit
<1>3. CASE BlePause
  BY <1>3 DEF BlePause, threadVars
<1>4. CASE BleResume
  BY <1>4 DEF BleResume, threadVars
<1>5. CASE BleSleep
  BY <1>5 DEF BleSleep, threadVars
<1>6. ASSUME NEW skew \in Skews, SetSyncTime(skew) PROVE ThreadTypeOK'
  BY <1>6 DEF SetSyncTime, threadVars
<1>7. ASSUME NEW request \in {"pause", "resume", "sleep"}, BtnBegin(request) PROVE ThreadTypeOK'
  BY <1>7 DEF BtnBegin, threadVars
<1>8. CASE BtnFinish
  BY <1>8 DEF BtnFinish, threadVars
<1>9. CASE Tick
  BY <1>9 DEF Tick, threadVars
<1>10. CASE PowerOff
  BY <1>10 DEF PowerOff, threadVars
<1>11. CASE Crash
  BY <1>11 DEF Crash, Reboot, threadVars
<1>12. CASE WakeUp
  BY <1>12 DEF WakeUp, Reboot, threadVars
<1>13. CASE UNCHANGED vars
  BY <1>13 DEF vars, threadVars
<1>. QED
  BY <1>1, <1>2, <1>3, <1>4, <1>5, <1>6, <1>7, <1>8, <1>9, <1>10, <1>11, <1>12, <1>13, StepCases DEF RequestStep

LEMMA ControlInvInductive == TypeInv /\ [Next]_vars => ControlInv'
<1>. SUFFICES ASSUME TypeInv, [Next]_vars PROVE ControlInv'
  OBVIOUS
<1>. USE DEF TypeInv, TypeOK, ControlInv, Idle, Writing, At, Goto
<1>1. CASE RecorderThread
  <2>1. CASE GetPacket
    BY <2>1 DEF GetPacket, cardVars
  <2>2. CASE GetTimeout
    BY <2>2 DEF GetTimeout, cardVars
  <2>3. CASE TakePause
    BY <2>3 DEF TakePause, cardVars
  <2>4. CASE PauseFlush
    <3>1. UNCHANGED open
      BY <2>4, BufferWritten DEF PauseFlush
    <3>. QED
      BY <2>4, <3>1 DEF PauseFlush
  <2>5. CASE PauseClose
    BY <2>5 DEF PauseClose, cardVars, FsClose
  <2>6. CASE Deactivate
    BY <2>6 DEF Deactivate, cardVars
  <2>7. CASE TakeResume
    BY <2>7 DEF TakeResume, cardVars
  <2>8. CASE Mount
    BY <2>8 DEF Mount, cardVars
  <2>9. CASE BeginEpochPath
    BY <2>9 DEF BeginEpochPath, cardVars
  <2>10. CASE FinishEpochPath
    <3>1. path' \in Name
      BY <2>10 DEF FinishEpochPath, EpochName, Name, CountTypeOK
    <3>. QED
      BY <2>10, <3>1 DEF FinishEpochPath
  <2>11. CASE ScanRecPath
    <3>1. pc' = "open" => path' \in Name
      BY <2>11 DEF ScanRecPath, FreeRecs, RecName, Name
    <3>. QED
      BY <2>11, <3>1 DEF ScanRecPath
  <2>12. CASE OpenFile
    BY <2>12 DEF OpenFile, cardVars, FsOpen
  <2>13. CASE ResetFileState
    BY <2>13 DEF ResetFileState, cardVars
  <2>14. CASE Activate
    BY <2>14 DEF Activate, cardVars
  <2>15. CASE IdleFlush
    BY <2>15 DEF IdleFlush, WriteBuffer, WriteFails, cardVars, FsWrite
  <2>16. CASE DiscardPacket
    BY <2>16 DEF DiscardPacket, cardVars
  <2>17. CASE AppendPacket
    <3>1. UNCHANGED open
      BY <2>17 DEF AppendPacket, WriteFails, FsWrite, cardVars
    <3>. QED
      BY <2>17, <3>1 DEF AppendPacket, Appended
  <2>18. CASE CheckpointFlush
    <3>1. UNCHANGED open
      BY <2>18, BufferWritten DEF CheckpointFlush
    <3>. QED
      BY <2>18, <3>1 DEF CheckpointFlush
  <2>19. CASE CheckpointSync
    <3>1. UNCHANGED open
      BY <2>19 DEF CheckpointSync, FsSync, cardVars
    <3>. QED
      BY <2>19, <3>1 DEF CheckpointSync
  <2>. QED
    BY <1>1, <2>1, <2>2, <2>3, <2>4, <2>5, <2>6, <2>7, <2>8, <2>9, <2>10, <2>11, <2>12, <2>13, <2>14, <2>15, <2>16, <2>17, <2>18, <2>19 DEF RecorderThread
<1>2. ASSUME NEW oversize \in BOOLEAN, Submit(oversize) PROVE ControlInv'
  BY <1>2 DEF Submit, cardVars, threadVars
<1>3. CASE BlePause
  BY <1>3 DEF BlePause, cardVars, threadVars
<1>4. CASE BleResume
  BY <1>4 DEF BleResume, cardVars, threadVars
<1>5. CASE BleSleep
  BY <1>5 DEF BleSleep, cardVars, threadVars
<1>6. ASSUME NEW skew \in Skews, SetSyncTime(skew) PROVE ControlInv'
  BY <1>6 DEF SetSyncTime, cardVars, threadVars
<1>7. ASSUME NEW request \in {"pause", "resume", "sleep"}, BtnBegin(request) PROVE ControlInv'
  BY <1>7 DEF BtnBegin, cardVars, threadVars
<1>8. CASE BtnFinish
  BY <1>8 DEF BtnFinish, cardVars, threadVars
<1>9. CASE Tick
  BY <1>9 DEF Tick, cardVars, threadVars
<1>10. CASE PowerOff
  BY <1>10 DEF PowerOff, cardVars, threadVars
<1>11. CASE Crash
  BY <1>11 DEF Crash, Reboot, PowerLoss, cardVars, threadVars
<1>12. CASE WakeUp
  BY <1>12 DEF WakeUp, Reboot, PowerLoss, cardVars, threadVars
<1>13. CASE UNCHANGED vars
  BY <1>13 DEF vars, cardVars, threadVars
<1>. QED
  BY <1>1, <1>2, <1>3, <1>4, <1>5, <1>6, <1>7, <1>8, <1>9, <1>10, <1>11, <1>12, <1>13, StepCases DEF RequestStep

(* The card: only a write, a sync, a close, an open and a new name change  *)
(* what CardTypeOK says.                                                   *)
LEMMA CardTypeInv == TypeInv /\ [Next]_vars => CardTypeOK'
<1>. SUFFICES ASSUME TypeInv, [Next]_vars PROVE CardTypeOK'
  OBVIOUS
<1>. USE DEF TypeInv, TypeOK
<1>1. CASE RecorderThread
  <2>1. CASE \/ GetPacket \/ GetTimeout \/ TakePause \/ Deactivate \/ TakeResume \/ Mount
             \/ BeginEpochPath \/ ResetFileState \/ Activate \/ DiscardPacket
    <3>1. UNCHANGED cardVars
      BY <2>1 DEF GetPacket, GetTimeout, TakePause, Deactivate, TakeResume, Mount,
         BeginEpochPath, ResetFileState, Activate, DiscardPacket
    <3>. QED
      BY <3>1, CardUnchanged
  <2>2. CASE PauseFlush \/ CheckpointFlush
    <3>1. open
      BY <2>2 DEF ControlInv, Writing, PauseFlush, CheckpointFlush, At
    <3>. QED
      BY <2>2, <3>1, BufferWritten DEF PauseFlush, CheckpointFlush
  <2>3. CASE IdleFlush
    <3>1. CASE active
      <4>1. open
        BY <2>3, <3>1 DEF ControlInv, IdleFlush, At
      <4>. QED
        BY <2>3, <3>1, <4>1, BufferWritten DEF IdleFlush
    <3>2. CASE ~active
      BY <2>3, <3>2, CardUnchanged DEF IdleFlush
    <3>. QED
      BY <3>1, <3>2
  <2>4. CASE AppendPacket
    <3>1. open
      BY <2>4 DEF ControlInv, AppendPacket, At
    <3>2. CASE UNCHANGED cardVars
      BY <3>2, CardUnchanged
    <3>3. CASE FsWrite(buf)
      BY <3>1, <3>3, WriteType DEF ThreadTypeOK
    <3>4. CASE WriteFails
      BY <3>1, <3>4, BufferWritten
    <3>. QED
      BY <2>4, <3>2, <3>3, <3>4 DEF AppendPacket
  <2>5. CASE PauseClose
    <3>1. path \in DOMAIN files
      BY <2>5 DEF ControlInv, Writing, PauseClose, At, CardTypeOK
    <3>2. CASE files' = files
      BY <2>5, <3>2 DEF PauseClose, FsClose, CardTypeOK
    <3>3. CASE files' = [files EXCEPT ![path] = Committed(@)]
      BY <2>5, <3>1, <3>3, CommitType DEF PauseClose, FsClose, CardTypeOK
    <3>. QED
      BY <2>5, <3>2, <3>3 DEF PauseClose, FsClose
  <2>6. CASE CheckpointSync
    <3>1. open /\ path \in DOMAIN files
      BY <2>6 DEF ControlInv, Writing, CheckpointSync, At, CardTypeOK
    <3>2. CASE UNCHANGED cardVars
      BY <3>2, CardUnchanged
    <3>3. CASE FsSync
      BY <3>1, <3>3, CommitType DEF FsSync, CardTypeOK
    <3>. QED
      BY <2>6, <3>2, <3>3 DEF CheckpointSync
  <2>7. CASE FinishEpochPath \/ ScanRecPath
    <3>1. ~open
      BY <2>7 DEF ControlInv, Idle, FinishEpochPath, ScanRecPath, At
    <3>2. path' \in Name
      <4>1. CASE FinishEpochPath
        BY <4>1 DEF FinishEpochPath, EpochName, Name, CountTypeOK
      <4>2. CASE ScanRecPath
        <5>1. \A i \in 1 .. MaxRec : RecName(i) \in Name
          BY DEF RecName, Name
        <5>2. MaxRec \in 1 .. MaxRec
          BY MaxRecAssumption
        <5>. QED
          BY <4>2, <5>1, <5>2 DEF ScanRecPath, FreeRecs
      <4>. QED
        BY <2>7, <4>1, <4>2
    <3>3. UNCHANGED <<files, open, pos>>
      BY <2>7 DEF FinishEpochPath, ScanRecPath
    <3>. QED
      BY <3>1, <3>2, <3>3 DEF CardTypeOK
  <2>8. CASE OpenFile
    <3>1. path \in Name
      BY <2>8 DEF ControlInv, OpenFile, At
    <3>. QED
      BY <2>8, <3>1, OpenType, CardUnchanged DEF OpenFile
  <2>. QED
    BY <1>1, <2>1, <2>2, <2>3, <2>4, <2>5, <2>6, <2>7, <2>8 DEF RecorderThread
<1>2. ASSUME NEW oversize \in BOOLEAN, Submit(oversize) PROVE CardTypeOK'
  BY <1>2, CardUnchanged DEF Submit
<1>3. CASE RequestStep
  BY <1>3, CardUnchanged DEF RequestStep, BlePause, BleResume, BleSleep, SetSyncTime,
     BtnBegin, BtnFinish
<1>4. CASE Tick \/ PowerOff \/ UNCHANGED vars
  BY <1>4, CardUnchanged DEF Tick, PowerOff, vars
<1>5. CASE Crash \/ WakeUp
  BY <1>5, PowerLossType DEF Crash, WakeUp, Reboot
<1>. QED
  BY <1>1, <1>2, <1>3, <1>4, <1>5, StepCases

LEMMA SpecTypeInv == Spec => []TypeInv
<1>1. TypeInv /\ [Next]_vars => TypeInv'
  BY CardTypeInv, FlagsTypeInv, CountsTypeInv, ThreadTypeInv, ControlInvInductive
     DEF TypeInv, TypeOK
<1>. QED
  BY <1>1, InitTypeInv, PTL DEF Spec

(* Every variable stays in its type, through every failure and crash.      *)
THEOREM SpecTypeOK == Spec => []TypeOK
<1>1. TypeInv => TypeOK
  BY DEF TypeInv
<1>. QED
  BY <1>1, SpecTypeInv, PTL

(* The thread never writes, syncs or closes without an open handle.        *)
THEOREM SpecHandleOpen == Spec => []HandleOpen
<1>1. TypeInv => HandleOpen
  BY DEF TypeInv, ControlInv, Writing, HandleOpen
<1>. QED
  BY <1>1, SpecTypeInv, PTL
-----------------------------------------------------------------------------

(***************************************************************************)
(* What the types say about a recording in progress.                       *)
(***************************************************************************)
LEMMA StoredParts ==
    ASSUME TypeInv
    PROVE  /\ pos \in Nat /\ buf \in Seq(Packet) /\ Len(buf) \in Nat
           /\ queue \in Seq(Packet) /\ Len(queue) \in Nat
           /\ hand \in Seq(Packet) /\ Len(hand) \in Nat /\ Len(hand) <= 1
           /\ session \in Nat
           /\ open => /\ files[path].live \in Seq(Packet) /\ pos <= Len(files[path].live)
                      /\ Len(files[path].live) \in Nat
           /\ StoredSet = {files[path].live[i] : i \in 1 .. pos} \cup {buf[i] : i \in 1 .. Len(buf)}
<1>1. open => path \in DOMAIN files /\ FileOK(files[path]) /\ pos <= Len(files[path].live)
  BY DEF TypeInv, TypeOK, CardTypeOK
<1>. QED
  BY <1>1, FileFields DEF TypeInv, TypeOK, ThreadTypeOK, CardTypeOK, CountTypeOK, StoredSet

(* The hand never holds more than one packet.                              *)
LEMMA HandOf ==
    ASSUME TypeInv, hand # <<>>
    PROVE  hand = <<hand[1]>> /\ Len(hand) = 1 /\ hand[1] \in Packet
<1>1. hand \in Seq(Packet) /\ Len(hand) <= 1 /\ Len(hand) \in Nat
  BY StoredParts
<1>2. Len(hand) \in Nat \ {0}
  BY <1>1, EmptySeq
<1>3. Len(hand) = 1
  BY SMTT(30), <1>1, <1>2
<1>. QED
  BY <1>1, <1>3

(***************************************************************************)
(* The steps by what they do to a recording: the ones named write, open,   *)
(* close or reset it, the others leave card, buffer and session alone.     *)
(***************************************************************************)
LEMMA WritingSteps ==
    ASSUME [Next]_vars
    PROVE  \/ PauseFlush \/ IdleFlush \/ CheckpointFlush \/ AppendPacket
           \/ PauseClose \/ OpenFile \/ ResetFileState \/ CheckpointSync
           \/ FinishEpochPath \/ ScanRecPath \/ Crash \/ WakeUp
           \/ /\ UNCHANGED <<files, path, open, pos, buf, session>>
              /\ pc = "reset" => pc' = "reset"
<1>1. CASE RecorderThread
  BY <1>1 DEF At, RecorderThread, GetPacket, GetTimeout, TakePause, Deactivate, TakeResume, Mount,
     BeginEpochPath, Activate, DiscardPacket, cardVars, ghostVars
<1>2. ASSUME NEW oversize \in BOOLEAN, Submit(oversize)
      PROVE  UNCHANGED <<files, path, open, pos, buf, session, pc>>
  BY <1>2 DEF Submit, cardVars, threadVars
<1>3. CASE RequestStep
  BY <1>3 DEF RequestStep, BlePause, BleResume, BleSleep, SetSyncTime, BtnBegin, BtnFinish,
     cardVars, threadVars, ghostVars
<1>4. CASE Tick \/ PowerOff \/ UNCHANGED vars
  BY <1>4 DEF Tick, PowerOff, vars, cardVars, threadVars, ghostVars
<1>. QED
  BY <1>1, <1>2, <1>3, <1>4, StepCases

(***************************************************************************)
(* The queue.                                                              *)
(***************************************************************************)
LEMMA QueueSteps ==
    ASSUME [Next]_vars
    PROVE  \/ (\E oversize \in BOOLEAN : Submit(oversize)) \/ GetPacket \/ ResetFileState
           \/ Crash \/ WakeUp \/ UNCHANGED <<queue, session>>
<1>1. CASE RecorderThread
  BY <1>1 DEF RecorderThread, GetTimeout, TakePause, PauseFlush, PauseClose, Deactivate,
     TakeResume, Mount, BeginEpochPath, FinishEpochPath, ScanRecPath, OpenFile, Activate,
     IdleFlush, DiscardPacket, AppendPacket, CheckpointFlush, CheckpointSync, ghostVars
<1>2. CASE RequestStep
  BY <1>2 DEF RequestStep, BlePause, BleResume, BleSleep, SetSyncTime, BtnBegin, BtnFinish,
     ghostVars
<1>3. CASE Tick \/ PowerOff \/ UNCHANGED vars
  BY <1>3 DEF Tick, PowerOff, vars, ghostVars
<1>. QED
  BY <1>1, <1>2, <1>3, StepCases

LEMMA QueueFreshInductive ==
    ASSUME TypeInv, QueueFresh, [Next]_vars
    PROVE  QueueFresh'
<1>. USE DEF QueueFresh
<1>0. queue \in Seq(Packet) /\ Len(queue) \in Nat
  BY StoredParts
<1>1. ASSUME NEW oversize \in BOOLEAN, Submit(oversize) PROVE QueueFresh'
  <2>1. session' = session
    BY <1>1 DEF Submit
  <2>2. CASE queue' = queue
    BY <2>1, <2>2
  <2>3. CASE queue' = Append(queue, [id |-> nextId, session |-> session])
    <3>1. Len(queue') = Len(queue) + 1
      BY <1>0, <2>3
    <3>2. \A i \in 1 .. Len(queue) : queue'[i] = queue[i]
      BY <1>0, <2>3
    <3>3. queue'[Len(queue) + 1] = [id |-> nextId, session |-> session]
      BY <1>0, <2>3
    <3>. QED
      BY <1>0, <2>1, <3>1, <3>2, <3>3
  <2>. QED
    BY <1>1, <2>2, <2>3 DEF Submit
<1>2. CASE GetPacket
  <2>1. queue' = Tail(queue) /\ queue # <<>> /\ session' = session
    BY <1>2 DEF GetPacket, ghostVars
  <2>2. Len(Tail(queue)) = Len(queue) - 1 /\ \A i \in 1 .. Len(Tail(queue)) : Tail(queue)[i] = queue[i + 1]
    BY <1>0, <2>1, HeadTailProperties
  <2>. QED
    BY <1>0, <2>1, <2>2
<1>3. CASE ResetFileState \/ Crash \/ WakeUp
  <2>1. queue' = <<>>
    BY <1>3 DEF ResetFileState, PurgeQueue, Crash, WakeUp, Reboot
  <2>. QED
    BY <2>1
<1>4. CASE UNCHANGED <<queue, session>>
  BY <1>4
<1>. QED
  BY <1>1, <1>2, <1>3, <1>4, QueueSteps

(***************************************************************************)
(* The packet in hand.                                                     *)
(***************************************************************************)
LEMMA HandSteps ==
    ASSUME [Next]_vars
    PROVE  \/ GetPacket \/ ResetFileState \/ Activate \/ hand' = <<>>
           \/ /\ UNCHANGED <<hand, session>>
              /\ pc \in {"activate", "work"} => UNCHANGED <<pc, open, pos, buf>>
<1>. USE DEF At
<1>1. CASE GetPacket \/ GetTimeout \/ ResetFileState \/ Activate \/ DiscardPacket \/ AppendPacket
  BY <1>1 DEF GetTimeout, DiscardPacket, AppendPacket
<1>2. CASE IdleFlush
  BY <1>2 DEF IdleFlush
<1>3. CASE RecorderThread
  BY <1>1, <1>2, <1>3 DEF RecorderThread, TakePause, PauseFlush, PauseClose, Deactivate,
     TakeResume, Mount, BeginEpochPath, FinishEpochPath, ScanRecPath, OpenFile,
     CheckpointFlush, CheckpointSync, ghostVars
<1>4. ASSUME NEW oversize \in BOOLEAN, Submit(oversize)
      PROVE  UNCHANGED <<hand, session, pc, open, pos, buf>>
  BY <1>4 DEF Submit, cardVars, threadVars
<1>5. CASE RequestStep
  BY <1>5 DEF RequestStep, BlePause, BleResume, BleSleep, SetSyncTime, BtnBegin, BtnFinish,
     cardVars, threadVars, ghostVars
<1>6. CASE Tick \/ PowerOff \/ UNCHANGED vars
  BY <1>6 DEF Tick, PowerOff, vars, cardVars, threadVars, ghostVars
<1>7. CASE Crash \/ WakeUp
  BY <1>7 DEF Crash, WakeUp, Reboot
<1>. QED
  BY <1>3, <1>4, <1>5, <1>6, <1>7, StepCases

LEMMA HandFreshInductive ==
    ASSUME TypeInv, IsolationInv, [Next]_vars
    PROVE  HandFresh'
<1>. USE DEF HandFresh
<1>0. HandFresh /\ QueueFresh /\ (pc = "reset" => pos = 0)
  BY DEF IsolationInv
<1>1. CASE GetPacket
  <2>1. queue \in Seq(Packet) /\ queue # <<>> /\ Len(queue) \in Nat
    BY <1>1, StoredParts DEF GetPacket
  <2>2. Len(queue) \in Nat \ {0} /\ Head(queue) = queue[1]
    BY <2>1, EmptySeq
  <2>3. queue[1].session = session
    BY <1>0, <2>2 DEF QueueFresh
  <2>4. hand' = <<Head(queue)>> /\ session' = session
    BY <1>1 DEF GetPacket, ghostVars
  <2>. QED
    BY <2>2, <2>3, <2>4
<1>2. CASE ResetFileState
  <2>1. open
    BY <1>2 DEF ResetFileState, At, TypeInv, ControlInv
  <2>. QED
    BY <1>0, <1>2, <2>1 DEF ResetFileState, At, Goto, cardVars
<1>3. CASE Activate
  BY <1>0, <1>3 DEF Activate, At, Goto, cardVars, ghostVars
<1>4. CASE hand' = <<>>
  BY <1>4
<1>5. CASE /\ UNCHANGED <<hand, session>>
           /\ pc \in {"activate", "work"} => UNCHANGED <<pc, open, pos, buf>>
  BY <1>0, <1>5
<1>. QED
  BY <1>1, <1>2, <1>3, <1>4, <1>5, HandSteps

(* fs_open leaves the position at 0, and nothing writes before the reset.  *)
LEMMA ResetAtZero ==
    ASSUME TypeInv, pc = "reset" => pos = 0, [Next]_vars, pc' = "reset"
    PROVE  pos' = 0
<1>. USE DEF At, Goto
<1>1. CASE OpenFile
  BY <1>1 DEF OpenFile, FsOpen
<1>2. CASE RecorderThread
  <2>1. CASE AppendPacket
    BY <2>1 DEF AppendPacket, Appended
  <2>2. CASE TakePause \/ TakeResume \/ Mount \/ ScanRecPath
    BY <2>2 DEF TakePause, TakeResume, Mount, ScanRecPath
  <2>. QED
    BY <1>1, <1>2, <2>1, <2>2 DEF RecorderThread, GetPacket, GetTimeout, PauseFlush, PauseClose,
       Deactivate, BeginEpochPath, FinishEpochPath, ResetFileState, Activate, IdleFlush,
       DiscardPacket, CheckpointFlush, CheckpointSync
<1>3. ASSUME NEW oversize \in BOOLEAN, Submit(oversize) PROVE UNCHANGED <<pc, pos>>
  BY <1>3 DEF Submit, cardVars, threadVars
<1>4. CASE RequestStep
  BY <1>4 DEF RequestStep, BlePause, BleResume, BleSleep, SetSyncTime, BtnBegin, BtnFinish,
     cardVars, threadVars
<1>5. CASE Tick \/ PowerOff \/ UNCHANGED vars
  BY <1>5 DEF Tick, PowerOff, vars, cardVars, threadVars
<1>6. CASE Crash \/ WakeUp
  BY <1>6 DEF Crash, WakeUp, Reboot
<1>. QED
  BY <1>2, <1>3, <1>4, <1>5, <1>6, StepCases

(***************************************************************************)
(* What is stored.  A step that stores nothing but what was stored already *)
(* or belongs to the session keeps the promise.                            *)
(***************************************************************************)
LEMMA StrangerKept ==
    ASSUME OneStranger, session' = session, Recording' => Recording,
           \A x \in StoredSet' : x \in StoredSet \/ x.session = session
    PROVE  OneStranger'
BY DEF OneStranger

(* After a write the file holds, up to the new position, what it held up   *)
(* to the old one and then the records written.                            *)
LEMMA Written ==
    ASSUME TypeInv, open, NEW recs \in Seq(Packet), FsWrite(recs)
    PROVE  \A i \in 1 .. pos' :
              \/ \E j \in 1 .. pos : files'[path'].live[i] = files[path].live[j]
              \/ \E j \in 1 .. Len(recs) : files'[path'].live[i] = recs[j]
<1> DEFINE old == files[path].live
           new == Overwrite(old, pos, recs)
<1>1. /\ pos \in Nat /\ old \in Seq(Packet) /\ pos <= Len(old) /\ Len(recs) \in Nat
      /\ path \in DOMAIN files /\ files[path] \in File
  BY StoredParts DEF TypeInv, TypeOK, CardTypeOK, FileOK
<1>2. /\ \A i \in 1 .. pos : new[i] = old[i]
      /\ \A i \in 1 .. Len(recs) : new[pos + i] = recs[i]
  BY <1>1, OverwriteType
<1>3. pos' = pos + Len(recs) /\ path' = path
  BY DEF FsWrite
<1>4. files'[path].live = new
  <2>1. files' = [files EXCEPT ![path] = [files[path] EXCEPT !.live = new]]
    BY DEF FsWrite
  <2>. HIDE DEF new, old
  <2>. QED
    BY <1>1, <2>1 DEF File
<1>5. ASSUME NEW i \in 1 .. pos'
      PROVE  \/ \E j \in 1 .. pos : new[i] = old[j]
             \/ \E j \in 1 .. Len(recs) : new[i] = recs[j]
  <2>. HIDE DEF new, old
  <2>1. CASE i \in 1 .. pos
    BY <1>2, <2>1
  <2>2. CASE i - pos \in 1 .. Len(recs)
    <3>1. new[pos + (i - pos)] = recs[i - pos]
      BY <1>2, <2>2
    <3>2. pos + (i - pos) = i
      BY <1>1, <1>3
    <3>. QED
      BY <2>2, <3>1, <3>2
  <2>. QED
    BY <1>1, <1>3, <2>1, <2>2
<1>. QED
  BY <1>3, <1>4, <1>5

(* The same, for a write of the buffer, whether or not it succeeds: what   *)
(* is new is a fragment of a packet of this session.                       *)
LEMMA FlushKeepsStored ==
    ASSUME TypeInv, open, WriteBuffer \/ WriteFails, session' = session
    PROVE  /\ \A i \in 1 .. pos' : \/ files'[path'].live[i] \in StoredSet
                                   \/ files'[path'].live[i].session = session
           /\ \A i \in 1 .. Len(buf') : buf'[i] \in StoredSet
<1>1. /\ pos \in Nat /\ buf \in Seq(Packet) /\ Len(buf) \in Nat /\ session \in Nat
      /\ StoredSet = {files[path].live[i] : i \in 1 .. pos} \cup {buf[i] : i \in 1 .. Len(buf)}
  BY StoredParts
<1>2. \A i \in 1 .. Len(buf') : buf'[i] \in StoredSet
  <2>1. buf' = buf \/ buf' = <<>>
    BY DEF WriteBuffer, WriteFails
  <2>. QED
    BY <1>1, <2>1
<1>3. CASE WriteBuffer
  <2>1. \A i \in 1 .. pos' :
              \/ \E j \in 1 .. pos : files'[path'].live[i] = files[path].live[j]
              \/ \E j \in 1 .. Len(buf) : files'[path'].live[i] = buf[j]
    BY <1>1, <1>3, Written DEF WriteBuffer
  <2>. QED
    BY <1>1, <1>2, <2>1
<1>4. CASE WriteFails
  <2>1. PICK k \in 0 .. Len(buf) - 1, piece \in {<<>>, <<Fragment(session)>>} :
            FsWrite(SubSeq(buf, 1, k) \o piece)
    BY <1>4 DEF WriteFails
  <2> DEFINE part == SubSeq(buf, 1, k)
             recs == part \o piece
  <2>2. part \in Seq(Packet) /\ Len(part) = k /\ \A i \in 1 .. k : part[i] = buf[i]
    BY <1>1, <2>1
  <2>3. Fragment(session) \in Packet /\ Fragment(session).session = session
    BY <1>1 DEF Fragment, Packet
  <2>4. /\ piece \in Seq(Packet) /\ Len(piece) \in {0, 1}
        /\ \A i \in 1 .. Len(piece) : piece[i] = Fragment(session)
    <3>1. CASE piece = <<>>
      BY <3>1, EmptySeq
    <3>2. CASE piece = <<Fragment(session)>>
      BY <2>3, <3>2
    <3>. QED
      BY <2>1, <3>1, <3>2
  <2>5. recs \in Seq(Packet) /\ Len(recs) = k + Len(piece)
        /\ \A i \in 1 .. k + Len(piece) : recs[i] = IF i <= k THEN part[i] ELSE piece[i - k]
    <3>. HIDE DEF part
    <3>1. /\ recs \in Seq(Packet) /\ Len(recs) = Len(part) + Len(piece)
          /\ \A i \in 1 .. Len(part) + Len(piece) :
                recs[i] = IF i <= Len(part) THEN part[i] ELSE piece[i - Len(part)]
      BY <2>2, <2>4, ConcatProperties
    <3>. QED
      BY <2>2, <3>1
  <2>6. ASSUME NEW j \in 1 .. Len(recs) PROVE recs[j] \in StoredSet \/ recs[j].session = session
    <3>. HIDE DEF part, recs
    <3>1. CASE j <= k
      <4>1. j \in 1 .. k /\ j \in 1 .. Len(buf) /\ recs[j] = buf[j]
        BY <1>1, <2>1, <2>2, <2>4, <2>5, <3>1
      <4>. QED
        BY <1>1, <4>1
    <3>2. CASE j > k
      <4>1. j - k \in 1 .. Len(piece) /\ recs[j] = piece[j - k]
        BY <2>1, <2>4, <2>5, <3>2
      <4>. QED
        BY <2>3, <2>4, <4>1
    <3>. QED
      BY <2>1, <2>5, <3>1, <3>2
  <2>7. FsWrite(recs)
    BY <2>1
  <2>. HIDE DEF part, recs
  <2>8. \A i \in 1 .. pos' :
              \/ \E j \in 1 .. pos : files'[path'].live[i] = files[path].live[j]
              \/ \E j \in 1 .. Len(recs) : files'[path'].live[i] = recs[j]
    BY <2>5, <2>7, Written
  <2>. QED
    BY <1>1, <1>2, <2>6, <2>8
<1>. QED
  BY <1>3, <1>4

LEMMA FlushIsolation ==
    ASSUME TypeInv, OneStranger, open, WriteBuffer \/ WriteFails, session' = session,
           pc # "reset"
    PROVE  OneStranger'
<1>1. \A x \in StoredSet' : x \in StoredSet \/ x.session = session
  BY FlushKeepsStored DEF StoredSet
<1>2. Recording
  BY DEF Recording
<1>. QED
  BY <1>1, <1>2, StrangerKept

(* A packet joins the buffer: one of this session, or the one stranger,    *)
(* and then nothing was stored before it.                                  *)
LEMMA AppendIsolation ==
    ASSUME TypeInv, IsolationInv, AppendPacket
    PROVE  OneStranger'
<1>0. /\ OneStranger /\ HandFresh /\ session' = session /\ hand # <<>> /\ pc = "work" /\ open
      /\ Recording
  BY DEF IsolationInv, AppendPacket, At, TypeInv, ControlInv, Recording
<1>1. /\ pos \in Nat /\ buf \in Seq(Packet) /\ Len(buf) \in Nat
      /\ StoredSet = {files[path].live[i] : i \in 1 .. pos} \cup {buf[i] : i \in 1 .. Len(buf)}
      /\ hand = <<hand[1]>> /\ Len(hand) = 1 /\ hand[1] \in Packet /\ hand \in Seq(Packet)
  BY <1>0, StoredParts, HandOf
<1>2. CASE UNCHANGED cardVars /\ buf' = buf \o hand
  <2>1. /\ Len(buf') = Len(buf) + 1
        /\ \A i \in 1 .. Len(buf) + 1 : buf'[i] = IF i <= Len(buf) THEN buf[i] ELSE hand[1]
    <3>1. /\ Len(buf') = Len(buf) + Len(hand)
          /\ \A i \in 1 .. Len(buf) + Len(hand) :
                buf'[i] = IF i <= Len(buf) THEN buf[i] ELSE hand[i - Len(buf)]
      BY <1>1, <1>2, ConcatProperties
    <3>. QED
      BY <1>1, <3>1
  <2>2. UNCHANGED <<files, path, pos>>
    BY <1>2 DEF cardVars
  <2>3. \A x \in StoredSet' : x \in StoredSet \/ x = hand[1]
    <3>1. ASSUME NEW i \in 1 .. Len(buf') PROVE buf'[i] \in StoredSet \/ buf'[i] = hand[1]
      <4>1. CASE i <= Len(buf)
        BY <1>1, <2>1, <4>1
      <4>2. CASE ~(i <= Len(buf))
        BY <1>1, <2>1, <4>2
      <4>. QED
        BY <4>1, <4>2
    <3>2. ASSUME NEW i \in 1 .. pos' PROVE files'[path'].live[i] \in StoredSet
      BY <1>1, <2>2
    <3>. QED
      BY <3>1, <3>2 DEF StoredSet
  <2>4. CASE hand[1].session = session
    <3>1. \A x \in StoredSet' : x \in StoredSet \/ x.session = session
      BY <2>3, <2>4
    <3>. QED
      BY <1>0, <3>1, StrangerKept
  <2>5. CASE hand[1].session # session
    <3>1. pos = 0 /\ buf = <<>>
      BY <1>0, <2>5 DEF HandFresh
    <3>2. StoredSet = {}
      BY <1>1, <3>1
    <3>. QED
      BY <2>3, <3>2 DEF OneStranger
  <2>. QED
    BY <2>4, <2>5
<1>3. CASE Len(buf) = BufferRecords /\ FsWrite(buf) /\ buf' = hand
  <2>1. hand[1].session = session
    <3>1. buf # <<>>
      BY <1>3, RecorderAssumption
    <3>. QED
      BY <1>0, <3>1 DEF HandFresh
  <2>2. \A i \in 1 .. pos' :
              \/ \E j \in 1 .. pos : files'[path'].live[i] = files[path].live[j]
              \/ \E j \in 1 .. Len(buf) : files'[path'].live[i] = buf[j]
    BY <1>0, <1>1, <1>3, Written
  <2>3. \A i \in 1 .. pos' : files'[path'].live[i] \in StoredSet
    BY <1>1, <2>2
  <2>4. \A i \in 1 .. Len(buf') : buf'[i].session = session
    <3>1. buf' = hand /\ Len(buf') = 1
      BY <1>1, <1>3
    <3>2. \A i \in 1 .. Len(buf') : buf'[i] = hand[1]
      BY <3>1
    <3>. QED
      BY <2>1, <3>2
  <2>5. \A x \in StoredSet' : x \in StoredSet \/ x.session = session
    BY <2>3, <2>4 DEF StoredSet
  <2>. QED
    BY <1>0, <2>5, StrangerKept
<1>4. CASE WriteFails
  BY <1>0, <1>4, FlushIsolation
<1>. QED
  BY <1>2, <1>3, <1>4 DEF AppendPacket

LEMMA OneStrangerInductive ==
    ASSUME TypeInv, IsolationInv, [Next]_vars
    PROVE  OneStranger'
<1>. USE DEF At, Goto
<1>0. OneStranger /\ ControlInv /\ CardTypeOK /\ (pc = "reset" => pos = 0)
  BY DEF IsolationInv, TypeInv, TypeOK
<1>1. CASE PauseFlush
  BY <1>0, <1>1, FlushIsolation DEF PauseFlush, ControlInv, Writing
<1>2. CASE CheckpointFlush
  BY <1>0, <1>2, FlushIsolation DEF CheckpointFlush, ControlInv, Writing
<1>3. CASE IdleFlush
  <2>1. session' = session /\ pc = "work"
    BY <1>3 DEF IdleFlush
  <2>2. CASE active
    <3>1. open /\ (WriteBuffer \/ WriteFails)
      BY <1>0, <1>3, <2>1, <2>2 DEF IdleFlush, ControlInv
    <3>. QED
      BY <1>0, <2>1, <3>1, FlushIsolation
  <2>3. CASE ~active
    <3>1. ~open /\ open' = open
      BY <1>0, <1>3, <2>1, <2>3 DEF IdleFlush, ControlInv, cardVars
    <3>. QED
      BY <3>1 DEF OneStranger, Recording
  <2>. QED
    BY <2>2, <2>3
<1>4. CASE AppendPacket
  BY <1>4, AppendIsolation
<1>5. CASE ~open'
  BY <1>5 DEF OneStranger, Recording
<1>6. CASE PauseClose \/ Crash \/ WakeUp
  BY <1>5, <1>6 DEF PauseClose, FsClose, Crash, WakeUp, Reboot, PowerLoss
<1>7. CASE FinishEpochPath \/ ScanRecPath
  <2>1. ~open /\ open' = open
    BY <1>0, <1>7 DEF FinishEpochPath, ScanRecPath, ControlInv, Idle
  <2>. QED
    BY <1>5, <2>1
<1>8. CASE OpenFile
  <2>1. CASE pc' = "reset"
    BY <2>1 DEF OneStranger, Recording
  <2>2. CASE UNCHANGED cardVars
    BY <1>0, <1>5, <1>8, <2>2 DEF OpenFile, cardVars, ControlInv, Idle
  <2>. QED
    BY <1>8, <2>1, <2>2 DEF OpenFile
<1>9. CASE ResetFileState
  <2>1. pos' = 0 /\ buf' = <<>>
    BY <1>0, <1>9 DEF ResetFileState, cardVars
  <2>2. StoredSet' = {}
    BY <2>1 DEF StoredSet
  <2>. QED
    BY <2>2 DEF OneStranger
<1>10. CASE CheckpointSync
  <2>1. open /\ path \in DOMAIN files /\ Recording
    BY <1>0, <1>10 DEF CheckpointSync, ControlInv, Writing, CardTypeOK, Recording
  <2>2. files'[path].live = files[path].live /\ UNCHANGED <<path, pos>>
    <3>1. CASE UNCHANGED cardVars
      BY <3>1 DEF cardVars
    <3>2. CASE FsSync
      BY <1>0, <2>1, <3>2, CommitType DEF FsSync
    <3>. QED
      BY <1>10, <3>1, <3>2 DEF CheckpointSync
  <2>3. UNCHANGED <<buf, session>>
    BY <1>10 DEF CheckpointSync
  <2>4. StoredSet' = StoredSet
    BY <2>2, <2>3 DEF StoredSet
  <2>. QED
    BY <1>0, <2>1, <2>3, <2>4, StrangerKept
<1>11. CASE /\ UNCHANGED <<files, path, open, pos, buf, session>>
            /\ pc = "reset" => pc' = "reset"
  <2>1. StoredSet' = StoredSet /\ session' = session
    BY <1>11 DEF StoredSet
  <2>2. Recording' => Recording
    BY <1>11 DEF Recording
  <2>. QED
    BY <1>0, <2>1, <2>2, StrangerKept
<1>. QED
  BY <1>1, <1>2, <1>3, <1>4, <1>6, <1>7, <1>8, <1>9, <1>10, <1>11, WritingSteps

(***************************************************************************)
(* The theorem.                                                            *)
(***************************************************************************)
LEMMA SpecIsolationInv == Spec => [](TypeInv /\ IsolationInv)
<1>1. Init => IsolationInv
  BY DEF Init, CardInit, IsolationInv, QueueFresh, HandFresh, OneStranger, Recording
<1>2. TypeInv /\ IsolationInv /\ [Next]_vars => IsolationInv'
  <2>. SUFFICES ASSUME TypeInv, IsolationInv, [Next]_vars PROVE IsolationInv'
    OBVIOUS
  <2>1. QueueFresh' /\ HandFresh' /\ OneStranger'
    BY QueueFreshInductive, HandFreshInductive, OneStrangerInductive DEF IsolationInv
  <2>2. pc' = "reset" => pos' = 0
    BY ResetAtZero DEF IsolationInv
  <2>. QED
    BY <2>1, <2>2 DEF IsolationInv
<1>. QED
  BY <1>1, <1>2, SpecTypeInv, PTL DEF Spec

(* Stored is the sequence whose elements StoredSet collects.               *)
LEMMA StoredElements ==
    ASSUME TypeInv, open
    PROVE  \A i \in 1 .. Len(Stored) : Stored[i] \in StoredSet
<1> DEFINE head == SubSeq(files[path].live, 1, pos)
<1>1. /\ pos \in Nat /\ buf \in Seq(Packet) /\ Len(buf) \in Nat
      /\ files[path].live \in Seq(Packet) /\ pos <= Len(files[path].live)
      /\ StoredSet = {files[path].live[i] : i \in 1 .. pos} \cup {buf[i] : i \in 1 .. Len(buf)}
  BY StoredParts
<1>2. /\ head \in Seq(Packet) /\ Len(head) = pos
      /\ \A i \in 1 .. pos : head[i] = files[path].live[i]
  BY <1>1
<1>3. Stored = head \o buf
  BY DEF Stored
<1>. HIDE DEF head
<1>4. /\ Len(Stored) = Len(head) + Len(buf)
      /\ \A i \in 1 .. Len(head) + Len(buf) :
            Stored[i] = IF i <= Len(head) THEN head[i] ELSE buf[i - Len(head)]
  BY ZenonT(40), <1>1, <1>2, <1>3, ConcatProperties
<1>5. ASSUME NEW i \in 1 .. Len(Stored) PROVE Stored[i] \in StoredSet
  <2>1. CASE i <= pos
    <3>1. i \in 1 .. pos /\ Stored[i] = files[path].live[i]
      BY <1>1, <1>2, <1>4, <2>1
    <3>. QED
      BY <1>1, <3>1
  <2>2. CASE i > pos
    <3>1. i - pos \in 1 .. Len(buf) /\ Stored[i] = buf[i - pos]
      BY <1>1, <1>2, <1>4, <2>2
    <3>. QED
      BY <1>1, <3>1
  <2>. QED
    BY <1>1, <1>2, <1>4, <2>1, <2>2
<1>. QED
  BY <1>5

(* A packet accepted in one session never lands in the file of another,    *)
(* but for the one the thread had in hand when the resume was applied.     *)
THEOREM SpecSessionIsolation == Spec => []SessionIsolation
<1>1. TypeInv /\ IsolationInv => SessionIsolation
  <2>. SUFFICES ASSUME TypeInv, IsolationInv PROVE SessionIsolation
    OBVIOUS
  <2>1. \A i \in 1 .. Len(queue) : queue[i].session = session
    BY DEF IsolationInv, QueueFresh
  <2>2. Recording => \A i \in 1 .. Len(Stored) : Stored[i] \in StoredSet
    BY StoredElements DEF Recording
  <2>3. Recording => \A x, y \in StoredSet :
                        x.session # session /\ y.session # session => x = y
    BY DEF IsolationInv, OneStranger
  <2>. QED
    BY <2>1, <2>2, <2>3 DEF SessionIsolation
<1>. QED
  BY <1>1, SpecIsolationInv, PTL
=============================================================================
