---------------------------- MODULE StorageProofs ----------------------------
(***************************************************************************)
(* Proofs about StorageService and StorageSession, for every pipeline,     *)
(* queue depth, set of files, of sessions and of operations, and bound.    *)
(***************************************************************************)
EXTENDS StorageSession, SequenceTheorems, TLAPS

(***************************************************************************)
(* The inductive invariant: the types, and what OrderInv adds so that a    *)
(* file is read only if it is there and requests are numbered in order.    *)
(***************************************************************************)
StorageInv == TypeOK /\ OrderInv

(* Every message the service sends is a notification.                      *)
LEMMA MsgType ==
    ASSUME StorageInv
    PROVE  /\ \A tag \in {"end", "error"} : Msg(tag, 0) \in Notification
           /\ Msg("size", size) \in Notification
           /\ Msg("data", next) \in Notification
           /\ Msg("status", current) \in Notification
           /\ \A f \in Files : Msg("entry", f) \in Notification
           /\ [tag |-> "error", req |-> rx, arg |-> 0] \in Notification
<1>1. cmd.id \in Nat
  BY DEF StorageInv, TypeOK, CommandTypeOK, Command
<1>2. size \in Nat /\ next \in Nat /\ rx \in Nat /\ current \in Files \cup {None}
  BY DEF StorageInv, TypeOK, ThreadTypeOK, CountTypeOK, CardTypeOK
<1>. QED
  BY <1>1, <1>2 DEF Msg, Notification

(* A notification, sent, dropped or refused, turns one free credit into    *)
(* one in flight, or changes nothing.                                      *)
LEMMA NotifyKeepsCredits ==
    ASSUME StorageInv, NEW m \in Notification, Notify(m) \/ NotifyFails
    PROVE  /\ credits' \in 0 .. Pipeline
           /\ {air', out'} \subseteq Seq(Notification)
           /\ credits' + Len(air') = credits + Len(air)
<1>1. /\ Pipeline \in Nat /\ credits \in 0 .. Pipeline
      /\ air \in Seq(Notification) /\ out \in Seq(Notification) /\ Len(air) \in Nat
  BY StorageAssumption DEF StorageInv, TypeOK, NotifyTypeOK
<1>2. CASE UNCHANGED notifyVars
  BY <1>1, <1>2 DEF notifyVars
<1>3. CASE /\ credits > 0 /\ credits' = credits - 1
           /\ air' = Append(air, m) /\ out' = Append(out, m)
  <2>1. /\ air' \in Seq(Notification) /\ out' \in Seq(Notification)
        /\ Len(air') = Len(air) + 1
    BY <1>1, <1>3
  <2>. QED
    BY <1>1, <1>3, <2>1
<1>. QED
  BY <1>2, <1>3 DEF Notify, NotifyFails

(* The steps that send a notification, by what they have in common.        *)
Sending ==
    \/ \E f \in Files : ListEntry(f)
    \/ SendSize \/ SendChunk \/ SendEnd \/ SendStatus \/ SendError \/ RxError

LEMMA SendingCredits ==
    ASSUME StorageInv, Sending
    PROVE  /\ credits' \in 0 .. Pipeline
           /\ {air', out'} \subseteq Seq(Notification)
           /\ credits' + Len(air') = credits + Len(air)
           /\ UNCHANGED <<link, steady, drained, lost>>
<1>1. CASE UNCHANGED notifyVars
  <2>1. credits \in 0 .. Pipeline /\ {air, out} \subseteq Seq(Notification)
    BY DEF StorageInv, TypeOK, NotifyTypeOK
  <2>2. UNCHANGED <<link, steady, drained, lost>>
    BY DEF Sending, ListEntry, SendSize, SendChunk, SendEnd, SendStatus, SendError, RxError,
       sharedVars, threadVars
  <2>. QED
    BY <1>1, <2>1, <2>2 DEF notifyVars
<1>2. CASE \E m \in Notification : Notify(m) \/ NotifyFails
  <2>1. UNCHANGED <<link, steady, drained, lost>>
    BY DEF Sending, ListEntry, SendSize, SendChunk, SendEnd, SendStatus, SendError, RxError,
       sharedVars, threadVars
  <2>. QED
    BY <1>2, <2>1, NotifyKeepsCredits
<1>3. CASE \E f \in Files : ListEntry(f)
  BY <1>1, <1>2, <1>3, MsgType DEF ListEntry
<1>4. CASE SendSize \/ SendChunk
  BY <1>2, <1>4, MsgType DEF SendSize, SendChunk
<1>5. CASE SendEnd \/ SendStatus \/ SendError
  BY <1>2, <1>5, MsgType DEF SendEnd, SendStatus, SendError, Answer
<1>6. CASE RxError
  BY <1>2, <1>6, MsgType DEF RxError
<1>. QED
  BY <1>3, <1>4, <1>5, <1>6 DEF Sending

(* The steps that touch neither credits nor what is in flight.             *)
SilentStep ==
    \/ TakeCommand \/ ClearAbort \/ ListFails \/ ListEnds \/ StatFile \/ OpenFile
    \/ FetchAborted \/ ReadFails \/ FetchEnds
    \/ (\E op \in {"list", "fetch", "status"}, f \in Files \cup {None},
           offset \in Nat, length \in Nat :
              WriteControl(op, f, offset, length))
    \/ WriteNonsense \/ WriteAbort \/ Connect \/ Subscribe \/ Unsubscribe
    \/ Record \/ UNCHANGED vars

(* Every step of the service, alone or with its sessions, is one of these. *)
Step == Sending \/ SilentStep \/ DrainTake \/ DrainGive \/ Complete \/ Disconnect

LEMMA StepCases ==
    ASSUME Step
    PROVE  Sending \/ SilentStep \/ DrainTake \/ DrainGive \/ Complete \/ Disconnect
BY DEF Step

LEMMA NextIsStep == [Next]_vars => Step
BY StorageAssumption DEF Next, StorageThread, Phone, Sending, SilentStep, Step

LEMMA QuietCredits ==
    ASSUME StorageInv, SilentStep
    PROVE  /\ UNCHANGED <<credits, drained, lost, air>>
           /\ out' \in {out, <<>>} /\ steady' \in BOOLEAN
           /\ link' \in {"down", "up", "subscribed"}
<1>. USE DEF StorageInv, TypeOK, NotifyTypeOK, sharedVars, notifyVars, threadVars
<1>1. CASE TakeCommand \/ ClearAbort \/ ListFails \/ ListEnds
  BY <1>1 DEF TakeCommand, ClearAbort, ListFails, ListEnds
<1>2. CASE StatFile \/ OpenFile \/ FetchAborted \/ ReadFails \/ FetchEnds
  BY <1>2 DEF StatFile, OpenFile, FetchAborted, ReadFails, FetchEnds
<1>3. ASSUME NEW op, NEW f, NEW offset, NEW length, WriteControl(op, f, offset, length)
      PROVE  /\ UNCHANGED <<credits, drained, lost, air>>
             /\ out' \in {out, <<>>} /\ steady' \in BOOLEAN
             /\ link' \in {"down", "up", "subscribed"}
  BY <1>3 DEF WriteControl
<1>4. CASE WriteNonsense \/ WriteAbort \/ Connect \/ Subscribe \/ Unsubscribe
  BY <1>4 DEF WriteNonsense, WriteAbort, Connect, Subscribe, Unsubscribe
<1>5. CASE Record \/ UNCHANGED vars
  BY <1>5 DEF Record, vars
<1>. QED
  BY <1>1, <1>2, <1>3, <1>4, <1>5 DEF SilentStep

(***************************************************************************)
(* Notification types and credits.                                         *)
(***************************************************************************)
LEMMA CompleteStep ==
    ASSUME StorageInv, Complete
    PROVE  /\ credits' \in 0 .. Pipeline
           /\ air' \in Seq(Notification)
           /\ credits' + Len(air') >= Smaller(Pipeline, credits + Len(air))
           /\ UNCHANGED <<link, steady, drained, lost, out>>
<1>1. /\ Pipeline \in Nat /\ credits \in 0 .. Pipeline
      /\ air \in Seq(Notification) /\ Len(air) \in Nat
  BY StorageAssumption DEF StorageInv, TypeOK, NotifyTypeOK
<1>2. air' \in Seq(Notification) /\ Len(air') = Len(air) - 1 /\ Len(air) > 0
  BY <1>1, HeadTailProperties, EmptySeq DEF Complete
<1>. QED
  BY <1>1, <1>2 DEF Complete, Smaller, sharedVars, threadVars

LEMMA DisconnectStep ==
    ASSUME StorageInv, Disconnect
    PROVE  /\ credits' \in 0 .. Pipeline /\ lost' \in Nat
           /\ air' = <<>> /\ link' = "down" /\ steady' = FALSE
           /\ UNCHANGED <<drained, out>>
           /\ CreditsAccounted => CreditsAccounted'
<1>1. /\ Pipeline \in Nat /\ credits \in 0 .. Pipeline /\ lost \in Nat
      /\ drained \in 0 .. Pipeline /\ Len(air) \in Nat
  BY StorageAssumption DEF StorageInv, TypeOK, NotifyTypeOK
<1>2. PICK completed \in 0 .. Len(air) :
         /\ credits' = Smaller(Pipeline, credits + completed)
         /\ lost' = lost + Len(air) - completed
  BY DEF Disconnect
<1>3. /\ air' = <<>> /\ Len(air') = 0 /\ link' = "down" /\ steady' = FALSE
      /\ UNCHANGED <<drained, out>>
  BY DEF Disconnect, threadVars
<1>. QED
  BY <1>1, <1>2, <1>3 DEF Smaller, CreditsAccounted

LEMMA NotifyTypeInv == StorageInv /\ Step => NotifyTypeOK'
<1>. SUFFICES ASSUME StorageInv, Step PROVE NotifyTypeOK'
  OBVIOUS
<1>. USE DEF NotifyTypeOK
<1>0. NotifyTypeOK /\ Pipeline \in Nat
  BY StorageAssumption DEF StorageInv, TypeOK
<1>1. CASE Sending
  BY <1>0, <1>1, SendingCredits
<1>2. CASE SilentStep
  BY <1>0, <1>2, QuietCredits, EmptySeq
<1>3. CASE DrainTake
  BY <1>0, <1>3 DEF DrainTake, sharedVars
<1>4. CASE DrainGive
  BY <1>0, <1>4 DEF DrainGive
<1>5. CASE Complete
  BY <1>0, <1>5, CompleteStep
<1>6. CASE Disconnect
  BY <1>0, <1>6, DisconnectStep, EmptySeq
<1>. QED
  BY <1>1, <1>2, <1>3, <1>4, <1>5, <1>6, StepCases

LEMMA CreditsInductive ==
    StorageInv /\ CreditsAccounted /\ Step => CreditsAccounted'
<1>. SUFFICES ASSUME StorageInv, CreditsAccounted, Step PROVE CreditsAccounted'
  OBVIOUS
<1>. USE DEF CreditsAccounted
<1>0. /\ Pipeline \in Nat /\ credits \in 0 .. Pipeline /\ lost \in Nat
      /\ drained \in 0 .. Pipeline /\ Len(air) \in Nat
  BY StorageAssumption DEF StorageInv, TypeOK, NotifyTypeOK
<1>0a. NotifyTypeOK'
  BY NotifyTypeInv
<1>0b. /\ credits' \in 0 .. Pipeline /\ lost' \in Nat
       /\ drained' \in 0 .. Pipeline /\ Len(air') \in Nat
  BY <1>0a DEF NotifyTypeOK
<1>1. CASE Sending
  BY SMTT(30), <1>0, <1>0b, <1>1, SendingCredits
<1>2. CASE SilentStep
  BY <1>0, <1>0b, <1>2, QuietCredits
<1>3. CASE DrainTake
  BY <1>0, <1>0b, <1>3 DEF DrainTake, sharedVars
<1>4. CASE DrainGive
  BY <1>0, <1>0b, <1>4 DEF DrainGive
<1>5. CASE Complete
  BY SMTT(30), <1>0, <1>0b, <1>5, CompleteStep DEF Smaller
<1>6. CASE Disconnect
  BY <1>6, DisconnectStep
<1>. QED
  BY <1>1, <1>2, <1>3, <1>4, <1>5, <1>6, StepCases

(***************************************************************************)
(* The card: it is written by Record alone, and files only come.           *)
(***************************************************************************)
LEMMA CardSteps ==
    ASSUME Step
    PROVE  Record \/ UNCHANGED cardVars
<1>1. CASE Sending
  BY <1>1 DEF Sending, ListEntry, SendSize, SendChunk, SendEnd, SendStatus, SendError, RxError
<1>2. CASE SilentStep
  BY <1>2 DEF SilentStep, TakeCommand, ClearAbort, ListFails, ListEnds, StatFile, OpenFile,
     FetchAborted, ReadFails, FetchEnds, WriteControl, WriteNonsense, WriteAbort, Connect,
     Subscribe, Unsubscribe, vars
<1>3. CASE DrainTake \/ DrainGive \/ Complete \/ Disconnect
  BY <1>3 DEF DrainTake, DrainGive, Complete, Disconnect
<1>. QED
  BY <1>1, <1>2, <1>3, StepCases

LEMMA CardTypeInv == StorageInv /\ Step => CardTypeOK' /\ DOMAIN card \subseteq DOMAIN card'
<1>. SUFFICES ASSUME StorageInv, Step
              PROVE  CardTypeOK' /\ DOMAIN card \subseteq DOMAIN card'
  OBVIOUS
<1>0. CardTypeOK
  BY DEF StorageInv, TypeOK
<1>1. CASE UNCHANGED cardVars
  BY <1>0, <1>1 DEF CardTypeOK, cardVars
<1>2. CASE current # None /\ current' = None /\ UNCHANGED card
  BY <1>0, <1>2 DEF CardTypeOK
<1>3. CASE current # None /\ card' = [card EXCEPT ![current] = @ + 1] /\ UNCHANGED current
  BY <1>0, <1>3 DEF CardTypeOK
<1>4. ASSUME NEW f \in Files \ DOMAIN card, current' = f,
             card' = [g \in DOMAIN card \cup {f} |-> IF g = f THEN 0 ELSE card[g]]
      PROVE  CardTypeOK' /\ DOMAIN card \subseteq DOMAIN card'
  BY <1>0, <1>4 DEF CardTypeOK
<1>. QED
  BY <1>1, <1>2, <1>3, <1>4, CardSteps DEF Record

(***************************************************************************)
(* Commands: the queue is written by write_control, read by the storage    *)
(* thread and purged by an ABORT.                                          *)
(***************************************************************************)
LEMMA RequestType ==
    ASSUME StorageInv, NEW op, NEW f, NEW offset, NEW length,
           [op |-> op, file |-> f, offset |-> offset, length |-> length, id |-> requests']
              \in Command,
           WriteControl(op, f, offset, length)
    PROVE  /\ cmds' \in Seq(Command) /\ Len(cmds') <= QueueDepth
           /\ \A k \in 1 .. Len(cmds') : cmds'[k].id <= requests'
<1> DEFINE c == [op |-> op, file |-> f, offset |-> offset, length |-> length,
                 id |-> requests']
<1>1. /\ cmds \in Seq(Command) /\ Len(cmds) \in Nat /\ Len(cmds) <= QueueDepth
      /\ QueueDepth \in Nat /\ requests \in Nat /\ requests' = requests + 1
      /\ \A k \in 1 .. Len(cmds) : cmds[k] \in Command /\ cmds[k].id <= requests
  BY SMTT(30), StorageAssumption, ElementOfSeq
     DEF StorageInv, TypeOK, CommandTypeOK, OrderInv, CountTypeOK, WriteControl
<1>2. \A k \in 1 .. Len(cmds) : cmds[k].id \in Nat
  BY <1>1 DEF Command
<1>3. CASE cmds' = cmds
  BY <1>1, <1>2, <1>3
<1>4. CASE ~QueueFull /\ cmds' = Append(cmds, c)
  <2>1. c \in Command /\ c.id = requests'
    OBVIOUS
  <2>. HIDE DEF c
  <2>2. /\ cmds' \in Seq(Command) /\ Len(cmds') = Len(cmds) + 1
        /\ \A k \in 1 .. Len(cmds) : cmds'[k] = cmds[k]
        /\ cmds'[Len(cmds) + 1] = c
    BY <1>1, <1>4, <2>1
  <2>3. ASSUME NEW k \in 1 .. Len(cmds') PROVE cmds'[k].id <= requests'
    <3>1. CASE k = Len(cmds) + 1
      BY <1>1, <2>1, <2>2, <3>1
    <3>2. CASE k \in 1 .. Len(cmds)
      BY <1>1, <1>2, <2>2, <3>2
    <3>. QED
      BY <1>1, <2>2, <3>1, <3>2
  <2>. QED
    BY <1>1, <1>4, <2>2, <2>3 DEF QueueFull
<1>. QED
  BY <1>3, <1>4 DEF WriteControl

(* Who writes the queue and the requests' numbers.                         *)
CommandStep ==
    \/ TakeCommand \/ WriteAbort \/ WriteNonsense
    \/ \E op \in {"list", "fetch", "status"}, f \in Files \cup {None},
          offset \in Nat, length \in Nat :
             WriteControl(op, f, offset, length)

LEMMA OtherSteps ==
    ASSUME StorageInv, Step
    PROVE  \/ CommandStep
           \/ UNCHANGED <<cmds, abortedUpTo, requests>> /\ cmd' \in {cmd, NoCommand}
<1>1. CASE Sending
  BY <1>1 DEF Sending, ListEntry, SendSize, SendChunk, SendEnd, SendStatus, SendError, RxError,
     Return, sharedVars, threadVars
<1>2. CASE SilentStep
  BY <1>2 DEF SilentStep, CommandStep, ClearAbort, ListFails, ListEnds, StatFile, OpenFile,
     FetchAborted, ReadFails, FetchEnds, Connect, Subscribe, Unsubscribe, Record, vars,
     Return, sharedVars, threadVars, boundVars
<1>3. CASE DrainTake \/ DrainGive \/ Complete \/ Disconnect
  BY <1>3 DEF DrainTake, DrainGive, Complete, Disconnect, Return, sharedVars, threadVars, boundVars
<1>. QED
  BY <1>1, <1>2, <1>3, StepCases

LEMMA WriteControlRequest ==
    ASSUME StorageInv, NEW op \in {"list", "fetch", "status"}, NEW f \in Files \cup {None},
           NEW offset \in Nat, NEW length \in Nat,
           WriteControl(op, f, offset, length)
    PROVE  [op |-> op, file |-> f, offset |-> offset, length |-> length, id |-> requests']
              \in Command
<1>1. offset \in Nat /\ length \in Nat
  OBVIOUS
<1>2. requests' \in Nat
  BY DEF StorageInv, TypeOK, CountTypeOK, WriteControl
<1>. QED
  BY <1>1, <1>2 DEF Command

(* The queue, the command served and the order of the requests.            *)
LEMMA CommandInv ==
    ASSUME StorageInv, Step
    PROVE  /\ cmds' \in Seq(Command) /\ Len(cmds') <= QueueDepth
           /\ cmd' \in Command
           /\ abortedUpTo' <= requests'
           /\ cmd'.id <= requests'
           /\ \A k \in 1 .. Len(cmds') : cmds'[k].id <= requests'
<1>0. /\ cmds \in Seq(Command) /\ Len(cmds) \in Nat /\ Len(cmds) <= QueueDepth
      /\ QueueDepth \in Nat /\ requests \in Nat /\ abortedUpTo \in Nat
      /\ abortedUpTo <= requests /\ cmd \in Command /\ cmd.id \in Nat /\ cmd.id <= requests
      /\ \A k \in 1 .. Len(cmds) : cmds[k].id <= requests
  BY StorageAssumption DEF StorageInv, TypeOK, CommandTypeOK, OrderInv, CountTypeOK, Command
<1>1. CASE UNCHANGED <<cmds, abortedUpTo, requests>> /\ cmd' \in {cmd, NoCommand}
  <2>1. NoCommand \in Command /\ NoCommand.id = 0
    BY DEF NoCommand, Command
  <2>. QED
    BY <1>0, <1>1, <2>1
<1>2. CASE TakeCommand
  <2>1. /\ Head(cmds) \in Command /\ Tail(cmds) \in Seq(Command)
        /\ Len(Tail(cmds)) = Len(cmds) - 1 /\ Len(cmds) > 0
        /\ \A i \in 1 .. Len(Tail(cmds)) : Tail(cmds)[i] = cmds[i + 1]
    BY <1>0, <1>2, HeadTailProperties, EmptySeq DEF TakeCommand
  <2>2. Head(cmds) = cmds[1] /\ Head(cmds).id <= requests
    BY <1>0, <2>1
  <2>3. /\ cmd' = Head(cmds) /\ cmds' = Tail(cmds) /\ requests' = requests
        /\ abortedUpTo' = abortedUpTo
    BY <1>2 DEF TakeCommand, boundVars
  <2>4. ASSUME NEW k \in 1 .. Len(cmds') PROVE cmds'[k].id <= requests'
    <3>1. k \in 1 .. Len(Tail(cmds)) /\ k + 1 \in 1 .. Len(cmds)
      BY <1>0, <2>1, <2>3
    <3>. QED
      BY <1>0, <2>1, <2>3, <3>1
  <2>. QED
    BY <1>0, <2>1, <2>2, <2>3, <2>4
<1>3. CASE WriteAbort
  <2>1. cmds' = <<>> /\ Len(cmds') = 0 /\ cmds' \in Seq(Command)
    BY <1>3 DEF WriteAbort
  <2>2. cmd' = cmd /\ requests' = requests /\ abortedUpTo' = requests
    BY <1>3 DEF WriteAbort, threadVars, boundVars
  <2>. QED
    BY <1>0, <2>1, <2>2
<1>4. CASE WriteNonsense
  <2>1. /\ cmds' = cmds /\ cmd' = cmd /\ abortedUpTo' = abortedUpTo
        /\ requests' = requests + 1
    BY <1>4 DEF WriteNonsense, threadVars
  <2>2. ASSUME NEW k \in 1 .. Len(cmds) PROVE cmds[k].id \in Nat
    <3>1. cmds[k] \in Command
      BY <1>0, ElementOfSeq
    <3>. QED
      BY <3>1 DEF Command
  <2>. QED
    BY <1>0, <2>1, <2>2
<1>5. ASSUME NEW op \in {"list", "fetch", "status"}, NEW f \in Files \cup {None},
             NEW offset \in Nat, NEW length \in Nat,
             WriteControl(op, f, offset, length)
      PROVE  /\ cmds' \in Seq(Command) /\ Len(cmds') <= QueueDepth
             /\ cmd' \in Command
             /\ abortedUpTo' <= requests'
             /\ cmd'.id <= requests'
             /\ \A k \in 1 .. Len(cmds') : cmds'[k].id <= requests'
  <2>1. cmd' = cmd /\ abortedUpTo' = abortedUpTo /\ requests' = requests + 1
    BY <1>5 DEF WriteControl, threadVars
  <2>2. /\ cmds' \in Seq(Command) /\ Len(cmds') <= QueueDepth
        /\ \A k \in 1 .. Len(cmds') : cmds'[k].id <= requests'
    BY <1>5, WriteControlRequest, RequestType
  <2>. QED
    BY <1>0, <2>1, <2>2
<1>. QED
  BY <1>1, <1>2, <1>3, <1>4, <1>5, OtherSteps DEF CommandStep
(***************************************************************************)
(* The storage thread's own variables, and the counters.                   *)
(***************************************************************************)
LEMMA ThreadTypeInv == StorageInv /\ Step => ThreadTypeOK'
<1>. SUFFICES ASSUME StorageInv, Step PROVE ThreadTypeOK'
  OBVIOUS
<1>. USE DEF ThreadTypeOK, At, Goto, fetchVars
<1>0. ThreadTypeOK /\ CardTypeOK /\ cmd \in Command /\ OrderInv
  BY DEF StorageInv, TypeOK, CommandTypeOK
<1>1. Return => ThreadTypeOK'
  BY DEF Return, PC
<1>2. CASE Sending
  <2>1. CASE \E f \in Files : ListEntry(f)
    BY <1>0, <2>1 DEF ListEntry, PC
  <2>2. CASE SendSize
    BY <1>0, <2>2 DEF SendSize, PC
  <2>3. CASE SendChunk
    BY <1>0, <2>3 DEF SendChunk, PC
  <2>4. CASE SendEnd \/ SendStatus
    BY <1>0, <2>4 DEF SendEnd, SendStatus, PC
  <2>5. CASE SendError
    BY <1>1, <2>5 DEF SendError
  <2>6. CASE RxError
    BY <1>0, <2>6 DEF RxError, threadVars
  <2>. QED
    BY <1>2, <2>1, <2>2, <2>3, <2>4, <2>5, <2>6 DEF Sending
<1>3. CASE TakeCommand \/ ListFails \/ ListEnds \/ ReadFails \/ FetchEnds
  BY <1>0, <1>3 DEF TakeCommand, ListFails, ListEnds, ReadFails, FetchEnds, PC
<1>4. CASE ClearAbort
  BY <1>0, <1>4 DEF ClearAbort, Opened, PC, CardTypeOK
<1>5. CASE StatFile
  <2>1. cmd.offset \in Nat
    BY <1>0 DEF Command
  <2>2. CASE /\ cmd.file \in DOMAIN card /\ size' = card[cmd.file]
             /\ next' = Smaller(cmd.offset, size') /\ sent' = 0
             /\ Goto("open")
    BY <1>0, <1>5, <2>1, <2>2 DEF StatFile, PC, CardTypeOK, Smaller
  <2>3. CASE UNCHANGED <<size, next, sent>> /\ Goto("error")
    BY <1>0, <1>5, <2>3 DEF StatFile, PC
  <2>. QED
    BY <1>5, <2>2, <2>3 DEF StatFile
<1>6. CASE OpenFile
  BY <1>0, <1>6 DEF OpenFile, PC, CardTypeOK, OrderInv
<1>7. CASE FetchAborted \/ DrainGive
  BY <1>1, <1>7 DEF FetchAborted, DrainGive
<1>8. CASE DrainTake
  BY <1>0, <1>8 DEF DrainTake, PC
<1>9. CASE UNCHANGED threadVars
  BY <1>0, <1>9 DEF threadVars
<1>. QED
  BY <1>2, <1>3, <1>4, <1>5, <1>6, <1>7, <1>8, <1>9, StepCases
     DEF SilentStep, WriteControl, WriteNonsense, WriteAbort, Connect, Subscribe, Unsubscribe,
         Record, Complete, Disconnect, vars

LEMMA CountTypeInv == StorageInv /\ Step => CountTypeOK' /\ abort' \in BOOLEAN
<1>. SUFFICES ASSUME StorageInv, Step PROVE CountTypeOK' /\ abort' \in BOOLEAN
  OBVIOUS
<1>. USE DEF CountTypeOK, Fault, NoFault, Stalled, sharedVars, boundVars
<1>0. CountTypeOK /\ abort \in BOOLEAN
  BY DEF StorageInv, TypeOK, CommandTypeOK
<1>1. CASE Sending
  <2>1. CASE \E f \in Files : ListEntry(f)
    BY <1>0, <2>1 DEF ListEntry, NotifyFails
  <2>2. CASE SendSize \/ SendChunk
    BY <1>0, <2>2 DEF SendSize, SendChunk, NotifyFails
  <2>3. CASE SendEnd \/ SendStatus \/ SendError
    BY <1>0, <2>3 DEF SendEnd, SendStatus, SendError, Answer, NotifyFails
  <2>4. CASE RxError
    BY <1>0, <2>4 DEF RxError, NotifyFails
  <2>. QED
    BY <1>1, <2>1, <2>2, <2>3, <2>4 DEF Sending
<1>2. CASE TakeCommand \/ ClearAbort \/ ListFails \/ ListEnds
  <2>1. UNCHANGED <<rx, requests, links, abortedUpTo>>
    BY <1>2 DEF TakeCommand, ClearAbort, ListFails, ListEnds
  <2>2. abort' \in BOOLEAN
    <3>1. abort' = abort \/ abort' = FALSE
      BY <1>2 DEF TakeCommand, ClearAbort, ListFails, ListEnds
    <3>. QED
      BY <1>0, <3>1, Zenon
  <2>3. faults' \in {faults, faults + 1}
    BY <1>2 DEF TakeCommand, ClearAbort, ListFails, ListEnds
  <2>. QED
    BY <1>0, <2>1, <2>2, <2>3
<1>3. CASE StatFile \/ OpenFile \/ FetchAborted \/ ReadFails \/ FetchEnds
  BY <1>0, <1>3 DEF StatFile, OpenFile, FetchAborted, ReadFails, FetchEnds
<1>4. ASSUME NEW op, NEW f, NEW offset, NEW length, WriteControl(op, f, offset, length)
      PROVE  CountTypeOK' /\ abort' \in BOOLEAN
  <2>1. requests' \in Nat /\ rx' \in {rx, requests'}
    BY <1>0, <1>4 DEF WriteControl
  <2>. QED
    BY <1>0, <1>4, <2>1 DEF WriteControl
<1>5. CASE WriteNonsense
  BY <1>0, <1>5 DEF WriteNonsense
<1>6. CASE WriteAbort
  <2>1. abort' \in BOOLEAN
    BY <1>6 DEF WriteAbort
  <2>. QED
    BY <1>0, <1>6, <2>1 DEF WriteAbort
<1>7. CASE Connect
  BY <1>0, <1>7 DEF Connect
<1>8. CASE Subscribe \/ Unsubscribe
  BY <1>0, <1>8 DEF Subscribe, Unsubscribe
<1>9. CASE DrainTake
  BY <1>0, <1>9 DEF DrainTake
<1>10. CASE DrainGive \/ Complete \/ Disconnect \/ Record \/ UNCHANGED vars
  BY <1>0, <1>10 DEF DrainGive, Complete, Disconnect, Record, vars
<1>. QED
  BY <1>1, <1>2, <1>3, <1>4, <1>5, <1>6, <1>7, <1>8, <1>9, <1>10, StepCases DEF SilentStep

(* What fs_stat found is still there when it is opened.                    *)
LEMMA OpenInv ==
    ASSUME StorageInv, Step, spc' = "open"
    PROVE  cmd'.file \in DOMAIN card'
<1>0. DOMAIN card \subseteq DOMAIN card'
  BY CardTypeInv
<1>1. CASE StatFile
  <2>1. cmd' = cmd
    BY <1>1 DEF StatFile
  <2>. QED
    BY <1>0, <1>1, <2>1 DEF StatFile, Goto
<1>2. CASE spc = "open" /\ cmd' = cmd
  BY <1>0, <1>2 DEF StorageInv, OrderInv
<1>3. CASE Sending
  BY <1>2, <1>3 DEF Sending, ListEntry, SendSize, SendChunk, SendEnd, SendStatus, SendError,
     RxError, Return, Goto, threadVars
<1>4. CASE SilentStep
  BY <1>1, <1>2, <1>4 DEF SilentStep, TakeCommand, ClearAbort, ListFails, ListEnds, OpenFile,
     FetchAborted, ReadFails, FetchEnds, WriteControl, WriteNonsense, WriteAbort, Connect,
     Subscribe, Unsubscribe, Record, vars, Return, Goto, Opened, threadVars
<1>5. CASE DrainTake \/ DrainGive \/ Complete \/ Disconnect
  BY <1>2, <1>5 DEF DrainTake, DrainGive, Complete, Disconnect, Return, Goto, threadVars
<1>. QED
  BY <1>3, <1>4, <1>5, StepCases

(***************************************************************************)
(* The theorems.                                                           *)
(***************************************************************************)
LEMMA InitStorageInv == Init => StorageInv
<1>. SUFFICES ASSUME Init PROVE StorageInv
  OBVIOUS
<1>1. NoCommand \in Command /\ NoCommand.id = 0
  BY DEF NoCommand, Command
<1>2. NotifyTypeOK
  <2>1. <<>> \in Seq(Notification) /\ Pipeline \in Nat
    BY StorageAssumption, EmptySeq
  <2>2. steady \in BOOLEAN
    BY DEF Init
  <2>3. /\ credits \in 0 .. Pipeline /\ drained \in 0 .. Pipeline /\ lost \in Nat
        /\ link = "down" /\ {air, out} \subseteq Seq(Notification)
    BY <2>1 DEF Init
  <2>. QED
    BY <2>2, <2>3 DEF NotifyTypeOK
<1>3. CommandTypeOK
  <2>1. <<>> \in Seq(Command) /\ Len(<<>>) = 0 /\ QueueDepth \in Nat
    BY StorageAssumption, EmptySeq
  <2>2. abort \in BOOLEAN
    BY DEF Init
  <2>3. /\ cmds \in Seq(Command) /\ Len(cmds) <= QueueDepth
        /\ cmd \in Command /\ abortedUpTo <= requests
    BY <1>1, <2>1 DEF Init
  <2>. QED
    BY <2>2, <2>3 DEF CommandTypeOK
<1>4. ThreadTypeOK /\ CountTypeOK
  BY DEF Init, ThreadTypeOK, CountTypeOK, PC
<1>5. CardTypeOK
  BY DEF Init, CardTypeOK
<1>6. OrderInv
  BY <1>1 DEF Init, OrderInv
<1>. QED
  BY <1>2, <1>3, <1>4, <1>5, <1>6 DEF StorageInv, TypeOK

LEMMA NextStorageInv == StorageInv /\ Step => StorageInv'
<1>. SUFFICES ASSUME StorageInv, Step PROVE StorageInv'
  OBVIOUS
<1>1. NotifyTypeOK' /\ ThreadTypeOK' /\ CardTypeOK' /\ CountTypeOK'
  BY NotifyTypeInv, ThreadTypeInv, CardTypeInv, CountTypeInv
<1>2. CommandTypeOK'
  BY CommandInv, CountTypeInv DEF CommandTypeOK
<1>3. OrderInv'
  BY CommandInv, OpenInv DEF OrderInv
<1>. QED
  BY <1>1, <1>2, <1>3 DEF StorageInv, TypeOK

(* An abort flag that a handler sees belongs to its request or a later one *)
LEMMA AbortInductive ==
    StorageInv /\ AbortHitsOlder /\ Step => AbortHitsOlder'
<1>. SUFFICES ASSUME StorageInv, AbortHitsOlder, Step,
                     abort', spc' \notin {"wait", "clear"}
              PROVE  cmd'.id <= abortedUpTo'
  BY DEF AbortHitsOlder
<1>1. CASE WriteAbort
  BY <1>1 DEF WriteAbort, StorageInv, OrderInv, threadVars
<1>2. CASE /\ abort' = abort /\ abortedUpTo' = abortedUpTo /\ cmd' = cmd
           /\ spc \notin {"wait", "clear"}
  BY <1>2 DEF AbortHitsOlder
<1>3. CASE Sending
  BY <1>2, <1>3 DEF Sending, ListEntry, SendSize, SendChunk, SendEnd, SendStatus, SendError,
     RxError, Return, At, Goto, sharedVars, threadVars
<1>4. CASE SilentStep
  BY <1>1, <1>2, <1>4 DEF SilentStep, TakeCommand, ClearAbort, ListFails, ListEnds, StatFile, OpenFile,
     FetchAborted, ReadFails, FetchEnds, WriteControl, WriteNonsense, Connect,
     Subscribe, Unsubscribe, Record, vars, Return, At, Goto, sharedVars, threadVars
<1>5. CASE DrainTake \/ DrainGive \/ Complete \/ Disconnect
  BY <1>2, <1>5 DEF DrainTake, DrainGive, Complete, Disconnect, Return, At, Goto, sharedVars,
     threadVars
<1>. QED
  BY <1>3, <1>4, <1>5, StepCases

(***************************************************************************)
(* FETCH.  Where the transfer stands, by the place of the thread: it has   *)
(* read `sent` chunks from First on, and before END all of the window.     *)
(***************************************************************************)
FetchControl ==
    /\ steady => link = "subscribed"
    /\ spc \in {"wait", "status"} => cmd.op = "status"
    /\ spc \in {"stat", "open", "size", "loop"} => cmd.op = "fetch"
    /\ spc = "list" => cmd.op = "list"
    /\ spc = "open" => size <= card[cmd.file]
    /\ spc \in {"size", "loop"} => size <= eof
    /\ spc \in {"open", "size"} => sent = 0
    /\ cmd.op = "fetch" /\ spc \in {"open", "size", "loop", "end", "drain"} =>
          next = First + sent
    /\ cmd.op = "fetch" /\ spc \in {"loop", "end", "drain"} /\ cmd.length # 0 =>
          sent <= cmd.length
    /\ cmd.op = "fetch" /\ spc \in {"end", "drain"} => sent >= Window

(* And what of it was sent, to a phone that has stayed subscribed.         *)
Contiguous ==
    /\ {out[k].arg : k \in Chunks(cmd.id)} = First .. next - 1
    /\ \A j, k \in Chunks(cmd.id) : j < k => out[j].arg < out[k].arg

FetchChunks ==
    cmd.op = "fetch" /\ steady =>
       /\ spc \in {"clear", "stat", "open", "size"} => Chunks(cmd.id) = {}
       /\ spc \in {"loop", "end", "drain"} => Contiguous

FetchInv == FetchControl /\ FetchChunks

LEMMA FetchFacts ==
    ASSUME StorageInv
    PROVE  /\ {size, eof, next, sent, cmd.offset, cmd.length} \subseteq Nat
           /\ First \in Nat /\ First <= size /\ Window \in Nat
           /\ Window <= size - First /\ (cmd.length # 0 => Window <= cmd.length)
<1>1. {size, eof, next, sent, cmd.offset, cmd.length} \subseteq Nat
  BY DEF StorageInv, TypeOK, ThreadTypeOK, CommandTypeOK, Command
<1>. QED
  BY <1>1 DEF First, Window, Smaller

(* While the file is read, only the recorder changes the card, and sizes   *)
(* it has committed only grow.                                             *)
LEMMA CardGrows ==
    ASSUME StorageInv, Step, NEW f \in DOMAIN card
    PROVE  f \in DOMAIN card' /\ card'[f] >= card[f]
<1>1. DOMAIN card \subseteq DOMAIN card' /\ card[f] \in Nat
  BY CardTypeInv DEF StorageInv, TypeOK, CardTypeOK
<1>2. CASE card' = card
  BY <1>1, <1>2
<1>3. CASE Record
  <2>1. CASE \E g \in Files \ DOMAIN card :
                card' = [h \in DOMAIN card \cup {g} |-> IF h = g THEN 0 ELSE card[h]]
    BY <1>1, <2>1
  <2>2. CASE current # None /\ card' = [card EXCEPT ![current] = @ + 1]
    BY <1>1, <2>2
  <2>. QED
    BY <1>2, <1>3, <2>1, <2>2 DEF Record
<1>. QED
  BY <1>2, <1>3, CardSteps DEF cardVars

LEMMA FetchControlInv ==
    ASSUME StorageInv, FetchControl, Step
    PROVE  FetchControl'
<1>0. /\ {size, eof, next, sent, cmd.offset, cmd.length} \subseteq Nat
      /\ First \in Nat /\ First <= size /\ Window \in Nat
      /\ Window <= size - First /\ (cmd.length # 0 => Window <= cmd.length)
  BY FetchFacts
<1>. USE DEF FetchControl, At, Goto, fetchVars, sharedVars
<1>1. Return /\ UNCHANGED <<steady, link>> => FetchControl'
  BY DEF Return, NoCommand
<1>2. ASSUME UNCHANGED <<spc, cmd, size, eof, next, sent>>, steady' => link' = "subscribed"
      PROVE  FetchControl'
  <2>1. First' = First /\ Window' = Window
    BY <1>2 DEF First, Window
  <2>2. CASE spc = "open"
    <3>1. card'[cmd.file] >= card[cmd.file] /\ card[cmd.file] \in Nat /\ card'[cmd.file] \in Nat
      BY <2>2, CardGrows, CardTypeInv DEF StorageInv, TypeOK, OrderInv, CardTypeOK
    <3>. QED
      BY <1>0, <1>2, <2>1, <2>2, <3>1
  <2>3. CASE spc # "open"
    BY <1>2, <2>1, <2>3
  <2>. QED
    BY <2>2, <2>3
<1>3. CASE Sending
  <2>1. CASE \E f \in Files : ListEntry(f)
    BY <1>2, <2>1 DEF ListEntry
  <2>2. CASE SendSize
    <3>1. spc = "size" /\ spc' \in {"loop", "error"} /\ UNCHANGED <<cmd, fetchVars, steady, link>>
      BY <2>2 DEF SendSize
    <3>. QED
      BY <1>0, <3>1 DEF First
  <2>3. CASE SendChunk
    <3>1. /\ spc = "loop" /\ ~WindowFull /\ UNCHANGED <<cmd, size, eof, steady, link>>
          /\ \/ spc' = "loop" /\ next' = next + 1 /\ sent' = sent + 1
             \/ spc' = "error" /\ UNCHANGED <<next, sent>>
      BY <2>3 DEF SendChunk
    <3>. QED
      BY <1>0, <3>1 DEF First, WindowFull
  <2>4. CASE SendEnd
    <3>1. spc = "end" /\ spc' = "drain" /\ UNCHANGED <<cmd, fetchVars, steady, link>>
      BY <2>4 DEF SendEnd
    <3>. QED
      BY <1>0, <3>1 DEF First, Window
  <2>5. CASE SendStatus
    <3>1. spc = "status" /\ spc' = "drain" /\ UNCHANGED <<cmd, fetchVars, steady, link>>
      BY <2>5 DEF SendStatus
    <3>. QED
      BY <1>0, <3>1
  <2>6. CASE SendError
    BY <1>1, <2>6 DEF SendError
  <2>7. CASE RxError
    BY <1>2, <2>7 DEF RxError, threadVars
  <2>. QED
    BY <1>3, <2>1, <2>2, <2>3, <2>4, <2>5, <2>6, <2>7 DEF Sending
<1>4. CASE TakeCommand
  BY <1>4 DEF TakeCommand
<1>5. CASE ClearAbort
  <2>1. cmd.op \in {"list", "fetch", "status"}
    BY DEF StorageInv, TypeOK, CommandTypeOK, Command
  <2>. QED
    BY <1>5, <2>1 DEF ClearAbort, Opened
<1>6. CASE ListFails \/ ListEnds
  <2>1. spc = "list" /\ spc' \in {"end", "error"} /\ UNCHANGED <<cmd, steady, link>>
    BY <1>6 DEF ListFails, ListEnds
  <2>. QED
    BY <2>1
<1>7. CASE StatFile
  <2>1. CASE /\ cmd.file \in DOMAIN card
             /\ size' = card[cmd.file]
             /\ next' = Smaller(cmd.offset, size') /\ sent' = 0
             /\ Goto("open")
    <3>1. /\ spc = "stat" /\ UNCHANGED <<cmd, card, steady, link>> /\ card[cmd.file] \in Nat
      BY <1>7, <2>1 DEF StatFile, cardVars, StorageInv, TypeOK, CardTypeOK
    <3>2. next' = First' /\ First' \in Nat
      BY <1>0, <2>1, <3>1 DEF First, Smaller
    <3>3. size' = card'[cmd'.file] /\ size' \in Nat
      BY <2>1, <3>1
    <3>4. spc' = "open" /\ sent' = 0 /\ UNCHANGED <<cmd, steady, link>>
      BY <2>1, <3>1
    <3>5. size' <= card'[cmd'.file] /\ next' = First' + sent'
      BY <3>2, <3>3, <3>4
    <3>. QED
      BY <3>1, <3>4, <3>5
  <2>2. CASE Goto("error")
    BY <1>7, <2>2 DEF StatFile
  <2>. QED
    BY <1>7, <2>1, <2>2 DEF StatFile
<1>8. CASE OpenFile
  <2>1. /\ spc = "open" /\ UNCHANGED <<cmd, size, next, sent, steady, link>>
        /\ (eof' = card[cmd.file] /\ spc' = "size") \/ spc' = "error"
    BY <1>8 DEF OpenFile
  <2>. QED
    BY <1>0, <2>1 DEF First
<1>9. CASE FetchAborted
  BY <1>1, <1>9 DEF FetchAborted
<1>10. CASE ReadFails
  BY <1>10 DEF ReadFails
<1>11. CASE FetchEnds
  <2>1. /\ spc = "loop" /\ spc' = "end" /\ UNCHANGED <<cmd, fetchVars, steady, link>>
        /\ WindowFull \/ next >= eof
    BY <1>11 DEF FetchEnds
  <2>2. sent >= Window
    BY <1>0, <2>1 DEF WindowFull
  <2>. QED
    BY <1>0, <2>1, <2>2 DEF First, Window
<1>12. CASE DrainTake
  BY <1>2, <1>12 DEF DrainTake
<1>13. CASE DrainGive
  BY <1>1, <1>13 DEF DrainGive
<1>14. ASSUME NEW op, NEW f, NEW offset, NEW length, WriteControl(op, f, offset, length)
       PROVE  FetchControl'
  BY <1>2, <1>14 DEF WriteControl, threadVars
<1>15. CASE WriteNonsense \/ WriteAbort \/ Connect \/ Subscribe \/ Unsubscribe \/ Disconnect
  BY <1>2, <1>15 DEF WriteNonsense, WriteAbort, Connect, Subscribe, Unsubscribe, Disconnect, threadVars
<1>16. CASE Complete \/ Record \/ UNCHANGED vars
  BY <1>2, <1>16 DEF Complete, Record, vars, threadVars
<1>. QED
  BY <1>3, <1>4, <1>5, <1>6, <1>7, <1>8, <1>9, <1>10, <1>11, <1>12, <1>13, <1>14, <1>15, <1>16,
     StepCases DEF SilentStep

(* A message that is no DATA, sent or not, leaves the chunks as they are.  *)
LEMMA ChunksKept ==
    ASSUME StorageInv, NEW m \in Notification, m.tag # "data",
           out' \in {out, Append(out, m)}, UNCHANGED << cmd, next, size >>
    PROVE  /\ Chunks(cmd.id)' = Chunks(cmd.id)
           /\ Contiguous => Contiguous'
<1>1. out \in Seq(Notification) /\ Len(out) \in Nat
  BY DEF StorageInv, TypeOK, NotifyTypeOK
<1>2. Chunks(cmd.id)' = Chunks(cmd.id) /\ \A k \in Chunks(cmd.id) : out'[k] = out[k]
  <2>1. CASE out' = out
    BY <2>1 DEF Chunks
  <2>2. CASE out' = Append(out, m)
    <3>1. /\ Len(out') = Len(out) + 1 /\ out'[Len(out) + 1] = m
          /\ \A k \in 1 .. Len(out) : out'[k] = out[k]
      BY <1>1, <2>2
    <3>. QED
      BY <1>1, <3>1 DEF Chunks
  <2>. QED
    BY <2>1, <2>2
<1>. QED
  BY <1>2 DEF Contiguous, First

(* The next chunk goes to the end.                                         *)
LEMMA ChunkSent ==
    ASSUME StorageInv, FetchControl, Contiguous, spc = "loop", UNCHANGED << cmd, size >>,
           out' = Append(out, Msg("data", next)), next' = next + 1
    PROVE  Contiguous'
<1> DEFINE m == Msg("data", next)
<1>1. out \in Seq(Notification) /\ Len(out) \in Nat /\ m \in Notification
  BY MsgType DEF StorageInv, TypeOK, NotifyTypeOK
<1>2. m.tag = "data" /\ m.req = cmd.id /\ m.arg = next
  BY DEF Msg
<1>. HIDE DEF m
<1>3. /\ Len(out') = Len(out) + 1 /\ out'[Len(out) + 1] = m
      /\ \A k \in 1 .. Len(out) : out'[k] = out[k]
  BY <1>1 DEF m
<1>4. Chunks(cmd.id)' = Chunks(cmd.id) \cup {Len(out) + 1}
  BY <1>1, <1>2, <1>3 DEF Chunks
<1>5. Chunks(cmd.id) \subseteq 1 .. Len(out)
  BY DEF Chunks
<1>6. First \in Nat /\ next \in Nat /\ First <= next /\ First' = First
  <2>1. next = First + sent
    <3>1. cmd.op = "fetch"
      BY DEF FetchControl
    <3>. QED
      BY <3>1 DEF FetchControl
  <2>. QED
    BY <2>1, FetchFacts DEF First
<1>7. \A k \in Chunks(cmd.id) : out'[k] = out[k] /\ out[k].arg \in First .. next - 1
  BY <1>3, <1>5 DEF Contiguous
<1>8. {out'[k].arg : k \in Chunks(cmd.id)'} = {out[k].arg : k \in Chunks(cmd.id)} \cup {next}
  <2>1. out'[Len(out) + 1].arg = next
    BY <1>2, <1>3
  <2>2. ASSUME NEW k \in Chunks(cmd.id)' PROVE out'[k].arg \in {out[n].arg : n \in Chunks(cmd.id)} \cup {next}
    <3>1. CASE k \in Chunks(cmd.id)
      <4>1. out'[k].arg = out[k].arg
        BY <1>7, <3>1
      <4>2. out[k].arg \in {out[n].arg : n \in Chunks(cmd.id)}
        BY <3>1, Zenon
      <4>. QED
        BY <4>1, <4>2
    <3>2. CASE k = Len(out) + 1
      BY <2>1, <3>2
    <3>. QED
      BY <1>4, <3>1, <3>2
  <2>3. \A k \in Chunks(cmd.id) : out[k].arg \in {out'[n].arg : n \in Chunks(cmd.id)'}
    <3>. SUFFICES ASSUME NEW k \in Chunks(cmd.id)
                  PROVE  out[k].arg \in {out'[n].arg : n \in Chunks(cmd.id)'}
      OBVIOUS
    <3>1. k \in Chunks(cmd.id)' /\ out'[k].arg = out[k].arg
      BY <1>4, <1>7
    <3>. QED
      BY <3>1, Zenon
  <2>4. next \in {out'[n].arg : n \in Chunks(cmd.id)'}
    <3>1. Len(out) + 1 \in Chunks(cmd.id)'
      BY <1>4
    <3>. QED
      BY <2>1, <3>1, Zenon
  <2>. QED
    BY <2>2, <2>3, <2>4
<1>9. First' .. next' - 1 = First .. next - 1 \cup {next}
  <2>1. next' - 1 = next /\ next' \in Nat
    BY <1>6
  <2>. QED
    BY <1>6, <2>1
<1>10. ASSUME NEW j \in Chunks(cmd.id)', NEW k \in Chunks(cmd.id)', j < k
       PROVE  out'[j].arg < out'[k].arg
  <2>1. j \in Chunks(cmd.id) /\ j \in Nat
    BY <1>1, <1>4, <1>5, <1>10
  <2>2. CASE k = Len(out) + 1
    <3>1. out'[k].arg = next /\ out'[j] = out[j] /\ out[j].arg \in First .. next - 1
      BY <1>2, <1>3, <1>7, <2>1, <2>2
    <3>2. \A x \in First .. next - 1 : x < next
      BY <1>6
    <3>. QED
      BY <3>1, <3>2, Zenon
  <2>3. CASE k \in Chunks(cmd.id)
    BY <1>7, <1>10, <2>1, <2>3 DEF Contiguous
  <2>. QED
    BY <1>4, <2>2, <2>3
<1>. QED
  BY <1>6, <1>8, <1>9, <1>10 DEF Contiguous

LEMMA FetchChunksInv ==
    ASSUME StorageInv, FetchInv, Step
    PROVE  FetchChunks'
<1>. USE DEF FetchInv, FetchChunks, At, Goto, fetchVars, sharedVars
<1>1. Return => FetchChunks'
  BY DEF Return, NoCommand
<1>2. ASSUME NEW m \in Notification, m.tag # "data", Notify(m) \/ NotifyFails,
             UNCHANGED <<cmd, next, size, steady>>,
             \/ spc' = spc \/ spc' = "error"
             \/ {spc, spc'} \subseteq {"loop", "end", "drain"}
      PROVE  FetchChunks'
  <2>1. out' \in {out, Append(out, m)}
    BY <1>2 DEF Notify, NotifyFails, notifyVars
  <2>. QED
    BY <1>2, <2>1, ChunksKept
<1>3. ASSUME out' = out \/ (out' = <<>> /\ ~steady'), UNCHANGED <<cmd, next, size>>,
             steady' => steady,
             \/ spc' = spc \/ spc' = "error"
             \/ {spc, spc'} \subseteq {"clear", "stat", "open", "size"}
             \/ {spc, spc'} \subseteq {"loop", "end", "drain"}
      PROVE  FetchChunks'
  <2>1. CASE out' = out
    <3>1. Chunks(cmd.id)' = Chunks(cmd.id) /\ First' = First
      BY <1>3, <2>1 DEF Chunks, First
    <3>. QED
      BY <1>3, <2>1, <3>1 DEF Contiguous
  <2>. QED
    BY <1>3, <2>1
<1>4. CASE Sending
  <2>1. CASE \E f \in Files : ListEntry(f)
    <3>1. spc = "list" /\ cmd.op = "list" /\ cmd' = cmd
      BY <2>1 DEF ListEntry, FetchControl
    <3>. QED
      BY <3>1
  <2>2. CASE SendSize
    <3>1. CASE NotifyFails /\ spc' = "error"
      BY <1>2, <2>2, <3>1, MsgType DEF SendSize, Msg
    <3>2. CASE Notify(Msg("size", size)) /\ spc' = "loop"
      <4>1. spc = "size" /\ UNCHANGED <<cmd, fetchVars, steady>>
        BY <2>2 DEF SendSize
      <4>2. Msg("size", size) \in Notification /\ Msg("size", size).tag # "data"
        BY MsgType DEF Msg
      <4>3. out' \in {out, Append(out, Msg("size", size))}
        BY <3>2 DEF Notify, notifyVars
      <4>4. Chunks(cmd.id)' = Chunks(cmd.id)
        BY <4>1, <4>2, <4>3, ChunksKept
      <4>5. cmd.op = "fetch" /\ next = First /\ next' = First' /\ First \in Nat
        BY <4>1, FetchFacts DEF FetchControl, First
      <4>. QED
        BY <3>2, <4>1, <4>4, <4>5 DEF Contiguous
    <3>. QED
      BY <2>2, <3>1, <3>2 DEF SendSize
  <2>3. CASE SendChunk
    <3>1. CASE NotifyFails /\ UNCHANGED <<next, sent>> /\ spc' = "error"
      BY <3>1
    <3>2. CASE Notify(Msg("data", next)) /\ spc' = "loop" /\ next' = next + 1
      <4>1. spc = "loop" /\ UNCHANGED <<cmd, size, steady, link>>
        BY <2>3 DEF SendChunk
      <4>2. CASE link = "subscribed"
        BY <3>2, <4>1, <4>2, ChunkSent DEF Notify
      <4>3. CASE link # "subscribed"
        BY <4>1, <4>3 DEF FetchControl
      <4>. QED
        BY <4>2, <4>3
    <3>. QED
      BY <2>3, <3>1, <3>2 DEF SendChunk
  <2>4. CASE SendEnd \/ SendStatus
    <3>1. \E m \in Notification : m.tag # "data" /\ (Notify(m) \/ NotifyFails)
      BY <2>4, MsgType DEF SendEnd, SendStatus, Answer, Msg
    <3>2. UNCHANGED <<cmd, fetchVars, steady>> /\ spc' = "drain" /\ spc \in {"end", "status"}
      BY <2>4 DEF SendEnd, SendStatus
    <3>3. CASE spc = "end"
      BY <1>2, <3>1, <3>2, <3>3
    <3>4. CASE spc = "status"
      BY <3>2, <3>4 DEF FetchControl
    <3>. QED
      BY <3>2, <3>3, <3>4
  <2>5. CASE SendError
    BY <1>1, <2>5 DEF SendError
  <2>6. CASE RxError
    BY <1>2, <2>6, MsgType DEF RxError, threadVars
  <2>. QED
    BY <1>4, <2>1, <2>2, <2>3, <2>4, <2>5, <2>6 DEF Sending
<1>5. CASE TakeCommand
  BY <1>5, EmptySeq DEF TakeCommand, Chunks
<1>6. CASE ClearAbort
  <2>1. /\ spc = "clear" /\ UNCHANGED <<cmd, next, size, steady, out>>
        /\ spc' \in {"list", "stat", "status"}
    BY <1>6 DEF ClearAbort, Opened, notifyVars
  <2>2. cmd.op = "fetch" => spc' = "stat"
    BY <1>6 DEF ClearAbort, Opened
  <2>. QED
    BY <2>1, <2>2 DEF Chunks
<1>7. CASE ListFails \/ ListEnds
  <2>1. spc = "list" /\ cmd.op = "list" /\ cmd' = cmd
    BY <1>7 DEF ListFails, ListEnds, FetchControl
  <2>. QED
    BY <2>1
<1>8. CASE StatFile
  <2>1. spc = "stat" /\ spc' \in {"open", "error"} /\ UNCHANGED <<cmd, steady, out>>
    BY <1>8 DEF StatFile, notifyVars
  <2>. QED
    BY <2>1 DEF Chunks
<1>9. CASE OpenFile \/ ReadFails \/ FetchEnds
  <2>1. /\ UNCHANGED <<cmd, next, size, steady, out>>
        /\ \/ spc' = "error"
           \/ {spc, spc'} \subseteq {"clear", "stat", "open", "size"}
           \/ {spc, spc'} \subseteq {"loop", "end", "drain"}
    BY <1>9 DEF OpenFile, ReadFails, FetchEnds, notifyVars
  <2>. QED
    BY <1>3, <2>1
<1>10. CASE FetchAborted \/ DrainGive
  BY <1>1, <1>10 DEF FetchAborted, DrainGive
<1>11. CASE DrainTake
  BY <1>3, <1>11 DEF DrainTake
<1>12. ASSUME NEW op, NEW f, NEW offset, NEW length, WriteControl(op, f, offset, length)
       PROVE  FetchChunks'
  BY <1>3, <1>12 DEF WriteControl, threadVars, notifyVars
<1>13. CASE WriteNonsense \/ WriteAbort \/ Connect \/ Unsubscribe \/ Disconnect
  BY <1>3, <1>13 DEF WriteNonsense, WriteAbort, Connect, Unsubscribe, Disconnect, threadVars,
     notifyVars
<1>14. CASE Subscribe
  BY <1>3, <1>14 DEF Subscribe, threadVars, FetchControl
<1>15. CASE Complete \/ Record \/ UNCHANGED vars
  BY <1>3, <1>15 DEF Complete, Record, vars, threadVars, notifyVars
<1>. QED
  BY <1>4, <1>5, <1>6, <1>7, <1>8, <1>9, <1>10, <1>11, <1>12, <1>13, <1>14, <1>15, StepCases
     DEF SilentStep

LEMMA SpecStorageInv == Spec => []StorageInv
<1>. QED
  BY InitStorageInv, NextStorageInv, NextIsStep, PTL DEF Spec

(* Every variable keeps its type: the queue never holds more than          *)
(* QueueDepth commands, the semaphore no more than Pipeline credits, for   *)
(* every sequence of writes, completions, disconnects and failures.        *)
THEOREM StorageTypeOK == Spec => []TypeOK
<1>1. StorageInv => TypeOK
  BY DEF StorageInv
<1>. QED
  BY <1>1, SpecStorageInv, PTL

(* No path of the service loses a notification credit.                     *)
THEOREM StorageCreditsAccounted == Spec => []CreditsAccounted
<1>1. Init => CreditsAccounted
  BY StorageAssumption DEF Init, CreditsAccounted
<1>. QED
  BY <1>1, SpecStorageInv, CreditsInductive, NextIsStep, PTL DEF Spec

(* An ABORT never ends a transfer that was requested after it.             *)
THEOREM StorageAbortHitsOlder == Spec => []AbortHitsOlder
<1>1. Init => AbortHitsOlder
  BY DEF Init, AbortHitsOlder
<1>. QED
  BY <1>1, SpecStorageInv, AbortInductive, NextIsStep, PTL DEF Spec

(* A FETCH answers with one contiguous slice and, before END, with all of  *)
(* the window that FILE_SIZE announced, whatever is refused, fails, is     *)
(* aborted or recorded meanwhile, for as long as the phone is subscribed.  *)
THEOREM StorageFetchIsTheSlice == Spec => []FetchIsTheSlice
<1>1. Init => FetchInv
  BY DEF Init, FetchInv, FetchControl, FetchChunks, NoCommand
<1>2. StorageInv /\ FetchInv /\ [Next]_vars => FetchInv'
  BY FetchControlInv, FetchChunksInv, NextIsStep DEF FetchInv
<1>3. StorageInv /\ FetchInv => FetchIsTheSlice
  <2>. SUFFICES ASSUME StorageInv, FetchInv PROVE FetchIsTheSlice
    OBVIOUS
  <2>1. First \in Nat /\ sent \in Nat /\ Window \in Nat /\ cmd.length \in Nat
    BY FetchFacts
  <2>. QED
    BY <2>1 DEF FetchInv, FetchControl, FetchChunks, Contiguous, FetchIsTheSlice
<1>. QED
  BY <1>1, <1>2, <1>3, SpecStorageInv, PTL DEF Spec

-----------------------------------------------------------------------------
(***************************************************************************)
(* The sessions.  Every step of the composition is a step of the service,  *)
(* so StorageInv and FetchInv hold in it.                                  *)
(***************************************************************************)
SessionTypeOK ==
    /\ at \in [Clients -> {"closed", "idle", "listening", "waiting", "closing"}]
    /\ call \in [Clients -> Command]
    /\ heard \in [Clients -> Seq(Notification)]
    /\ announced \in [Clients -> Nat \cup Files \cup {None}]
    /\ outcome \in [Clients -> {"open", "ok", "error", "timeout"}]
    /\ alone \in [Clients -> BOOLEAN] /\ abandoned \in Nat

(* An answer under way: the notifications END, ERROR and STATUS finish it, *)
(* and after them the service sends nothing more for that request.         *)
Ending    == {"end", "error", "status"}
Settled   == air = <<>> /\ rx = 0 /\ cmds = <<>> /\ spc \in {"wait", "drain"}
Queued(r) == cmds = << r >> /\ air = <<>> /\ spc \in {"wait", "drain"}

(* What `out` holds for request r, as far as it has come.                  *)
From(r, committed)  == Smaller(r.offset, committed)
Whole(r, committed) ==
    IF r.length = 0 THEN committed - From(r, committed)
                    ELSE Smaller(r.length, committed - From(r, committed))

(* As many chunks as an END may follow: the file may have grown meanwhile. *)
Filled(r, committed, chunks) ==
    /\ chunks >= Whole(r, committed)
    /\ r.length # 0 => chunks <= r.length

FetchAnswer(r) ==
    \A k \in 1 .. Len(out) :
       /\ k = 1 => out[k].tag \in {"size", "error"}
       /\ k > 1 => out[k].tag \in {"data", "end", "error"}
       /\ out[k].tag = "size" => out[k].arg \in Nat
       /\ out[k].tag = "data" => out[k].arg = From(r, out[1].arg) + k - 2
       /\ out[k].tag = "end"  => Filled(r, out[1].arg, k - 2)

FetchProgress ==
    /\ spc \in {"stat", "open", "size"} => out = <<>>
    /\ spc \in {"loop", "end"} => Len(out) = sent + 1 /\ out[1].arg = size

ListAnswer ==
    /\ \A k \in 1 .. Len(out) : out[k].tag \in {"entry", "end", "error"}
    /\ \A j, k \in 1 .. Len(out) :
          out[j].tag = "entry" /\ out[k].tag = "entry" /\ out[j].arg = out[k].arg => j = k

ListProgress ==
    spc = "list" => \A k \in 1 .. Len(out) : out[k].arg \notin rest

Answering(r) ==
    /\ \A k \in 1 .. Len(out) : out[k].req = r.id
    /\ \A k \in 1 .. Len(out) : out[k].tag \in Ending => k = Len(out) /\ spc \in {"drain", "wait"}
    /\ spc = "clear" => out = <<>>
    /\ r.op = "fetch" => FetchAnswer(r) /\ FetchProgress
    /\ r.op = "list"  => ListAnswer /\ ListProgress

(* What session c has heard of it: all but what is still in the air.       *)
Delivered == Len(out) - Len(air)
InFlight  == Len(air) <= Len(out) /\ \A k \in 1 .. Len(air) : air[k] = out[Delivered + k]

Collected(c) ==
    /\ \A k \in 1 .. Delivered : ~Completes(c, out[k])
    /\ call[c].op = "fetch" =>
          /\ Delivered = 0 => heard[c] = <<>>
          /\ Delivered > 0 =>
                /\ announced[c] = out[1].arg /\ Len(heard[c]) = Delivered - 1
                /\ \A k \in 1 .. Delivered - 1 : heard[c][k] = out[k + 1]
    /\ call[c].op = "list" =>
          /\ Len(heard[c]) = Delivered
          /\ \A k \in 1 .. Delivered : heard[c][k] = out[k]

Served(c) ==
    /\ cmds = <<>> /\ (spc = "wait" \/ (cmd = call[c] /\ steady))
    /\ Answering(call[c]) /\ InFlight /\ Collected(c)

(* A session that is undisturbed since it began on a quiet device.         *)
Undisturbed(c) ==
    /\ Listens(c) => link = "subscribed" /\ outcome[c] = "open" /\ rx = 0
    /\ at[c] = "listening" => Settled /\ heard[c] = <<>>
    /\ at[c] = "waiting" => (Queued(call[c]) /\ heard[c] = <<>>) \/ Served(c)
    /\ ~Listens(c) /\ outcome[c] = "ok" =>
          /\ call[c].op = "fetch" => Slice(c)
          /\ call[c].op = "list" => OwnList(c)

AloneInv == \A c \in Clients : alone[c] => Undisturbed(c)

(* The only session that has ever written a request, and given none up.    *)
Only(c) == abandoned = 0 /\ \A d \in Clients \ {c} : call[d].id = 0

Underway(c) ==
    \/ Queued(call[c])
    \/ /\ cmds = <<>> /\ (spc \in {"wait", "drain"} \/ cmd = call[c])
       /\ \A k \in 1 .. Len(air) :
             air[k].tag \in Ending => k = Len(air) /\ spc \in {"drain", "wait"}

OnlyAt(c) ==
    /\ at[c] # "waiting" => Settled
    /\ at[c] \in {"listening", "waiting"} => outcome[c] = "open"
    /\ at[c] = "waiting" => rx = 0 /\ Underway(c)
    /\ at[c] = "listening" /\ link = "subscribed" /\ (\A d \in Clients \ {c} : at[d] = "closed")
          => alone[c]

OnlyInv == \A c \in Clients : Only(c) => OnlyAt(c)

LEMMA ThreadStep ==
    ASSUME StorageThread \/ RxError
    PROVE  Step
<1>1. CASE TakeCommand \/ ClearAbort \/ ListFails \/ ListEnds \/ StatFile \/ OpenFile
  BY <1>1 DEF Step, SilentStep, TakeCommand, ClearAbort, ListFails, ListEnds, StatFile, OpenFile
<1>2. CASE FetchAborted \/ ReadFails \/ FetchEnds \/ DrainTake \/ DrainGive
  BY <1>2 DEF Step, SilentStep, FetchAborted, ReadFails, FetchEnds, DrainTake, DrainGive
<1>3. CASE Sending
  BY <1>3 DEF Step, Sending, ListEntry, SendSize, SendChunk, SendEnd, SendStatus, SendError, RxError
<1>. QED
  BY <1>1, <1>2, <1>3 DEF StorageThread, Sending

LEMMA RequestFields ==
    ASSUME SessionTypeOK, NEW c \in Clients
    PROVE  /\ call[c] \in Command
           /\ call[c].op \in {"list", "fetch", "status"} /\ call[c].file \in Files \cup {None}
           /\ call[c].offset \in Nat /\ call[c].length \in Nat /\ call[c].id \in Nat
BY DEF SessionTypeOK, Command

LEMMA SessionIsStep ==
    ASSUME SessionTypeOK, [SessionNext]_sessionVars
    PROVE  Step
<1>1. CASE UNCHANGED vars \/ Record
  BY <1>1 DEF Step, SilentStep
<1>2. CASE Device
  BY <1>2, ThreadStep DEF Device
<1>3. CASE Complete \/ Connect \/ Disconnect \/ Subscribe \/ Unsubscribe \/ WriteAbort
  BY <1>3 DEF Step, SilentStep, Complete, Connect, Disconnect, Subscribe, Unsubscribe, WriteAbort
<1>4. ASSUME NEW c \in Clients, SendRequest(c)
      PROVE  Step
  <2>1. WriteControl(call[c].op, call[c].file, call[c].offset, call[c].length)
    BY <1>4 DEF SendRequest
  <2>2. SilentStep
    BY <2>1, RequestFields DEF SilentStep
  <2>. QED
    BY <2>2 DEF Step
<1>5. ASSUME NEW c \in Clients, Client(c)
      PROVE  Step
  BY <1>1, <1>3, <1>4, <1>5
     DEF Client, Open, SendThrows, TimesOut, CloseAbort, CloseUnsubscribe, Begin
<1>. QED
  BY <1>1, <1>2, <1>3, <1>5 DEF SessionNext, Recording, Deliver, Link, sessionVars

LEMMA SessionTypeInv ==
    ASSUME StorageInv, SessionTypeOK, [SessionNext]_sessionVars
    PROVE  SessionTypeOK'
<1>. USE DEF SessionTypeOK, Is, Put, OthersDisturbed
<1>1. CASE UNCHANGED clientVars
  BY <1>1 DEF clientVars, callVars
<1>2. CASE Deliver
  <2>1. air # <<>> /\ air \in Seq(Notification)
    BY <1>2 DEF Deliver, Complete, StorageInv, TypeOK, NotifyTypeOK
  <2>2. Head(air) \in Notification /\ Head(air).arg \in Nat \cup Files \cup {None}
    <3>1. Head(air) \in Notification
      BY <2>1, HeadTailProperties
    <3>. QED
      BY <3>1 DEF Notification
  <2>3. \A c \in Clients : Append(heard[c], Head(air)) \in Seq(Notification)
    BY <2>2
  <2>4. /\ at' \in [Clients -> {"closed", "idle", "listening", "waiting", "closing"}]
        /\ heard' \in [Clients -> Seq(Notification)]
        /\ announced' \in [Clients -> Nat \cup Files \cup {None}]
        /\ outcome' \in [Clients -> {"open", "ok", "error", "timeout"}]
    BY <1>2, <2>2, <2>3 DEF Deliver, Hear
  <2>. QED
    BY <1>2, <2>4 DEF Deliver
<1>3. CASE Link
  BY <1>3 DEF Link, callVars
<1>4. ASSUME NEW c \in Clients, Client(c)
      PROVE  SessionTypeOK'
  <2>1. CASE SendRequest(c)
    <3>1. requests' \in Nat
      BY <2>1 DEF SendRequest, WriteControl, StorageInv, TypeOK, CountTypeOK
    <3>2. call' \in [Clients -> Command]
      BY <2>1, <3>1, RequestFields DEF SendRequest, Command
    <3>. QED
      BY <2>1, <3>2 DEF SendRequest
  <2>2. ASSUME NEW r \in Calls, Begin(c, r)
        PROVE  SessionTypeOK'
    <3>1. r \in Command /\ call[c].id \in Nat
      BY SessionAssumption, RequestFields
    <3>2. call' \in [Clients -> Command]
      BY <2>2, <3>1 DEF Begin, Command
    <3>3. heard' \in [Clients -> Seq(Notification)] /\ Quiet \in BOOLEAN
      BY <2>2 DEF Begin, Quiet
    <3>. QED
      BY <2>2, <3>2, <3>3 DEF Begin
  <2>3. CASE Open(c)
    BY <2>3 DEF Open, callVars
  <2>4. CASE SendThrows(c) \/ TimesOut(c)
    <3>1. CASE SendThrows(c)
      BY <3>1 DEF SendThrows
    <3>2. CASE TimesOut(c)
      BY <3>2 DEF TimesOut, GiveUp
    <3>. QED
      BY <2>4, <3>1, <3>2
  <2>5. CASE CloseAbort(c) \/ CloseUnsubscribe(c)
    <3>1. alone' \in [Clients -> BOOLEAN]
      BY <2>5, Zenon DEF CloseAbort, CloseUnsubscribe
    <3>2. at' \in [Clients -> {"closed", "idle", "listening", "waiting", "closing"}]
      BY <2>5 DEF CloseAbort, CloseUnsubscribe
    <3>3. abandoned' \in Nat /\ UNCHANGED callVars
      BY <2>5 DEF CloseAbort, CloseUnsubscribe, GiveUp
    <3>. QED
      BY <3>1, <3>2, <3>3 DEF callVars
  <2>. QED
    BY <1>4, <2>1, <2>2, <2>3, <2>4, <2>5 DEF Client
<1>. QED
  BY <1>1, <1>2, <1>3, <1>4 DEF SessionNext, Device, Recording, sessionVars

(***************************************************************************)
(* The storage thread goes on with the answer to request r.                *)
(***************************************************************************)
NotifiedOrNot(m) ==
    \/ UNCHANGED <<out, air>>
    \/ out' = Append(out, m) /\ air' = Append(air, m)

LEMMA Subscribed ==
    ASSUME NEW m, link = "subscribed", Notify(m) \/ NotifyFails
    PROVE  NotifiedOrNot(m)
BY DEF Notify, NotifyFails, NotifiedOrNot, notifyVars

LEMMA Longer ==
    ASSUME StorageInv, NEW m \in Notification, out' = Append(out, m)
    PROVE  /\ Len(out) \in Nat /\ Len(out') = Len(out) + 1 /\ out'[Len(out) + 1] = m
           /\ \A k \in 1 .. Len(out) : out'[k] = out[k]
           /\ \A k \in 1 .. Len(out') : k \in 1 .. Len(out) \/ k = Len(out) + 1
<1>1. out \in Seq(Notification) /\ Len(out) \in Nat
  BY DEF StorageInv, TypeOK, NotifyTypeOK
<1>2. Len(out') = Len(out) + 1 /\ out'[Len(out) + 1] = m /\ \A k \in 1 .. Len(out) : out'[k] = out[k]
  BY <1>1
<1>. QED
  BY <1>1, <1>2

(* One more message: what must hold of it, given where the thread was and  *)
(* where it goes.                                                          *)
LEMMA AnswerGrows ==
    ASSUME StorageInv, NEW r \in Command, Answering(r), NEW m \in Notification,
           out' = Append(out, m), spc \notin {"drain", "wait", "clear"}, spc' # "clear",
           m.req = r.id,
           m.tag \in Ending => spc' \in {"drain", "wait"},
           r.op = "fetch" =>
              /\ FetchProgress'
              /\ out = <<>> => m.tag \in {"size", "error"}
              /\ out # <<>> => m.tag \in {"data", "end", "error"}
              /\ m.tag = "size" => m.arg \in Nat
              /\ m.tag = "data" => m.arg = From(r, out[1].arg) + Len(out) - 1
              /\ m.tag = "end"  => Filled(r, out[1].arg, Len(out) - 1),
           r.op = "list" =>
              /\ ListProgress'
              /\ m.tag \in {"entry", "end", "error"}
              /\ m.tag = "entry" => \A k \in 1 .. Len(out) : out[k].arg # m.arg
    PROVE  Answering(r)'
<1>1. /\ Len(out) \in Nat /\ Len(out') = Len(out) + 1 /\ out'[Len(out) + 1] = m
      /\ \A k \in 1 .. Len(out) : out'[k] = out[k]
      /\ \A k \in 1 .. Len(out') : k \in 1 .. Len(out) \/ k = Len(out) + 1
  BY Longer
<1>2. \A k \in 1 .. Len(out) : out[k].req = r.id /\ out[k].tag \notin Ending
  BY DEF Answering
<1>3. \A k \in 1 .. Len(out') : out'[k].req = r.id
  BY <1>1, <1>2
<1>4. \A k \in 1 .. Len(out') : out'[k].tag \in Ending => k = Len(out') /\ spc' \in {"drain", "wait"}
  BY <1>1, <1>2
<1>5. ASSUME r.op = "fetch" PROVE FetchAnswer(r)'
  <2>. SUFFICES ASSUME NEW k \in 1 .. Len(out')
                PROVE  /\ k = 1 => out'[k].tag \in {"size", "error"}
                       /\ k > 1 => out'[k].tag \in {"data", "end", "error"}
                       /\ out'[k].tag = "size" => out'[k].arg \in Nat
                       /\ out'[k].tag = "data" => out'[k].arg = From(r, out'[1].arg) + k - 2
                       /\ out'[k].tag = "end"  => Filled(r, out'[1].arg, k - 2)
    BY DEF FetchAnswer, From, Whole, Filled
  <2>1. CASE k \in 1 .. Len(out)
    <3>1. 1 \in 1 .. Len(out) /\ out'[1] = out[1] /\ out'[k] = out[k]
      BY <1>1, <2>1
    <3>. QED
      BY <1>5, <2>1, <3>1 DEF Answering, FetchAnswer
  <2>2. CASE k = Len(out) + 1 /\ out = <<>>
    <3>1. Len(out) = 0 /\ k = 1
      BY <2>2, EmptySeq
    <3>. QED
      BY <1>1, <1>5, <2>2, <3>1
  <2>3. CASE k = Len(out) + 1 /\ out # <<>>
    <3>1. Len(out) > 0 /\ out'[1] = out[1] /\ out'[k] = m /\ k > 1 /\ k - 2 = Len(out) - 1
      <4>1. Len(out) > 0
        BY <1>1, <2>3, EmptySeq DEF StorageInv, TypeOK, NotifyTypeOK
      <4>. QED
        BY <1>1, <2>3, <4>1
    <3>2. From(r, out[1].arg) + Len(out) - 1 = From(r, out[1].arg) + k - 2
      BY <1>1, <2>3, <3>1
    <3>. QED
      BY <1>5, <2>3, <3>1, <3>2
  <2>. QED
    BY <1>1, <2>1, <2>2, <2>3
<1>6. ASSUME r.op = "list" PROVE ListAnswer'
  <2>1. \A k \in 1 .. Len(out) : out[k].tag \in {"entry", "end", "error"}
    BY <1>6 DEF Answering, ListAnswer
  <2>2. ASSUME NEW j \in 1 .. Len(out'), NEW k \in 1 .. Len(out'),
               out'[j].tag = "entry", out'[k].tag = "entry", out'[j].arg = out'[k].arg
        PROVE  j = k
    <3>1. CASE j \in 1 .. Len(out) /\ k \in 1 .. Len(out)
      BY <1>1, <1>6, <2>2, <3>1 DEF Answering, ListAnswer
    <3>. QED
      BY <1>1, <1>6, <2>2, <3>1
  <2>. QED
    BY <1>1, <1>6, <2>1, <2>2 DEF ListAnswer
<1>. QED
  BY <1>3, <1>4, <1>5, <1>6 DEF Answering

(* The thread goes on without a message.                                   *)
LEMMA AnswerStays ==
    ASSUME NEW r, Answering(r), UNCHANGED out,
           spc \notin {"drain", "wait"} \/ spc' \in {"drain", "wait"}, spc' # "clear",
           r.op = "fetch" => FetchProgress', r.op = "list" => ListProgress'
    PROVE  Answering(r)'
<1>1. \A k \in 1 .. Len(out) : out[k].tag \in Ending => k = Len(out) /\ spc' \in {"drain", "wait"}
  BY DEF Answering
<1>. QED
  BY <1>1 DEF Answering, FetchAnswer, ListAnswer

LEMMA AnswerFacts ==
    ASSUME StorageInv, FetchInv, NEW r \in Command, cmd = r, Answering(r)
    PROVE  /\ {size, eof, next, sent, r.offset, r.length, Len(out), Window, First} \subseteq Nat
           /\ Window = Whole(r, size) /\ First = From(r, size)
           /\ r.op \in {"list", "fetch", "status"}
           /\ r.length # 0 => Window <= r.length
           /\ \A tag, arg : Msg(tag, arg).req = r.id /\ Msg(tag, arg).tag = tag
                            /\ Msg(tag, arg).arg = arg
           /\ (out = <<>>) <=> (Len(out) = 0)
<1>1. out \in Seq(Notification)
  BY DEF StorageInv, TypeOK, NotifyTypeOK
<1>2. Len(out) \in Nat /\ ((out = <<>>) <=> (Len(out) = 0))
  BY <1>1, EmptySeq
<1>. QED
  BY <1>1, <1>2, FetchFacts DEF Window, First, Whole, From, Msg, Command

LEMMA AnswerThread ==
    ASSUME StorageInv, FetchInv, NEW r \in Command, cmd = r, link = "subscribed",
           Answering(r), StorageThread, spc # "wait"
    PROVE  /\ Answering(r)'
           /\ \E m \in Notification : NotifiedOrNot(m)
<1>0. /\ {size, eof, next, sent, r.offset, r.length, Len(out), Window, First} \subseteq Nat
      /\ Window = Whole(r, size) /\ First = From(r, size)
      /\ r.op \in {"list", "fetch", "status"}
      /\ r.length # 0 => Window <= r.length
      /\ \A tag, arg : Msg(tag, arg).req = r.id /\ Msg(tag, arg).tag = tag
                       /\ Msg(tag, arg).arg = arg
      /\ (out = <<>>) <=> (Len(out) = 0)
  BY AnswerFacts
<1>00. \E m \in Notification : TRUE
  BY MsgType
<1>. USE DEF FetchInv, FetchControl, At, Goto, fetchVars, notifyVars, sharedVars
<1>1. CASE ClearAbort
  <2>1. /\ spc = "clear" /\ UNCHANGED <<out, air, cmd>>
        /\ spc' = Opened(r.op)
    BY <1>1 DEF ClearAbort
  <2>2. out = <<>>
    BY <2>1 DEF Answering
  <2>3. spc' \in {"list", "stat", "status"} /\ (r.op = "fetch" => spc' = "stat")
    BY <1>0, <2>1 DEF Opened
  <2>4. FetchProgress' \/ r.op # "fetch"
    BY <2>1, <2>2, <2>3 DEF FetchProgress
  <2>5. ListProgress'
    BY <1>0, <2>1, <2>2 DEF ListProgress
  <2>. QED
    BY <1>00, <2>1, <2>3, <2>4, <2>5, AnswerStays DEF NotifiedOrNot
<1>2. CASE ListFails \/ ListEnds
  <2>1. spc = "list" /\ spc' \in {"end", "error"} /\ UNCHANGED <<out, air, cmd>> /\ r.op = "list"
    BY <1>2 DEF ListFails, ListEnds
  <2>. QED
    BY <1>00, <2>1, AnswerStays DEF ListProgress, NotifiedOrNot
<1>3. ASSUME NEW f \in Files, ListEntry(f)
      PROVE  Answering(r)' /\ \E m \in Notification : NotifiedOrNot(m)
  <2>1. /\ spc = "list" /\ spc' = "list" /\ r.op = "list" /\ UNCHANGED cmd
        /\ f \in rest /\ rest' = rest \ {f}
    BY <1>3 DEF ListEntry
  <2>2. ListProgress /\ \A k \in 1 .. Len(out) : out[k].tag \notin Ending
    BY <2>1 DEF Answering
  <2>3. CASE UNCHANGED notifyVars
    <3>1. ListProgress'
      BY <2>1, <2>2, <2>3 DEF ListProgress
    <3>. QED
      BY <1>00, <2>1, <2>3, <3>1, AnswerStays DEF NotifiedOrNot
  <2>4. CASE Notify(Msg("entry", f)) /\ ~UNCHANGED notifyVars
    <3>1. /\ Msg("entry", f) \in Notification
          /\ out' = Append(out, Msg("entry", f)) /\ air' = Append(air, Msg("entry", f))
      BY <2>4, MsgType DEF Notify
    <3>2. ListProgress' /\ \A k \in 1 .. Len(out) : out[k].arg # f
      <4>1. \A k \in 1 .. Len(out) : out[k].arg \notin rest /\ out[k].arg # f
        BY <2>1, <2>2 DEF ListProgress
      <4>2. /\ \A k \in 1 .. Len(out) : out'[k] = out[k]
            /\ \A k \in 1 .. Len(out') : k \in 1 .. Len(out) \/ out'[k].arg = f
        BY <1>0, <3>1, Longer
      <4>3. \A k \in 1 .. Len(out') : out'[k].arg \notin rest'
        BY <2>1, <4>1, <4>2
      <4>. QED
        BY <4>1, <4>3 DEF ListProgress
    <3>3. Answering(r)'
      <4> DEFINE m == Msg("entry", f)
      <4>1. /\ m \in Notification /\ out' = Append(out, m)
            /\ m.req = r.id /\ m.tag = "entry" /\ m.arg = f /\ "entry" \notin Ending
        BY <1>0, <3>1 DEF Ending
      <4>. HIDE DEF m
      <4>2. /\ spc \notin {"drain", "wait", "clear"} /\ spc' # "clear"
            /\ r.op # "fetch" /\ \A k \in 1 .. Len(out) : out[k].arg # m.arg
        BY <2>1, <3>2, <4>1
      <4>. QED
        BY <3>2, <4>1, <4>2, AnswerGrows
    <3>. QED
      BY <3>1, <3>3 DEF NotifiedOrNot
  <2>. QED
    BY <1>3, <2>3, <2>4 DEF ListEntry, NotifyFails
<1>4. CASE StatFile \/ OpenFile
  <2>1. /\ spc \in {"stat", "open"} /\ r.op = "fetch" /\ UNCHANGED <<out, air, cmd>>
        /\ out = <<>> /\ spc' \in {"error", "open", "size"}
    BY <1>4 DEF StatFile, OpenFile, Answering, FetchProgress
  <2>2. FetchProgress'
    BY <2>1 DEF Answering, FetchProgress
  <2>. QED
    BY <1>00, <2>1, <2>2, AnswerStays DEF NotifiedOrNot
<1>5. CASE SendSize
  <2>1. spc = "size" /\ UNCHANGED <<cmd, fetchVars>> /\ r.op = "fetch" /\ out = <<>>
    BY <1>5 DEF SendSize, Answering, FetchProgress
  <2>2. CASE NotifyFails /\ spc' = "error"
    BY <1>00, <2>1, <2>2, AnswerStays DEF NotifyFails, NotifiedOrNot, FetchProgress
  <2>3. CASE Notify(Msg("size", size)) /\ spc' = "loop"
    <3>1. /\ Msg("size", size) \in Notification
          /\ out' = Append(out, Msg("size", size)) /\ air' = Append(air, Msg("size", size))
      BY <2>3, MsgType DEF Notify
    <3>2. Len(out') = 1 /\ out'[1].arg = size
      BY <1>0, <2>1, <3>1, Longer
    <3>3. FetchProgress'
      BY <1>0, <2>1, <2>3, <3>2 DEF FetchProgress
    <3>4. Answering(r)'
      BY <1>0, <2>1, <2>3, <3>1, <3>3, AnswerGrows DEF Ending
    <3>. QED
      BY <3>1, <3>4 DEF NotifiedOrNot
  <2>. QED
    BY <1>5, <2>2, <2>3 DEF SendSize
<1>6. CASE SendChunk
  <2>1. /\ spc = "loop" /\ UNCHANGED <<cmd, size, eof>> /\ r.op = "fetch" /\ ~WindowFull
        /\ next = First + sent /\ Len(out) = sent + 1 /\ out[1].arg = size
    BY <1>6 DEF SendChunk, Answering, FetchProgress
  <2>2. CASE NotifyFails /\ spc' = "error"
    BY <1>00, <2>1, <2>2, AnswerStays DEF NotifyFails, NotifiedOrNot, FetchProgress
  <2>3. CASE Notify(Msg("data", next)) /\ spc' = "loop" /\ next' = next + 1 /\ sent' = sent + 1
    <3>1. /\ Msg("data", next) \in Notification
          /\ out' = Append(out, Msg("data", next)) /\ air' = Append(air, Msg("data", next))
      BY <2>3, MsgType DEF Notify
    <3>2. Len(out') = Len(out) + 1 /\ out'[1] = out[1]
      BY <1>0, <2>1, <3>1, Longer
    <3>4. FetchProgress'
      BY <1>0, <2>1, <2>3, <3>2 DEF FetchProgress
    <3>5. next = From(r, out[1].arg) + Len(out) - 1
      BY <1>0, <2>1
    <3>6. /\ Msg("data", next).req = r.id /\ Msg("data", next).tag = "data"
          /\ Msg("data", next).arg = next /\ out # <<>> /\ r.op # "list"
          /\ "data" \notin Ending
      BY <1>0, <2>1 DEF Ending
    <3>7. Answering(r)'
      BY <2>1, <2>3, <3>1, <3>4, <3>5, <3>6, AnswerGrows
    <3>. QED
      BY <3>1, <3>7 DEF NotifiedOrNot
  <2>. QED
    BY <1>6, <2>2, <2>3 DEF SendChunk
<1>7. CASE ReadFails
  BY <1>00, <1>7, AnswerStays DEF ReadFails, FetchProgress, NotifiedOrNot
<1>8. CASE FetchEnds
  <2>1. /\ spc = "loop" /\ spc' = "end" /\ UNCHANGED <<cmd, fetchVars, out, air>> /\ r.op = "fetch"
        /\ Len(out) = sent + 1 /\ out[1].arg = size
    BY <1>8 DEF FetchEnds, Answering, FetchProgress
  <2>2. FetchProgress'
    BY <2>1 DEF FetchProgress
  <2>. QED
    BY <1>00, <2>1, <2>2, AnswerStays DEF NotifiedOrNot
<1>9. CASE SendEnd \/ SendStatus \/ SendError
  <2>1. PICK tag \in {"end", "status", "error"} :
           /\ \E arg \in {0, current} : Msg(tag, arg) \in Notification /\ Answer(Msg(tag, arg))
           /\ tag = "end" => spc = "end" /\ cmd' = cmd
           /\ tag = "status" => spc = "status" /\ r.op = "status" /\ cmd' = cmd
           /\ tag = "error" => spc = "error"
    BY <1>9, MsgType DEF SendEnd, SendStatus, SendError
  <2>2. spc' \in {"drain", "wait"}
    BY <1>9 DEF SendEnd, SendStatus, SendError, Return
  <2>3. PICK arg \in {0, current} : Msg(tag, arg) \in Notification /\ Answer(Msg(tag, arg))
    BY <2>1
  <2>4. FetchProgress' /\ ListProgress'
    BY <2>2 DEF FetchProgress, ListProgress
  <2>5. CASE UNCHANGED notifyVars
    BY <1>00, <2>2, <2>4, <2>5, AnswerStays DEF NotifiedOrNot
  <2>6. CASE out' = Append(out, Msg(tag, arg)) /\ air' = Append(air, Msg(tag, arg))
    <3>1. r.op = "fetch" /\ tag = "end" => Filled(r, out[1].arg, Len(out) - 1) /\ Len(out) # 0
      <4>. SUFFICES ASSUME r.op = "fetch", tag = "end"
                    PROVE  Filled(r, out[1].arg, Len(out) - 1) /\ Len(out) # 0
        OBVIOUS
      <4>1. /\ spc = "end" /\ Len(out) = sent + 1 /\ out[1].arg = size
            /\ sent >= Window /\ (r.length # 0 => sent <= r.length)
        BY <2>1 DEF Answering, FetchProgress
      <4>2. Len(out) - 1 = sent
        BY <1>0, <4>1
      <4>. QED
        BY <1>0, <4>1, <4>2 DEF Filled
    <3>2. /\ Msg(tag, arg).req = r.id /\ Msg(tag, arg).tag = tag
          /\ r.op = "fetch" => tag # "status"
          /\ r.op = "list" => tag # "status"
          /\ spc \in {"end", "status", "error"}
      BY <1>0, <2>1
    <3>3. /\ r.op = "fetch" /\ out = <<>> => tag = "error"
          /\ r.op = "fetch" /\ tag = "end" => Filled(r, out[1].arg, Len(out) - 1)
      BY <1>0, <3>1, <3>2
    <3>4. Answering(r)'
      <4> DEFINE m == Msg(tag, arg)
      <4>1. m \in Notification /\ out' = Append(out, m) /\ m.req = r.id /\ m.tag = tag
        BY <2>3, <2>6, <3>2
      <4>. HIDE DEF m
      <4>. QED
        BY <2>2, <2>4, <3>2, <3>3, <4>1, AnswerGrows
    <3>. QED
      BY <2>3, <2>6, <3>4 DEF NotifiedOrNot
  <2>. QED
    BY <2>3, <2>5, <2>6 DEF Answer, Notify, NotifyFails
<1>10. CASE FetchAborted \/ DrainGive \/ DrainTake
  <2>1. UNCHANGED <<out, air>> /\ spc' \in {"wait", "drain"}
    BY <1>10 DEF FetchAborted, DrainGive, DrainTake, Return
  <2>2. FetchProgress' /\ ListProgress'
    BY <2>1 DEF FetchProgress, ListProgress
  <2>. QED
    BY <1>00, <2>1, <2>2, AnswerStays DEF NotifiedOrNot
<1>. QED
  BY <1>1, <1>2, <1>3, <1>4, <1>5, <1>6, <1>7, <1>8, <1>9, <1>10 DEF StorageThread, TakeCommand

(* What the storage thread leaves alone while it serves.                   *)
LEMMA ThreadKeeps ==
    ASSUME StorageThread, cmds = <<>>
    PROVE  /\ spc # "wait" /\ UNCHANGED << cmds, rx, link, steady >>
           /\ spc' = "wait" \/ cmd' = cmd
<1>. USE DEF At, Goto, sharedVars, boundVars
<1>1. CASE ClearAbort \/ ListFails \/ ListEnds \/ StatFile \/ OpenFile \/ ReadFails \/ FetchEnds
  BY <1>1 DEF ClearAbort, ListFails, ListEnds, StatFile, OpenFile, ReadFails, FetchEnds
<1>2. CASE FetchAborted \/ DrainTake \/ DrainGive
  BY <1>2 DEF FetchAborted, DrainTake, DrainGive, Return
<1>3. CASE SendSize \/ SendChunk \/ SendEnd \/ SendStatus \/ SendError
  BY <1>3 DEF SendSize, SendChunk, SendEnd, SendStatus, SendError, Return
<1>4. CASE \E f \in Files : ListEntry(f)
  BY <1>4 DEF ListEntry
<1>. QED
  BY <1>1, <1>2, <1>3, <1>4 DEF StorageThread, TakeCommand

LEMMA FlightGrows ==
    ASSUME StorageInv, NEW c \in Clients, InFlight, Collected(c),
           NEW m \in Notification, NotifiedOrNot(m), UNCHANGED clientVars
    PROVE  InFlight' /\ Collected(c)'
<1>0. /\ out \in Seq(Notification) /\ air \in Seq(Notification)
      /\ Len(out) \in Nat /\ Len(air) \in Nat
  BY DEF StorageInv, TypeOK, NotifyTypeOK
<1>1. CASE UNCHANGED <<out, air>>
  BY <1>1 DEF InFlight, Collected, Delivered, Completes, clientVars, callVars
<1>2. CASE out' = Append(out, m) /\ air' = Append(air, m)
  <2>1. /\ Len(out') = Len(out) + 1 /\ out'[Len(out) + 1] = m
        /\ Len(air') = Len(air) + 1 /\ air'[Len(air) + 1] = m
        /\ \A k \in 1 .. Len(out) : out'[k] = out[k]
        /\ \A k \in 1 .. Len(air) : air'[k] = air[k]
    BY <1>0, <1>2
  <2>2. Delivered' = Delivered /\ Delivered \in Nat /\ Delivered <= Len(out)
    BY <1>0, <2>1 DEF Delivered, InFlight
  <2>3. InFlight'
    <3>1. Len(air') <= Len(out')
      BY <1>0, <2>1 DEF InFlight
    <3>2. ASSUME NEW k \in 1 .. Len(air') PROVE air'[k] = out'[Delivered + k]
      <4>1. CASE k \in 1 .. Len(air)
        <5>1. air[k] = out[Delivered + k] /\ Delivered + k \in 1 .. Len(out)
          BY <1>0, <2>2, <4>1 DEF InFlight, Delivered
        <5>. QED
          BY <2>1, <4>1, <5>1
      <4>2. CASE k = Len(air) + 1
        <5>1. Delivered + k = Len(out) + 1
          BY <1>0, <4>2 DEF Delivered
        <5>. QED
          BY <2>1, <4>2, <5>1
      <4>. QED
        BY <1>0, <2>1, <4>1, <4>2
    <3>. QED
      BY <2>2, <3>1, <3>2 DEF InFlight
  <2>4. \A k \in 1 .. Delivered : out'[k] = out[k]
    BY <1>0, <2>1, <2>2
  <2>5. \A k \in 1 .. Delivered - 1 : k + 1 \in 1 .. Delivered
    BY <2>2
  <2>6. Delivered > 0 => 1 \in 1 .. Delivered
    BY <2>2
  <2>. QED
    BY <2>2, <2>3, <2>4, <2>5, <2>6 DEF Collected, Completes, clientVars, callVars
<1>. QED
  BY <1>1, <1>2 DEF NotifiedOrNot

LEMMA ServedThread ==
    ASSUME StorageInv, FetchInv, SessionTypeOK, NEW c \in Clients, Served(c),
           link = "subscribed", StorageThread, UNCHANGED clientVars
    PROVE  Served(c)'
<1>1. /\ spc # "wait" /\ UNCHANGED << cmds, steady >> /\ cmds = <<>>
      /\ spc' = "wait" \/ cmd' = cmd
  BY ThreadKeeps DEF Served
<1>2. PICK r \in Command : r = call[c]
  BY RequestFields
<1>3. cmd = r /\ steady /\ Answering(r)
  BY <1>1, <1>2 DEF Served
<1>4. Answering(r)' /\ \E m \in Notification : NotifiedOrNot(m)
  BY <1>1, <1>3, AnswerThread
<1>5. InFlight' /\ Collected(c)'
  BY <1>4, FlightGrows DEF Served
<1>6. call'[c] = r
  BY <1>2 DEF clientVars, callVars
<1>7. Answering(call[c])'
  BY <1>4, <1>6 DEF Answering, FetchAnswer, Filled, From, Whole
<1>. QED
  BY <1>1, <1>3, <1>5, <1>6, <1>7 DEF Served

(* The request is taken from the queue.                                    *)
LEMMA QueuedThread ==
    ASSUME StorageInv, SessionTypeOK, NEW c \in Clients, Queued(call[c]), StorageThread,
           UNCHANGED clientVars
    PROVE  \/ Queued(call[c])' /\ UNCHANGED << rx, link >>
           \/ /\ cmds' = <<>> /\ cmd' = call[c] /\ spc' = "clear" /\ out' = <<>> /\ air' = <<>>
              /\ steady' = (link = "subscribed") /\ UNCHANGED << rx, link >>
<1>. USE DEF At, Goto, Queued, sharedVars, boundVars, clientVars, callVars
<1>1. CASE TakeCommand
  <2>1. Head(cmds) = call[c] /\ Tail(cmds) = <<>>
    OBVIOUS
  <2>. QED
    BY <1>1, <2>1 DEF TakeCommand
<1>2. CASE DrainTake \/ DrainGive
  BY <1>2 DEF DrainTake, DrainGive, Return
<1>. QED
  BY <1>1, <1>2 DEF StorageThread, ClearAbort, ListFails, ListEntry, ListEnds, StatFile,
     OpenFile, SendSize, FetchAborted, SendChunk, ReadFails, FetchEnds, SendEnd, SendStatus,
     SendError

LEMMA TakenIsServed ==
    ASSUME NEW c \in Clients, heard'[c] = << >>,
           cmds' = << >>, cmd' = call'[c], spc' = "clear", out' = << >>, air' = << >>, steady'
    PROVE  Served(c)'
<1>1. Len(out') = 0 /\ Delivered' = 0 /\ Len(air') = 0
  BY DEF Delivered
<1>. QED
  BY <1>1 DEF Served, Answering, FetchAnswer, FetchProgress, ListAnswer, ListProgress, InFlight,
     Collected

LEMMA SettledThread ==
    ASSUME Settled, StorageThread \/ RxError
    PROVE  Settled' /\ UNCHANGED link
<1>. USE DEF At, Goto, Settled, sharedVars, boundVars
<1>1. CASE DrainTake \/ DrainGive
  BY <1>1 DEF DrainTake, DrainGive, Return
<1>. QED
  BY <1>1 DEF StorageThread, TakeCommand, ClearAbort, ListFails, ListEntry, ListEnds, StatFile,
     OpenFile, SendSize, FetchAborted, SendChunk, ReadFails, FetchEnds, SendEnd, SendStatus,
     SendError, RxError

(***************************************************************************)
(* A notification arrives at the session it answers.                       *)
(***************************************************************************)
LEMMA NextDelivered ==
    ASSUME StorageInv, InFlight, Complete
    PROVE  /\ Delivered \in Nat /\ Delivered + 1 \in 1 .. Len(out) /\ Len(out) \in Nat
           /\ Head(air) = out[Delivered + 1] /\ Head(air) \in Notification
           /\ out' = out /\ Delivered' = Delivered + 1 /\ InFlight'
           /\ Head(air) = air[1] /\ Len(air) \in Nat \ {0} /\ Len(air') = Len(air) - 1
           /\ \A k \in 1 .. Len(air') : air'[k] = air[k + 1]
<1>1. /\ out \in Seq(Notification) /\ air \in Seq(Notification) /\ air # <<>>
      /\ air' = Tail(air) /\ out' = out
  BY DEF Complete, StorageInv, TypeOK, NotifyTypeOK
<1>2. /\ Len(out) \in Nat /\ Len(air) \in Nat \ {0} /\ Head(air) = air[1]
      /\ Head(air) \in Notification
      /\ Len(air') = Len(air) - 1 /\ \A k \in 1 .. Len(air') : air'[k] = air[k + 1]
  BY <1>1, HeadTailProperties, EmptySeq
<1>3. /\ Delivered \in Nat /\ Delivered + 1 \in 1 .. Len(out) /\ Delivered' = Delivered + 1
      /\ Head(air) = out[Delivered + 1]
  BY <1>1, <1>2 DEF InFlight, Delivered
<1>4. ASSUME NEW k \in 1 .. Len(air')
      PROVE  air'[k] = out'[Delivered' + k]
  <2>1. k + 1 \in 1 .. Len(air) /\ Delivered + (k + 1) = Delivered' + k
    BY <1>2, <1>3
  <2>2. air[k + 1] = out[Delivered + (k + 1)]
    BY <2>1 DEF InFlight
  <2>. QED
    BY <1>1, <1>2, <2>1, <2>2
<1>5. Len(air') <= Len(out')
  BY <1>1, <1>2 DEF InFlight
<1>. QED
  BY <1>1, <1>2, <1>3, <1>4, <1>5 DEF InFlight

(* It hears what it waits for: no notification that completes it.          *)
LEMMA HearsOn ==
    ASSUME StorageInv, SessionTypeOK, NEW c \in Clients, Served(c), Deliver,
           at[c] = "waiting", ~Completes(c, Head(air))
    PROVE  Served(c)' /\ at'[c] = "waiting" /\ outcome'[c] = outcome[c]
<1> DEFINE m == Head(air)
<1>1. /\ Delivered \in Nat /\ Delivered + 1 \in 1 .. Len(out) /\ Len(out) \in Nat
      /\ m = out[Delivered + 1] /\ m \in Notification
      /\ out' = out /\ Delivered' = Delivered + 1 /\ InFlight'
  BY NextDelivered DEF Deliver, Served
<1>. HIDE DEF m
<1>2. /\ at'[c] = "waiting" /\ outcome'[c] = outcome[c]
      /\ heard'[c] = IF Collects(c, m) THEN Append(heard[c], m) ELSE heard[c]
      /\ announced'[c] = IF m.tag = "size" THEN m.arg ELSE announced[c]
      /\ heard[c] \in Seq(Notification) /\ call' = call
  BY DEF Deliver, Hear, Listens, Announces, SessionTypeOK, m
<1>3. UNCHANGED <<cmds, spc, cmd, steady, out, rest, size, sent>>
  BY DEF Deliver, Complete, sharedVars, threadVars, fetchVars
<1>4. Answering(call[c])'
  BY <1>2, <1>3 DEF Served, Answering, FetchAnswer, FetchProgress, ListAnswer, ListProgress
<1>5. \A k \in 1 .. Delivered + 1 : ~Completes(c, out[k])
  <2>1. ~Completes(c, out[Delivered + 1]) /\ \A k \in 1 .. Delivered : ~Completes(c, out[k])
    BY <1>1 DEF Served, Collected, m
  <2>. QED
    BY <1>1, <2>1
<1>6. ASSUME call[c].op = "fetch"
      PROVE  /\ announced'[c] = out[1].arg /\ Len(heard'[c]) = Delivered
             /\ \A k \in 1 .. Delivered : heard'[c][k] = out[k + 1]
  <2>1. FetchAnswer(call[c])
    BY <1>6 DEF Served, Answering
  <2>2. m.tag \notin {"end", "error"}
    BY <1>6 DEF Completes, m
  <2>3. CASE Delivered = 0
    <3>1. m = out[1] /\ m.tag = "size"
      BY <1>1, <2>1, <2>2, <2>3 DEF FetchAnswer
    <3>2. heard'[c] = <<>>
      BY <1>2, <1>6, <2>3, <3>1 DEF Collects, Served, Collected
    <3>3. Len(heard'[c]) = 0 /\ announced'[c] = m.arg
      BY <1>2, <3>1, <3>2
    <3>. QED
      BY <2>3, <3>1, <3>3
  <2>4. CASE Delivered > 0
    <3>1. m.tag = "data"
      BY <1>1, <2>1, <2>2, <2>4 DEF FetchAnswer
    <3>2. /\ announced[c] = out[1].arg /\ Len(heard[c]) = Delivered - 1
          /\ \A k \in 1 .. Delivered - 1 : heard[c][k] = out[k + 1]
      BY <1>6, <2>4 DEF Served, Collected
    <3>3. heard'[c] = Append(heard[c], m) /\ announced'[c] = announced[c]
      BY <1>2, <1>6, <3>1 DEF Collects
    <3>4. /\ Len(heard'[c]) = Delivered /\ heard'[c][Delivered] = m
          /\ \A k \in 1 .. Delivered - 1 : heard'[c][k] = heard[c][k]
      BY <1>1, <1>2, <3>2, <3>3
    <3>5. \A k \in 1 .. Delivered : k \in 1 .. Delivered - 1 \/ k = Delivered
      BY <1>1
    <3>. QED
      BY <1>1, <3>2, <3>3, <3>4, <3>5
  <2>. QED
    BY <1>1, <2>3, <2>4
<1>7. ASSUME call[c].op = "list"
      PROVE  /\ Len(heard'[c]) = Delivered + 1
             /\ \A k \in 1 .. Delivered + 1 : heard'[c][k] = out[k]
  <2>1. m.tag = "entry"
    BY <1>1, <1>7 DEF Served, Answering, ListAnswer, Completes, m
  <2>2. /\ Len(heard[c]) = Delivered /\ \A k \in 1 .. Delivered : heard[c][k] = out[k]
    BY <1>7 DEF Served, Collected
  <2>3. heard'[c] = Append(heard[c], m)
    BY <1>2, <1>7, <2>1 DEF Collects
  <2>4. /\ Len(heard'[c]) = Delivered + 1 /\ heard'[c][Delivered + 1] = m
        /\ \A k \in 1 .. Delivered : heard'[c][k] = heard[c][k]
    BY <1>1, <1>2, <2>2, <2>3
  <2>5. \A k \in 1 .. Delivered + 1 : k \in 1 .. Delivered \/ k = Delivered + 1
    BY <1>1
  <2>. QED
    BY <1>1, <2>2, <2>4, <2>5
<1>8. Collected(c)'
  <2>1. Delivered' > 0 /\ Delivered' - 1 = Delivered /\ Delivered' # 0
    BY <1>1
  <2>. QED
    BY <1>1, <1>2, <1>5, <1>6, <1>7, <2>1 DEF Collected, Completes
<1>. QED
  BY <1>1, <1>2, <1>3, <1>4, <1>8 DEF Served

(* It hears its answer's end, and has the slice, or the list.              *)
LEMMA HearsTheEnd ==
    ASSUME StorageInv, SessionTypeOK, NEW c \in Clients, Served(c), Deliver,
           at[c] = "waiting", outcome[c] = "open", Completes(c, Head(air))
    PROVE  /\ at'[c] = "idle"
           /\ outcome'[c] = "ok" =>
                 /\ call'[c].op = "fetch" => Slice(c)'
                 /\ call'[c].op = "list" => OwnList(c)'
<1> DEFINE m == Head(air)
<1>1. /\ Delivered \in Nat /\ Delivered + 1 \in 1 .. Len(out) /\ Len(out) \in Nat
      /\ m = out[Delivered + 1] /\ m \in Notification
  BY NextDelivered DEF Deliver, Served
<1>. HIDE DEF m
<1>2. /\ at'[c] = "idle"
      /\ outcome'[c] = IF m.tag = "error" /\ call[c].op # "status" THEN "error" ELSE "ok"
      /\ heard'[c] = IF Collects(c, m) THEN Append(heard[c], m) ELSE heard[c]
      /\ announced'[c] = IF m.tag = "size" THEN m.arg ELSE announced[c]
      /\ call' = call
  BY DEF Deliver, Hear, Listens, Announces, SessionTypeOK, m
<1>3. \A k \in 1 .. Delivered : out[k].req = call[c].id /\ ~Completes(c, out[k])
  BY <1>1 DEF Served, Answering, Collected
<1>4. ASSUME call[c].op = "fetch", outcome'[c] = "ok" PROVE Slice(c)'
  <2> DEFINE committed == out[1].arg
             r == call[c]
  <2>1. FetchAnswer(r) /\ r.offset \in Nat /\ r.length \in Nat
    BY <1>4, RequestFields DEF Served, Answering
  <2>2. m.tag = "end"
    BY <1>2, <1>4 DEF Completes, m
  <2>3. Delivered > 0 /\ Filled(r, committed, Delivered - 1)
    BY <1>1, <2>1, <2>2 DEF FetchAnswer
  <2>4. /\ announced'[c] = committed /\ heard'[c] = heard[c] /\ Len(heard[c]) = Delivered - 1
        /\ \A k \in 1 .. Delivered - 1 : heard[c][k] = out[k + 1]
    BY <1>2, <1>4, <2>2, <2>3 DEF Collects, Served, Collected
  <2>5. committed \in Nat
    <3>1. 1 \in 1 .. Delivered /\ out[1].tag \in {"size", "error"} /\ ~Completes(c, out[1])
      BY <1>1, <1>3, <2>1, <2>3 DEF FetchAnswer
    <3>2. out[1].tag = "size"
      BY <3>1 DEF Completes
    <3>. QED
      BY <1>1, <2>1, <3>1, <3>2 DEF FetchAnswer
  <2>6. ASSUME NEW k \in 1 .. Delivered - 1
        PROVE  heard[c][k].req = r.id /\ heard[c][k].arg = From(r, committed) + k - 1
    <3>1. k + 1 \in 1 .. Delivered /\ k + 1 \in 1 .. Len(out) /\ k + 1 > 1
          /\ (k + 1) - 2 = k - 1
      BY <1>1
    <3>2. ~Completes(c, out[k + 1]) /\ out[k + 1].req = r.id
      BY <1>3, <3>1
    <3>3. out[k + 1].tag = "data"
      BY <1>4, <2>1, <3>1, <3>2 DEF FetchAnswer, Completes
    <3>4. out[k + 1].arg = From(r, committed) + (k + 1) - 2
      BY <2>1, <3>1, <3>3 DEF FetchAnswer
    <3>5. From(r, committed) \in Int
      BY <2>1, <2>5 DEF From, Smaller
    <3>. QED
      BY <2>4, <3>2, <3>4, <3>5
  <2>7. r = call'[c] /\ Whole(r, committed) = Whole(r, committed)
    BY <1>2
  <2>. HIDE DEF committed, r
  <2>8. AllOwn(c)'
    BY <2>4, <2>6, <2>7 DEF AllOwn
  <2>. QED
    BY <2>3, <2>4, <2>6, <2>7, <2>8 DEF Slice, Filled, Whole, From
<1>5. ASSUME call[c].op = "list", outcome'[c] = "ok" PROVE OwnList(c)'
  <2>1. m.tag = "end" /\ heard'[c] = heard[c]
    BY <1>2, <1>5 DEF Completes, Collects, m
  <2>2. Len(heard[c]) = Delivered /\ \A k \in 1 .. Delivered : heard[c][k] = out[k]
    BY <1>5 DEF Served, Collected
  <2>3. ListAnswer /\ \A k \in 1 .. Delivered : k \in 1 .. Len(out)
    BY <1>1, <1>5 DEF Served, Answering
  <2>4. \A k \in 1 .. Delivered : out[k].tag = "entry"
    BY <1>3, <1>5, <2>3 DEF ListAnswer, Completes
  <2>5. call'[c] = call[c]
    BY <1>2
  <2>6. AllOwn(c)'
    BY <1>3, <2>1, <2>2, <2>5 DEF AllOwn
  <2>7. ASSUME NEW j \in 1 .. Delivered, NEW k \in 1 .. Delivered, out[j].arg = out[k].arg
        PROVE  j = k
    BY <2>3, <2>4, <2>7 DEF ListAnswer
  <2>. QED
    BY <2>1, <2>2, <2>6, <2>7 DEF OwnList
<1>. QED
  BY <1>2, <1>4, <1>5

(***************************************************************************)
(* The steps, as an undisturbed session sees them.                         *)
(***************************************************************************)
SameSession(c) ==
    /\ at'[c] = at[c] /\ call'[c] = call[c] /\ heard'[c] = heard[c]
    /\ announced'[c] = announced[c] /\ outcome'[c] = outcome[c]

LEMMA AtRest ==
    ASSUME NEW c \in Clients, Undisturbed(c), ~Listens(c), ~Listens(c)',
           call'[c] = call[c], heard'[c] = heard[c], announced'[c] = announced[c],
           outcome'[c] = outcome[c]
    PROVE  Undisturbed(c)'
BY DEF Undisturbed, Listens, Slice, OwnList, AllOwn

LEMMA NothingSeen ==
    ASSUME NEW c \in Clients, Undisturbed(c), UNCHANGED vars \/ Record, SameSession(c)
    PROVE  Undisturbed(c)'
<1>1. CASE ~Listens(c)
  BY <1>1, AtRest DEF SameSession, Listens
<1>2. CASE Listens(c)
  <2>0. UNCHANGED <<sharedVars, notifyVars, threadVars>>
    BY DEF vars, Record
  <2>. USE <2>0 DEF sharedVars, notifyVars, threadVars, fetchVars, SameSession
  <2>1. (Settled <=> Settled') /\ (Queued(call[c]) <=> Queued(call[c])')
    BY DEF Settled, Queued
  <2>2. Served(c) => Served(c)'
    <3>1. Answering(call[c]) => Answering(call[c])'
      BY DEF Answering, FetchAnswer, FetchProgress, ListAnswer, ListProgress, Filled, From, Whole
    <3>2. InFlight /\ Collected(c) => InFlight' /\ Collected(c)'
      BY DEF InFlight, Collected, Delivered, Completes
    <3>. QED
      BY <3>1, <3>2 DEF Served
  <2>. QED
    BY <1>2, <2>1, <2>2 DEF Undisturbed, Listens
<1>. QED
  BY <1>1, <1>2

LEMMA AloneDevice ==
    ASSUME StorageInv, FetchInv, SessionTypeOK, NEW c \in Clients, Undisturbed(c), Device
    PROVE  Undisturbed(c)'
<1>0. UNCHANGED clientVars /\ SameSession(c)
  BY DEF Device, clientVars, callVars, SameSession
<1>1. CASE ~Listens(c)
  BY <1>0, <1>1, AtRest DEF SameSession, Listens
<1>2. CASE Listens(c)
  <2>1. link = "subscribed" /\ rx = 0 /\ outcome[c] = "open"
    BY <1>2 DEF Undisturbed
  <2>2. StorageThread
    BY <2>1 DEF Device, RxError
  <2>3. CASE at[c] = "listening"
    <3>1. Settled' /\ UNCHANGED link
      BY <2>2, <2>3, SettledThread DEF Undisturbed
    <3>. QED
      BY <1>0, <2>1, <2>3, <3>1 DEF Undisturbed, SameSession, Settled, Listens
  <2>4. CASE at[c] = "waiting" /\ Queued(call[c]) /\ heard[c] = <<>>
    <3>1. CASE Queued(call[c])' /\ UNCHANGED <<rx, link>>
      BY <1>0, <2>1, <2>4, <3>1 DEF Undisturbed, SameSession, Listens
    <3>2. CASE /\ cmds' = <<>> /\ cmd' = call[c] /\ spc' = "clear" /\ out' = <<>> /\ air' = <<>>
               /\ steady' = (link = "subscribed") /\ UNCHANGED <<rx, link>>
      <4>1. Served(c)'
        BY <1>0, <2>1, <2>4, <3>2, TakenIsServed DEF SameSession
      <4>. QED
        BY <1>0, <2>1, <2>4, <3>2, <4>1 DEF Undisturbed, SameSession, Listens
    <3>. QED
      BY <1>0, <2>2, <2>4, <3>1, <3>2, QueuedThread
  <2>5. CASE at[c] = "waiting" /\ Served(c)
    <3>1. Served(c)'
      BY <1>0, <2>1, <2>2, <2>5, ServedThread
    <3>2. UNCHANGED <<rx, link>>
      BY <2>2, <2>5, ThreadKeeps DEF Served
    <3>. QED
      BY <1>0, <2>1, <2>5, <3>1, <3>2 DEF Undisturbed, SameSession, Listens
  <2>. QED
    BY <1>2, <2>3, <2>4, <2>5 DEF Undisturbed, Listens
<1>. QED
  BY <1>1, <1>2

LEMMA AloneDeliver ==
    ASSUME StorageInv, SessionTypeOK, NEW c \in Clients, Undisturbed(c), Deliver
    PROVE  Undisturbed(c)'
<1>0. /\ air # <<>> /\ UNCHANGED <<link, rx, call>>
  BY DEF Deliver, Complete, sharedVars
<1>1. CASE ~Listens(c)
  <2>1. SameSession(c)
    BY <1>0, <1>1 DEF Deliver, Hear, SessionTypeOK, SameSession
  <2>. QED
    BY <1>1, <2>1, AtRest DEF SameSession, Listens
<1>2. CASE Listens(c)
  <2>1. at[c] = "waiting" /\ Served(c) /\ link = "subscribed" /\ rx = 0 /\ outcome[c] = "open"
    BY <1>0, <1>2 DEF Undisturbed, Listens, Settled, Queued
  <2>2. CASE Completes(c, Head(air))
    BY <2>1, <2>2, HearsTheEnd DEF Undisturbed, Listens
  <2>3. CASE ~Completes(c, Head(air))
    BY <1>0, <2>1, <2>3, HearsOn DEF Undisturbed, Listens
  <2>. QED
    BY <2>2, <2>3
<1>. QED
  BY <1>1, <1>2

LEMMA RequestQueued ==
    ASSUME SessionTypeOK, NEW c \in Clients, Settled, SendRequest(c)
    PROVE  Queued(call[c])' /\ UNCHANGED << rx, link, air, spc >>
<1>1. cmds = <<>> /\ ~QueueFull
  BY StorageAssumption DEF Settled, QueueFull
<1>2. cmds' = << [op |-> call[c].op, file |-> call[c].file, offset |-> call[c].offset,
                  length |-> call[c].length, id |-> requests'] >>
      /\ UNCHANGED <<rx, link, air, spc>>
  BY <1>1 DEF SendRequest, WriteControl, notifyVars, threadVars
<1>3. call'[c] = [call[c] EXCEPT !.id = requests']
  BY DEF SendRequest, SessionTypeOK
<1>4. call'[c] = [op |-> call[c].op, file |-> call[c].file, offset |-> call[c].offset,
                  length |-> call[c].length, id |-> requests']
  BY <1>3, RequestFields DEF Command
<1>. QED
  BY <1>2, <1>4 DEF Queued, Settled

LEMMA AloneClient ==
    ASSUME SessionTypeOK, NEW c \in Clients, alone'[c], alone[c] => Undisturbed(c),
           NEW d \in Clients, Client(d)
    PROVE  Undisturbed(c)'
<1>. USE DEF Is, Put, SessionTypeOK
<1>1. CASE SendRequest(d)
  <2>1. c = d /\ alone[c]
    BY <1>1 DEF SendRequest, OthersDisturbed
  <2>2. Settled /\ heard[c] = <<>> /\ outcome[c] = "open" /\ link = "subscribed" /\ rx = 0
    BY <1>1, <2>1 DEF SendRequest, Undisturbed, Listens
  <2>3. Queued(call[c])' /\ UNCHANGED <<rx, link>>
    BY <1>1, <2>1, <2>2, RequestQueued
  <2>4. at'[c] = "waiting" /\ UNCHANGED <<heard, outcome>>
    BY <1>1, <2>1, <2>2 DEF SendRequest
  <2>. QED
    BY <2>2, <2>3, <2>4 DEF Undisturbed, Listens
<1>2. ASSUME NEW r \in Calls, Begin(d, r)
      PROVE  Undisturbed(c)'
  <2>1. CASE c = d
    <3>1. Quiet /\ UNCHANGED vars
      BY <1>2, <2>1 DEF Begin
    <3>2. Settled' /\ link' = "subscribed" /\ rx' = 0
      BY <3>1 DEF Quiet, Settled, vars, sharedVars, notifyVars, threadVars
    <3>3. at'[c] = "listening" /\ heard'[c] = <<>> /\ outcome'[c] = "open"
      BY <1>2, <2>1 DEF Begin
    <3>. QED
      BY <3>2, <3>3 DEF Undisturbed, Listens
  <2>2. CASE c # d
    BY <1>2, <2>2, NothingSeen DEF Begin, SameSession
  <2>. QED
    BY <2>1, <2>2
<1>3. CASE Open(d)
  <2>1. alone[c] /\ UNCHANGED callVars /\ at[d] = "closed"
    BY <1>3 DEF Open
  <2>2. CASE c = d
    BY <1>3, <2>1, <2>2, AtRest DEF Open, Listens, callVars
  <2>3. CASE c # d /\ UNCHANGED vars
    BY <1>3, <2>1, <2>3, NothingSeen DEF Open, SameSession, callVars
  <2>4. CASE c # d /\ Subscribe
    <3>1. at'[c] = at[c] /\ ~Listens(c)
      BY <1>3, <2>1, <2>4 DEF Open, Subscribe, Undisturbed
    <3>. QED
      BY <2>1, <3>1, AtRest DEF Listens, callVars
  <2>. QED
    BY <1>3, <2>2, <2>3, <2>4 DEF Open
<1>4. CASE SendThrows(d)
  <2>1. c # d
    BY <1>4 DEF SendThrows, Undisturbed, Listens
  <2>. QED
    BY <1>4, <2>1, NothingSeen DEF SendThrows, SameSession
<1>5. CASE TimesOut(d)
  <2>1. CASE c = d
    BY <1>5, <2>1 DEF TimesOut, Undisturbed, Listens
  <2>2. CASE c # d
    BY <1>5, <2>2, NothingSeen DEF TimesOut, SameSession
  <2>. QED
    BY <2>1, <2>2
<1>6. CASE CloseAbort(d) \/ CloseUnsubscribe(d)
  <2>1. c = d /\ alone[c] /\ UNCHANGED callVars
    BY <1>6 DEF CloseAbort, CloseUnsubscribe, OthersDisturbed
  <2>2. at'[c] \in {"closing", "closed"}
    BY <1>6, <2>1 DEF CloseAbort, CloseUnsubscribe
  <2>3. CASE Listens(c)
    BY <2>1, <2>2, <2>3 DEF Undisturbed, Listens, callVars
  <2>4. CASE ~Listens(c)
    BY <2>1, <2>2, <2>4, AtRest DEF Listens, callVars
  <2>. QED
    BY <2>3, <2>4
<1>. QED
  BY <1>1, <1>2, <1>3, <1>4, <1>5, <1>6 DEF Client

LEMMA AloneInvStep ==
    ASSUME StorageInv, FetchInv, SessionTypeOK, AloneInv, [SessionNext]_sessionVars
    PROVE  AloneInv'
<1>. SUFFICES ASSUME NEW c \in Clients, alone'[c]
              PROVE  Undisturbed(c)'
  BY DEF AloneInv
<1>0. alone[c] => Undisturbed(c)
  BY DEF AloneInv
<1>1. CASE Device
  BY <1>0, <1>1, AloneDevice DEF Device, clientVars
<1>2. CASE Deliver
  BY <1>0, <1>2, AloneDeliver DEF Deliver
<1>3. CASE Link
  <2>1. Connect /\ alone[c] /\ UNCHANGED <<at, callVars>> /\ link = "down"
    BY <1>3 DEF Link, Connect
  <2>2. ~Listens(c)
    BY <1>0, <2>1 DEF Undisturbed
  <2>. QED
    BY <1>0, <2>1, <2>2, AtRest DEF Listens, callVars
<1>4. CASE \E d \in Clients : Client(d)
  BY <1>0, <1>4, AloneClient
<1>5. CASE UNCHANGED sessionVars
  BY <1>0, <1>5, NothingSeen DEF sessionVars, clientVars, callVars, SameSession
<1>6. CASE Recording
  BY <1>0, <1>6, NothingSeen DEF Recording, clientVars, callVars, SameSession
<1>. QED
  BY <1>1, <1>2, <1>3, <1>4, <1>5, <1>6 DEF SessionNext

(***************************************************************************)
(* The only session that writes requests, whatever the others open and     *)
(* close.                                                                  *)
(***************************************************************************)
LEMMA AirThread ==
    ASSUME StorageInv, StorageThread, cmds = << >>
    PROVE  /\ spc = "drain" => spc' \in {"drain", "wait"}
           /\ \/ air' = air
              \/ /\ spc # "drain"
                 /\ \E m \in Notification : /\ air' = Append(air, m)
                                            /\ m.tag \in Ending => spc' \in {"drain", "wait"}
<1>. USE DEF At, Goto, notifyVars, Ending
<1>1. CASE ClearAbort \/ ListFails \/ ListEnds \/ StatFile \/ OpenFile \/ ReadFails \/ FetchEnds
  BY <1>1 DEF ClearAbort, ListFails, ListEnds, StatFile, OpenFile, ReadFails, FetchEnds
<1>2. CASE FetchAborted \/ DrainTake \/ DrainGive
  BY <1>2 DEF FetchAborted, DrainTake, DrainGive, Return
<1>3. CASE SendEnd \/ SendStatus \/ SendError
  BY <1>3, MsgType DEF SendEnd, SendStatus, SendError, Answer, Notify, NotifyFails, Return
<1>4. CASE SendSize \/ SendChunk
  BY <1>4, MsgType DEF SendSize, SendChunk, Notify, NotifyFails, Msg
<1>5. CASE \E f \in Files : ListEntry(f)
  BY <1>5, MsgType DEF ListEntry, Notify, NotifyFails, Msg
<1>. QED
  BY <1>1, <1>2, <1>3, <1>4, <1>5 DEF StorageThread, TakeCommand

LEMMA UnderwayThread ==
    ASSUME StorageInv, SessionTypeOK, NEW c \in Clients, Underway(c), StorageThread,
           UNCHANGED clientVars
    PROVE  Underway(c)' /\ UNCHANGED << rx, link >>
<1>1. CASE Queued(call[c])
  <2>1. CASE Queued(call[c])' /\ UNCHANGED <<rx, link>>
    BY <2>1 DEF Underway
  <2>2. CASE /\ cmds' = <<>> /\ cmd' = call[c] /\ air' = <<>> /\ UNCHANGED <<rx, link>>
    BY <2>2 DEF Underway, clientVars, callVars
  <2>. QED
    BY <1>1, <2>1, <2>2, QueuedThread
<1>2. CASE /\ cmds = <<>> /\ (spc \in {"wait", "drain"} \/ cmd = call[c])
           /\ \A k \in 1 .. Len(air) :
                 air[k].tag \in Ending => k = Len(air) /\ spc \in {"drain", "wait"}
  <2>1. /\ spc # "wait" /\ UNCHANGED <<cmds, rx, link>> /\ (spc' = "wait" \/ cmd' = cmd)
    BY <1>2, ThreadKeeps
  <2>2. spc' \in {"wait", "drain"} \/ cmd' = call'[c]
    BY <1>2, <2>1, AirThread DEF clientVars, callVars
  <2>3. CASE air' = air
    <3>1. \A k \in 1 .. Len(air) : air[k].tag \in Ending => spc' \in {"drain", "wait"}
      BY <1>2, <2>1, AirThread
    <3>. QED
      BY <1>2, <2>1, <2>2, <2>3, <3>1 DEF Underway
  <2>4. ASSUME NEW m \in Notification, air' = Append(air, m), spc # "drain",
               m.tag \in Ending => spc' \in {"drain", "wait"}
        PROVE  Underway(c)'
    <3>1. air \in Seq(Notification) /\ Len(air) \in Nat
      BY DEF StorageInv, TypeOK, NotifyTypeOK
    <3>2. /\ Len(air') = Len(air) + 1 /\ air'[Len(air) + 1] = m
          /\ \A k \in 1 .. Len(air) : air'[k] = air[k]
      BY <2>4, <3>1
    <3>3. \A k \in 1 .. Len(air) : air[k].tag \notin Ending
      BY <1>2, <2>1, <2>4
    <3>4. \A k \in 1 .. Len(air') : air'[k].tag \in Ending => k = Len(air') /\ spc' \in {"drain", "wait"}
      BY <2>4, <3>1, <3>2, <3>3
    <3>. QED
      BY <1>2, <2>1, <2>2, <3>4 DEF Underway
  <2>. QED
    BY <1>2, <2>1, <2>3, <2>4, AirThread
<1>. QED
  BY <1>1, <1>2 DEF Underway

(* A step that ends or begins no subscription and leaves the device alone. *)
LEMMA OnlySame ==
    ASSUME NEW c, UNCHANGED << cmds, spc, cmd, air, rx >>, call'[c] = call[c]
    PROVE  (Settled => Settled') /\ (Underway(c) => Underway(c)')
BY DEF Settled, Underway, Queued

LEMMA OnlyDeliver ==
    ASSUME StorageInv, SessionTypeOK, NEW c \in Clients, OnlyAt(c), Deliver
    PROVE  OnlyAt(c)'
<1>0. /\ air # <<>> /\ UNCHANGED <<link, rx, cmds, spc, cmd, call, alone>> /\ air' = Tail(air)
      /\ air \in Seq(Notification)
  BY DEF Deliver, Complete, sharedVars, threadVars, StorageInv, TypeOK, NotifyTypeOK
<1>1. /\ Len(air) \in Nat \ {0} /\ Head(air) = air[1]
      /\ Len(air') = Len(air) - 1 /\ \A k \in 1 .. Len(air') : air'[k] = air[k + 1]
      /\ air' \in Seq(Notification)
  BY <1>0, HeadTailProperties, EmptySeq
<1>2. /\ at[c] = "waiting" /\ outcome[c] = "open" /\ rx = 0 /\ cmds = <<>>
      /\ spc \in {"wait", "drain"} \/ cmd = call[c]
      /\ \A k \in 1 .. Len(air) :
            air[k].tag \in Ending => k = Len(air) /\ spc \in {"drain", "wait"}
  BY <1>0 DEF OnlyAt, Settled, Underway, Queued
<1>3. CASE Completes(c, Head(air))
  <2>1. Head(air).tag \in Ending
    BY <1>3 DEF Completes, Ending
  <2>2. 1 \in 1 .. Len(air)
    BY <1>1
  <2>3. Len(air) = 1 /\ spc \in {"drain", "wait"}
    BY <1>1, <1>2, <2>1, <2>2
  <2>4. air' = <<>>
    BY <1>1, <2>3, EmptySeq
  <2>5. at'[c] = "idle"
    BY <1>2, <1>3 DEF Deliver, Hear, Listens, SessionTypeOK
  <2>. QED
    BY <1>0, <1>2, <2>3, <2>4, <2>5 DEF OnlyAt, Settled
<1>4. CASE ~Completes(c, Head(air))
  <2>1. at'[c] = "waiting" /\ outcome'[c] = "open"
    BY <1>2, <1>4 DEF Deliver, Hear, Listens, SessionTypeOK
  <2>2. ASSUME NEW k \in 1 .. Len(air'), air'[k].tag \in Ending
        PROVE  k = Len(air') /\ spc' \in {"drain", "wait"}
    <3>1. k + 1 \in 1 .. Len(air) /\ air[k + 1].tag \in Ending
      BY <1>1, <2>2
    <3>2. k + 1 = Len(air) /\ spc \in {"drain", "wait"}
      BY <1>2, <3>1
    <3>3. k \in Int /\ Len(air) \in Int /\ Len(air') = Len(air) - 1
      BY <1>1
    <3>4. k = Len(air')
      BY <3>2, <3>3
    <3>. QED
      BY <1>0, <3>2, <3>4
  <2>3. Underway(c)'
    BY <1>0, <1>2, <2>2 DEF Underway
  <2>. QED
    BY <1>0, <1>2, <2>1, <2>3 DEF OnlyAt
<1>. QED
  BY <1>3, <1>4

LEMMA OnlyClient ==
    ASSUME StorageInv, SessionTypeOK, NEW c \in Clients, OnlyAt(c), Only(c)', Only(c),
           NEW d \in Clients, Client(d)
    PROVE  OnlyAt(c)'
<1>. USE DEF Is, Put, SessionTypeOK
<1>0. UNCHANGED vars => UNCHANGED <<cmds, spc, cmd, air, rx, link>>
  BY DEF vars, sharedVars, notifyVars, threadVars
<1>1. CASE SendRequest(d)
  <2>1. c = d
    <3>1. CASE c # d
      <4>1. requests' = requests + 1 /\ requests \in Nat
        BY <1>1 DEF SendRequest, WriteControl, StorageInv, TypeOK, CountTypeOK
      <4>2. call' = [call EXCEPT ![d].id = requests']
        BY <1>1 DEF SendRequest
      <4>3. call'[d].id = requests'
        BY <4>2, RequestFields
      <4>. QED
        BY <3>1, <4>1, <4>3 DEF Only
    <3>. QED
      BY <3>1
  <2>2. Settled /\ outcome[c] = "open" /\ rx = 0
    BY <1>1, <2>1 DEF SendRequest, OnlyAt, Settled
  <2>3. Queued(call[c])' /\ UNCHANGED rx
    BY <1>1, <2>1, <2>2, RequestQueued
  <2>4. at'[c] = "waiting" /\ UNCHANGED outcome
    BY <1>1, <2>1, <2>2 DEF SendRequest
  <2>. QED
    BY <2>2, <2>3, <2>4 DEF OnlyAt, Underway
<1>2. ASSUME NEW r \in Calls, Begin(d, r)
      PROVE  OnlyAt(c)'
  <2>0. UNCHANGED <<cmds, spc, cmd, air, rx, link>>
    BY <1>0, <1>2 DEF Begin
  <2>1. CASE c = d
    <3>1. Settled /\ Settled'
      BY <1>2, <2>0, <2>1 DEF Begin, OnlyAt, Settled
    <3>2. at'[c] = "listening" /\ outcome'[c] = "open" /\ alone'[c] = Quiet
      BY <1>2, <2>1 DEF Begin
    <3>3. link' = "subscribed" => Quiet
      BY <2>0, <3>1 DEF Quiet, Settled
    <3>. QED
      BY <3>1, <3>2, <3>3 DEF OnlyAt
  <2>2. CASE c # d
    <3>1. at'[c] = at[c] /\ call'[c] = call[c] /\ outcome'[c] = outcome[c] /\ at'[d] = "listening"
      BY <1>2, <2>2 DEF Begin
    <3>. QED
      BY <2>0, <2>2, <3>1, OnlySame DEF OnlyAt
  <2>. QED
    BY <2>1, <2>2
<1>3. CASE Open(d)
  <2>1. UNCHANGED <<cmds, spc, cmd, air, rx, call, outcome>> /\ at[d] = "closed" /\ at'[d] = "idle"
    BY <1>0, <1>3 DEF Open, Subscribe, threadVars, callVars
  <2>2. c # d => at'[c] = at[c]
    BY <1>3 DEF Open
  <2>. QED
    BY <2>1, <2>2, OnlySame DEF OnlyAt
<1>4. CASE SendThrows(d)
  <2>1. UNCHANGED <<cmds, spc, cmd, air, rx, call>> /\ at[d] = "listening" /\ at'[d] = "idle"
    BY <1>0, <1>4 DEF SendThrows
  <2>2. c # d => at'[c] = at[c] /\ outcome'[c] = outcome[c]
    BY <1>4 DEF SendThrows
  <2>. QED
    BY <2>1, <2>2, OnlySame DEF OnlyAt
<1>5. CASE CloseAbort(d)
  <2>1. /\ UNCHANGED <<spc, cmd, air, rx, call, outcome>> /\ cmds' \in {cmds, <<>>}
    BY <1>0, <1>5 DEF CloseAbort, WriteAbort, notifyVars, threadVars, callVars
  <2>2. at[d] = "idle" /\ at'[d] = "closing" /\ (c # d => at'[c] = at[c])
    BY <1>5 DEF CloseAbort, GiveUp, Only
  <2>3. Settled => Settled'
    BY <2>1 DEF Settled
  <2>4. Underway(c) => Underway(c)'
    BY <2>1 DEF Underway, Queued
  <2>. QED
    BY <2>1, <2>2, <2>3, <2>4 DEF OnlyAt
<1>6. CASE CloseUnsubscribe(d)
  <2>1. /\ UNCHANGED <<cmds, spc, cmd, air, rx, call, outcome>> /\ link' # "subscribed"
    BY <1>0, <1>6 DEF CloseUnsubscribe, Unsubscribe, notifyVars, threadVars, callVars
  <2>2. at[d] = "closing" /\ at'[d] = "closed" /\ (c # d => at'[c] = at[c])
    BY <1>6 DEF CloseUnsubscribe
  <2>. QED
    BY <2>1, <2>2, OnlySame DEF OnlyAt
<1>7. CASE TimesOut(d)
  BY <1>7 DEF TimesOut, GiveUp, Only
<1>. QED
  BY <1>1, <1>2, <1>3, <1>4, <1>5, <1>6, <1>7 DEF Client

(* Who was the only one to write requests was it before, too.              *)
LEMMA OnlyBefore ==
    ASSUME StorageInv, SessionTypeOK, NEW c \in Clients, Only(c)', [SessionNext]_sessionVars
    PROVE  Only(c)
<1>. USE DEF Only, SessionTypeOK, Is, Put
<1>1. CASE UNCHANGED <<abandoned, call>>
  BY <1>1
<1>2. ASSUME NEW d \in Clients, Client(d)
      PROVE  Only(c)
  <2>1. abandoned' \in {abandoned, abandoned + 1}
    BY <1>2 DEF Client, Open, SendRequest, SendThrows, TimesOut, CloseAbort, CloseUnsubscribe,
       Begin, GiveUp
  <2>2. ASSUME NEW e \in Clients \ {c}
        PROVE  call[e].id = 0
    <3>1. CASE call' = call
      BY <3>1
    <3>2. CASE SendRequest(d)
      <4>1. call' = [call EXCEPT ![d].id = requests'] /\ requests' = requests + 1 /\ requests \in Nat
        BY <3>2 DEF SendRequest, WriteControl, StorageInv, TypeOK, CountTypeOK
      <4>2. call'[e].id = 0 /\ call'[d].id = requests' /\ requests' # 0
        BY <2>2, <4>1, RequestFields
      <4>. QED
        BY <2>2, <4>1, <4>2
    <3>3. ASSUME NEW r \in Calls, Begin(d, r)
          PROVE  call[e].id = 0
      <4>1. call'[e].id = 0 /\ call' = [call EXCEPT ![d] = [r EXCEPT !.id = call[d].id]]
            /\ r \in Command
        BY <2>2, <3>3, SessionAssumption DEF Begin
      <4>2. CASE e = d
        BY <4>1, <4>2, RequestFields DEF Command
      <4>3. CASE e # d
        BY <2>2, <4>1, <4>3
      <4>. QED
        BY <4>2, <4>3
    <3>. QED
      BY <1>2, <3>1, <3>2, <3>3 DEF Client, Open, SendThrows, TimesOut, CloseAbort,
         CloseUnsubscribe, callVars
  <2>. QED
    BY <2>1, <2>2
<1>. QED
  BY <1>1, <1>2 DEF SessionNext, Device, Recording, Deliver, Link, sessionVars, clientVars, callVars

LEMMA OnlyInvStep ==
    ASSUME StorageInv, SessionTypeOK, OnlyInv, [SessionNext]_sessionVars
    PROVE  OnlyInv'
<1>. SUFFICES ASSUME NEW c \in Clients, Only(c)'
              PROVE  OnlyAt(c)'
  BY DEF OnlyInv
<1>0. Only(c) /\ OnlyAt(c)
  BY OnlyBefore DEF OnlyInv
<1>1. CASE Device
  <2>0. UNCHANGED clientVars /\ UNCHANGED <<at, outcome, alone>> /\ (StorageThread \/ RxError)
    BY <1>1 DEF Device, clientVars, callVars
  <2>1. CASE at[c] # "waiting"
    <3>1. Settled' /\ UNCHANGED link
      BY <1>0, <2>0, <2>1, SettledThread DEF OnlyAt
    <3>. QED
      BY <1>0, <2>0, <2>1, <3>1 DEF OnlyAt
  <2>2. CASE at[c] = "waiting"
    <3>1. rx = 0 /\ Underway(c) /\ StorageThread
      BY <1>0, <2>0, <2>2 DEF OnlyAt, RxError
    <3>2. Underway(c)' /\ UNCHANGED <<rx, link>>
      BY <2>0, <3>1, UnderwayThread
    <3>. QED
      BY <1>0, <2>0, <2>2, <3>1, <3>2 DEF OnlyAt
  <2>. QED
    BY <2>1, <2>2
<1>2. CASE Deliver
  BY <1>0, <1>2, OnlyDeliver
<1>3. CASE Link
  <2>1. /\ UNCHANGED <<cmds, spc, cmd, rx, at, call, outcome>> /\ air' \in {air, <<>>}
        /\ link' # "subscribed"
    BY <1>3 DEF Link, Connect, Disconnect, notifyVars, threadVars, callVars
  <2>2. (Settled => Settled') /\ (Underway(c) => Underway(c)')
    BY <2>1 DEF Settled, Underway, Queued
  <2>. QED
    BY <1>0, <2>1, <2>2 DEF OnlyAt
<1>4. CASE \E d \in Clients : Client(d)
  BY <1>0, <1>4, OnlyClient
<1>5. CASE Recording \/ UNCHANGED sessionVars
  <2>1. UNCHANGED <<cmds, spc, cmd, air, rx, link, at, call, outcome, alone>>
    BY <1>5 DEF Recording, Record, sessionVars, vars, sharedVars, notifyVars, threadVars,
       clientVars, callVars
  <2>. QED
    BY <1>0, <2>1, OnlySame DEF OnlyAt
<1>. QED
  BY <1>1, <1>2, <1>3, <1>4, <1>5 DEF SessionNext

LEMMA SessionInitInv ==
    SessionInit => StorageInv /\ FetchInv /\ SessionTypeOK /\ AloneInv /\ OnlyInv
<1>. SUFFICES ASSUME SessionInit
              PROVE  StorageInv /\ FetchInv /\ SessionTypeOK /\ AloneInv /\ OnlyInv
  OBVIOUS
<1>. USE DEF SessionInit
<1>1. StorageInv
  BY InitStorageInv
<1>2. FetchInv
  BY DEF Init, FetchInv, FetchControl, FetchChunks, NoCommand
<1>3. NoCommand \in Command
  BY DEF NoCommand, Command
<1>4. SessionTypeOK
  BY <1>3 DEF SessionTypeOK
<1>5. AloneInv
  BY DEF AloneInv
<1>6. OnlyInv
  BY DEF OnlyInv, OnlyAt, Settled, Init
<1>. QED
  BY <1>1, <1>2, <1>4, <1>5, <1>6

(***************************************************************************)
(* The inductive invariant of the composition.  StorageInv and FetchInv    *)
(* are the service's; AloneInv relates `heard` to what the service has     *)
(* sent, OnlyInv says what is left of a request when its session is done.  *)
(***************************************************************************)
SessionInv == StorageInv /\ FetchInv /\ SessionTypeOK /\ AloneInv /\ OnlyInv

LEMMA SessionInvariant == SessionSpec => []SessionInv
<1>1. SessionInit => SessionInv
  BY SessionInitInv DEF SessionInv
<1>2. SessionInv /\ [SessionNext]_sessionVars => SessionInv'
  <2>. SUFFICES ASSUME SessionInv, [SessionNext]_sessionVars PROVE SessionInv'
    OBVIOUS
  <2>0. StorageInv /\ FetchInv /\ SessionTypeOK /\ AloneInv /\ OnlyInv
    BY DEF SessionInv
  <2>1. Step
    BY <2>0, SessionIsStep
  <2>2. StorageInv'
    BY <2>0, <2>1, NextStorageInv
  <2>3. FetchControl' /\ FetchChunks'
    BY <2>0, <2>1, FetchControlInv, FetchChunksInv DEF FetchInv
  <2>4. SessionTypeOK' /\ AloneInv' /\ OnlyInv'
    BY <2>0, SessionTypeInv, AloneInvStep, OnlyInvStep
  <2>. QED
    BY <2>2, <2>3, <2>4 DEF SessionInv, FetchInv
<1>. QED
  BY <1>1, <1>2, PTL DEF SessionSpec

(* fetchWindow (wr_storage_client.dart:295-361): a fetch begun on a quiet  *)
(* device and undisturbed by other sessions returns the slice of the file  *)
(* it asked for, at least to the size announced, however the file grows    *)
(* meanwhile and whatever happened to operations before it.                *)
THEOREM SessionFetchReturnsTheSlice == SessionSpec => []FetchReturnsTheSlice
<1>1. SessionInv => FetchReturnsTheSlice
  BY DEF SessionInv, AloneInv, Undisturbed, FetchReturnsTheSlice, Returned, Listens, Is
<1>. QED
  BY <1>1, SessionInvariant, PTL

(* listFiles (wr_storage_client.dart:122-149): so does a list return its   *)
(* own entries, none of them twice.                                        *)
THEOREM SessionListReturnsOwn == SessionSpec => []ListReturnsOwn
<1>1. SessionInv => ListReturnsOwn
  BY DEF SessionInv, AloneInv, Undisturbed, ListReturnsOwn, Returned, Listens, Is
<1>. QED
  BY <1>1, SessionInvariant, PTL

(* The answer of the only session in use is the last of its request: the   *)
(* device is quiet when that session begins the next operation, as long as *)
(* it has given none up (wr_storage_client.dart:128-149, 318-352).         *)
THEOREM SessionAnswerIsTheLast == SessionSpec => []AnswerIsTheLast
<1>1. SessionInv => AnswerIsTheLast
  <2>. SUFFICES ASSUME SessionInv, NEW c \in Clients, abandoned = 0,
                       \A d \in Clients \ {c} : Unused(d), at[c] = "listening",
                       link = "subscribed"
                PROVE  alone[c]
    BY DEF AnswerIsTheLast, Is
  <2>1. Only(c) /\ \A d \in Clients \ {c} : at[d] = "closed"
    BY DEF Only, Unused
  <2>. QED
    BY <2>1 DEF SessionInv, OnlyInv, OnlyAt
<1>. QED
  BY <1>1, SessionInvariant, PTL

(***************************************************************************)
(* A list is complete.  ClosedInv: the files closed when the device began  *)
(* to answer are still there, and closed.  FullInv: each of them is sent,  *)
(* or still to be read, unless a notification was refused: the drain alone *)
(* holds credits back (DrainedInv), so that there is one for every entry.  *)
(***************************************************************************)
DrainedInv == spc # "drain" => drained = 0

ClosedInv ==
    /\ closed \subseteq DOMAIN card /\ current \notin closed
    /\ spc \in {"wait", "clear"} => closed = {}

EntriesSent == {out[k].arg : k \in {k \in 1 .. Len(out) : out[k].tag = "entry"}}

ListFull(c) ==
    cmds = <<>> /\ cmd = call[c] /\ call[c].op = "list" =>
       /\ spc = "list" => ~abort
       /\ faults = 0 /\ lost = 0 =>
             /\ spc = "list" => closed \subseteq EntriesSent \cup rest
             /\ spc \in {"end", "drain"} => closed \subseteq EntriesSent

FullInv == \A c \in Clients : alone[c] /\ at[c] = "waiting" => ListFull(c)

LEMMA ClosedInductive ==
    ASSUME StorageInv, ClosedInv, Step
    PROVE  ClosedInv'
<1>0. DOMAIN card \subseteq DOMAIN card' /\ DOMAIN card \subseteq Files /\ None \notin Files
  BY CardTypeInv, StorageAssumption DEF StorageInv, TypeOK, CardTypeOK
<1>. USE DEF ClosedInv, At, Goto, Return, sharedVars, threadVars, cardVars
<1>1. CASE Record
  BY <1>0, <1>1 DEF Record
<1>2. CASE UNCHANGED cardVars /\ closed' = closed /\ (spc' \in {"wait", "clear"} => spc \in {"wait", "clear"})
  BY <1>2
<1>3. CASE UNCHANGED cardVars /\ closed' = {}
  BY <1>3
<1>4. CASE ClearAbort
  BY <1>4 DEF ClearAbort, Opened
<1>5. CASE Sending
  <2>1. CASE \E f \in Files : ListEntry(f)
    BY <1>2, <2>1 DEF ListEntry
  <2>2. CASE SendSize \/ SendChunk
    BY <1>2, <2>2 DEF SendSize, SendChunk
  <2>3. CASE SendEnd \/ SendStatus
    BY <1>2, <2>3 DEF SendEnd, SendStatus
  <2>4. CASE SendError \/ RxError
    BY <1>2, <1>3, <2>4 DEF SendError, RxError
  <2>. QED
    BY <1>5, <2>1, <2>2, <2>3, <2>4 DEF Sending
<1>6. CASE SilentStep
  <2>1. CASE TakeCommand \/ ListFails \/ ListEnds
    BY <1>2, <2>1 DEF TakeCommand, ListFails, ListEnds
  <2>2. CASE StatFile \/ OpenFile \/ ReadFails \/ FetchEnds
    BY <1>2, <2>2 DEF StatFile, OpenFile, ReadFails, FetchEnds
  <2>3. CASE FetchAborted
    BY <1>3, <2>3 DEF FetchAborted
  <2>4. CASE WriteNonsense \/ WriteAbort \/ Connect \/ Subscribe \/ Unsubscribe
    BY <1>2, <2>4 DEF WriteNonsense, WriteAbort, Connect, Subscribe, Unsubscribe
  <2>5. ASSUME NEW op, NEW f, NEW offset, NEW length, WriteControl(op, f, offset, length)
        PROVE  ClosedInv'
    BY <1>2, <2>5 DEF WriteControl
  <2>6. CASE UNCHANGED vars
    BY <1>2, <2>6 DEF vars
  <2>. QED
    BY <1>1, <1>4, <1>6, <2>1, <2>2, <2>3, <2>4, <2>5, <2>6 DEF SilentStep
<1>7. CASE DrainTake \/ Complete \/ Disconnect
  BY <1>2, <1>7 DEF DrainTake, Complete, Disconnect
<1>8. CASE DrainGive
  BY <1>3, <1>8 DEF DrainGive
<1>. QED
  BY <1>5, <1>6, <1>7, <1>8, StepCases

LEMMA DrainedInductive ==
    ASSUME DrainedInv, Step
    PROVE  DrainedInv'
<1>. USE DEF DrainedInv, At, Goto, Return, sharedVars, threadVars
<1>1. CASE UNCHANGED drained /\ (spc' # "drain" => spc # "drain")
  BY <1>1
<1>2. CASE Sending
  BY <1>1, <1>2 DEF Sending, ListEntry, SendSize, SendChunk, SendEnd, SendStatus, SendError, RxError
<1>3. CASE SilentStep
  BY <1>1, <1>3 DEF SilentStep, TakeCommand, ClearAbort, ListFails, ListEnds, StatFile, OpenFile,
     FetchAborted, ReadFails, FetchEnds, WriteControl, WriteNonsense, WriteAbort, Connect,
     Subscribe, Unsubscribe, Record, vars
<1>4. CASE DrainTake \/ DrainGive \/ Complete \/ Disconnect
  BY <1>4 DEF DrainTake, DrainGive, Complete, Disconnect
<1>. QED
  BY <1>2, <1>3, <1>4, StepCases

(* Without faults, and with no completions lost, a notification is sent.   *)
LEMMA NoFaultNoFailure ==
    ASSUME StorageInv, CreditsAccounted, drained = 0, lost = 0, faults' = 0, NotifyFails
    PROVE  FALSE
<1>1. /\ Pipeline \in Nat \ {0} /\ credits \in Nat /\ faults \in Nat
      /\ air = <<>> => Len(air) = 0
  BY StorageAssumption DEF StorageInv, TypeOK, NotifyTypeOK, CountTypeOK
<1>. QED
  BY <1>1 DEF NotifyFails, Stalled, Fault, CreditsAccounted

LEMMA EntriesGrow ==
    ASSUME StorageInv, NEW m \in Notification, out' = Append(out, m)
    PROVE  /\ EntriesSent \subseteq EntriesSent'
           /\ m.tag = "entry" => m.arg \in EntriesSent'
<1>1. /\ Len(out) \in Nat /\ Len(out') = Len(out) + 1 /\ out'[Len(out) + 1] = m
      /\ \A k \in 1 .. Len(out) : out'[k] = out[k]
  BY Longer
<1>2. ASSUME NEW k \in 1 .. Len(out), out[k].tag = "entry"
      PROVE  out[k].arg \in EntriesSent'
  <2>1. k \in 1 .. Len(out') /\ out'[k] = out[k]
    BY <1>1
  <2>. QED
    BY <1>2, <2>1 DEF EntriesSent
<1>3. ASSUME m.tag = "entry" PROVE m.arg \in EntriesSent'
  <2>1. Len(out) + 1 \in 1 .. Len(out') /\ out'[Len(out) + 1].tag = "entry"
    BY <1>1, <1>3
  <2>2. m.arg = out'[Len(out) + 1].arg
    BY <1>1
  <2>. QED
    BY <2>1, <2>2 DEF EntriesSent
<1>. QED
  BY <1>2, <1>3 DEF EntriesSent

(* Before the answer, and after the drain, it says nothing.                *)
LEMMA NotUnderway ==
    ASSUME NEW c, cmds' # << >> \/ spc' \notin {"list", "end", "drain"}
    PROVE  ListFull(c)'
BY DEF ListFull

LEMMA FullThread ==
    ASSUME StorageInv, FetchInv, ClosedInv, DrainedInv, CreditsAccounted, NEW c \in Clients,
           cmds = << >>, cmd = call[c] => ListFull(c),
           link = "subscribed", StorageThread, UNCHANGED clientVars
    PROVE  ListFull(c)'
<1>. SUFFICES ASSUME cmd' = call[c], call[c].op = "list", spc' \in {"list", "end", "drain"}
              PROVE  /\ spc' = "list" => ~abort'
                     /\ faults' = 0 /\ lost' = 0 =>
                           /\ spc' = "list" => closed' \subseteq EntriesSent' \cup rest'
                           /\ spc' \in {"end", "drain"} => closed' \subseteq EntriesSent'
  BY DEF ListFull, clientVars, callVars
<1>. USE DEF At, Goto, sharedVars, boundVars, notifyVars, cardVars
<1>0. spc # "wait" /\ cmd' = cmd
  BY ThreadKeeps
<1>1. /\ spc = "list" => ~abort
      /\ faults = 0 /\ lost = 0 =>
            /\ spc = "list" => closed \subseteq EntriesSent \cup rest
            /\ spc \in {"end", "drain"} => closed \subseteq EntriesSent
  BY <1>0 DEF ListFull
<1>2. closed \subseteq DOMAIN card /\ current \notin closed /\ DOMAIN card \subseteq Files
      /\ faults \in Nat
  BY DEF ClosedInv, StorageInv, TypeOK, CardTypeOK, CountTypeOK
<1>3. CASE ClearAbort
  <2>1. spc' = "list" /\ ~abort' /\ rest' = Files /\ closed' \subseteq DOMAIN card
    BY <1>0, <1>3 DEF ClearAbort, Opened
  <2>. QED
    BY <1>2, <2>1
<1>4. CASE ListFails
  BY <1>2, <1>4 DEF ListFails, Fault
<1>5. CASE ListEnds
  <2>1. /\ spc = "list" /\ spc' = "end" /\ rest \cap DOMAIN card = {}
        /\ UNCHANGED <<closed, out, faults, lost>>
    BY <1>1, <1>5 DEF ListEnds
  <2>. QED
    BY <1>1, <1>2, <2>1 DEF EntriesSent
<1>6. ASSUME NEW f \in Files, ListEntry(f)
      PROVE  /\ spc' = "list" /\ ~abort'
             /\ faults' = 0 /\ lost' = 0 => closed' \subseteq EntriesSent' \cup rest'
  <2>1. /\ spc = "list" /\ spc' = "list" /\ rest' = rest \ {f}
        /\ UNCHANGED <<abort, lost, closed>> /\ ~abort /\ drained = 0
    BY <1>6 DEF ListEntry, DrainedInv
  <2>2. faults' = 0 => faults = 0
    BY <1>2, <1>6 DEF ListEntry, NotifyFails, NoFault, Fault, Stalled
  <2>3. CASE f \notin closed /\ UNCHANGED notifyVars
    BY <1>1, <2>1, <2>2, <2>3 DEF EntriesSent
  <2>4. CASE Notify(Msg("entry", f))
    <3> DEFINE m == Msg("entry", f)
    <3>1. m \in Notification /\ m.tag = "entry" /\ m.arg = f /\ out' = Append(out, m)
      BY <2>4, MsgType DEF Notify, Msg
    <3>. HIDE DEF m
    <3>2. EntriesSent \subseteq EntriesSent' /\ f \in EntriesSent'
      BY <3>1, EntriesGrow
    <3>. QED
      BY <1>1, <2>1, <2>2, <3>2
  <2>5. CASE NotifyFails
    BY <2>1, <2>5, NoFaultNoFailure
  <2>. QED
    BY <1>2, <1>6, <2>3, <2>4, <2>5 DEF ListEntry
<1>7. CASE SendEnd
  <2>1. /\ spc = "end" /\ spc' = "drain" /\ UNCHANGED <<lost, closed>>
    BY <1>7 DEF SendEnd
  <2>2. faults' = 0 => faults = 0
    BY <1>2, <1>7 DEF SendEnd, Answer, NotifyFails, NoFault, Fault, Stalled
  <2>3. EntriesSent \subseteq EntriesSent'
    <3>1. CASE UNCHANGED notifyVars
      BY <3>1 DEF EntriesSent
    <3>2. CASE out' = Append(out, Msg("end", 0))
      BY <3>2, MsgType, EntriesGrow
    <3>. QED
      BY <1>7, <3>1, <3>2 DEF SendEnd, Answer, Notify, NotifyFails
  <2>. QED
    BY <1>1, <2>1, <2>2, <2>3
<1>8. CASE DrainTake
  <2>1. spc = "drain" /\ spc' = "drain" /\ UNCHANGED <<lost, closed, out>>
    BY <1>8 DEF DrainTake
  <2>2. faults' = 0 => faults = 0
    BY <1>2, <1>8 DEF DrainTake, NoFault, Fault, Stalled
  <2>. QED
    BY <1>1, <2>1, <2>2 DEF EntriesSent
<1>9. CASE FetchEnds \/ SendStatus
  BY <1>0, <1>9 DEF FetchEnds, SendStatus, FetchInv, FetchControl
<1>10. CASE StatFile \/ OpenFile \/ SendSize \/ FetchAborted \/ SendChunk \/ ReadFails
            \/ SendError \/ DrainGive \/ TakeCommand
  BY <1>0, <1>10 DEF StatFile, OpenFile, SendSize, FetchAborted, SendChunk, ReadFails,
     SendError, DrainGive, TakeCommand, Return
<1>11. CASE \E f \in Files : ListEntry(f)
  <2>1. /\ spc' = "list" /\ ~abort'
        /\ faults' = 0 /\ lost' = 0 => closed' \subseteq EntriesSent' \cup rest'
    BY <1>6, <1>11, Zenon
  <2>. QED
    BY <2>1
<1>. QED
  BY <1>3, <1>4, <1>5, <1>7, <1>8, <1>9, <1>10, <1>11 DEF StorageThread

LEMMA FullClient ==
    ASSUME StorageInv, SessionTypeOK, AloneInv, NEW c \in Clients, alone'[c], at'[c] = "waiting",
           alone[c] /\ at[c] = "waiting" => ListFull(c), NEW d \in Clients, Client(d)
    PROVE  ListFull(c)'
<1>. USE DEF Is, Put, SessionTypeOK
<1>1. alone[c] => Undisturbed(c)
  BY DEF AloneInv
<1>2. CASE SendRequest(d)
  <2>1. c = d /\ alone[c]
    BY <1>2 DEF SendRequest, OthersDisturbed
  <2>2. Settled
    BY <1>1, <1>2, <2>1 DEF SendRequest, Undisturbed
  <2>3. Queued(call[c])'
    BY <1>2, <2>1, <2>2, RequestQueued
  <2>4. cmds' # <<>>
    BY <2>3 DEF Queued
  <2>. QED
    BY <2>4, NotUnderway
<1>3. CASE UNCHANGED vars /\ UNCHANGED <<call[c], at[c], alone[c]>>
  BY <1>3 DEF ListFull, EntriesSent, vars, sharedVars, notifyVars, threadVars, boundVars
<1>4. ASSUME NEW r \in Calls, Begin(d, r)
      PROVE  ListFull(c)'
  <2>1. c # d
    BY <1>4 DEF Begin
  <2>. QED
    BY <1>3, <1>4, <2>1 DEF Begin
<1>5. CASE Open(d)
  <2>1. c # d /\ UNCHANGED <<call[c], at[c], alone[c]>>
    BY <1>5 DEF Open, callVars
  <2>2. link = "subscribed"
    BY <1>1, <2>1 DEF Undisturbed, Listens
  <2>. QED
    BY <1>3, <1>5, <2>1, <2>2 DEF Open, Subscribe
<1>6. CASE SendThrows(d) \/ TimesOut(d)
  BY <1>3, <1>6 DEF SendThrows, TimesOut
<1>7. CASE CloseAbort(d) \/ CloseUnsubscribe(d)
  <2>1. c = d
    BY <1>7 DEF CloseAbort, CloseUnsubscribe, OthersDisturbed
  <2>. QED
    BY <1>7, <2>1 DEF CloseAbort, CloseUnsubscribe
<1>. QED
  BY <1>2, <1>4, <1>5, <1>6, <1>7 DEF Client

LEMMA FullInvStep ==
    ASSUME SessionInv, ClosedInv, DrainedInv, CreditsAccounted, FullInv,
           [SessionNext]_sessionVars
    PROVE  FullInv'
<1>. SUFFICES ASSUME NEW c \in Clients, alone'[c], at'[c] = "waiting"
              PROVE  ListFull(c)'
  BY DEF FullInv
<1>0. /\ StorageInv /\ FetchInv /\ SessionTypeOK /\ AloneInv
      /\ alone[c] => Undisturbed(c)
      /\ alone[c] /\ at[c] = "waiting" => ListFull(c)
  BY DEF SessionInv, AloneInv, FullInv
<1>1. CASE Device
  <2>1. alone[c] /\ at[c] = "waiting" /\ UNCHANGED clientVars
    BY <1>1 DEF Device, clientVars
  <2>2. /\ link = "subscribed" /\ rx = 0
        /\ (Queued(call[c]) /\ heard[c] = <<>>) \/ Served(c)
    BY <1>0, <2>1 DEF Undisturbed, Listens
  <2>3. StorageThread
    BY <1>1, <2>2 DEF Device, RxError
  <2>4. CASE Queued(call[c])
    <3>1. \/ Queued(call[c])'
          \/ spc' = "clear"
      BY <1>0, <2>1, <2>3, <2>4, QueuedThread
    <3>. QED
      BY <3>1, NotUnderway DEF Queued
  <2>5. CASE Served(c)
    <3>1. cmds = <<>> /\ ListFull(c)
      BY <1>0, <2>1, <2>5 DEF Served
    <3>. QED
      BY <1>0, <2>1, <2>2, <2>3, <3>1, FullThread
  <2>. QED
    BY <2>2, <2>4, <2>5
<1>2. CASE Deliver
  <2>1. at[c] = "waiting" /\ alone[c] /\ call' = call
    BY <1>0, <1>2 DEF Deliver, Hear, SessionTypeOK
  <2>2. UNCHANGED <<cmds, cmd, spc, abort, faults, lost, closed, out, rest>>
    BY <1>2 DEF Deliver, Complete, sharedVars, threadVars, boundVars
  <2>. QED
    BY <1>0, <2>1, <2>2 DEF ListFull, EntriesSent
<1>3. CASE Link
  <2>1. Connect /\ alone[c] /\ at[c] = "waiting" /\ link = "down"
    BY <1>3 DEF Link, Connect
  <2>. QED
    BY <1>0, <2>1 DEF Undisturbed, Listens
<1>4. CASE \E d \in Clients : Client(d)
  BY <1>0, <1>4, FullClient
<1>5. CASE Recording \/ UNCHANGED sessionVars
  <2>1. UNCHANGED <<cmds, cmd, spc, abort, faults, lost, closed, out, rest, at, call, alone>>
    BY <1>5 DEF Recording, Record, sessionVars, vars, sharedVars, notifyVars, threadVars,
       boundVars, clientVars, callVars
  <2>. QED
    BY <1>0, <2>1 DEF ListFull, EntriesSent
<1>. QED
  BY <1>1, <1>2, <1>3, <1>4, <1>5 DEF SessionNext

(* The END arrives: what went before it is what the session has heard.     *)
LEMMA HearsAll ==
    ASSUME StorageInv, SessionTypeOK, ClosedInv, NEW c \in Clients, Undisturbed(c), ListFull(c),
           at[c] = "waiting", Deliver, Returned(c, "list")', faults = 0, lost = 0
    PROVE  closed \subseteq {heard[c][k].arg : k \in 1 .. Len(heard[c])}
<1> DEFINE m == Head(air)
<1>0. air # <<>> /\ call' = call
  BY DEF Deliver, Complete
<1>1. Served(c) /\ outcome[c] = "open"
  BY <1>0 DEF Undisturbed, Listens, Queued
<1>2. /\ Delivered \in Nat /\ Delivered + 1 \in 1 .. Len(out) /\ m = out[Delivered + 1]
  BY <1>1, NextDelivered DEF Deliver, Served
<1>. HIDE DEF m
<1>3. call[c].op = "list" /\ at'[c] = "idle" /\ outcome'[c] = "ok"
  BY <1>0 DEF Returned, Is
<1>4. m.tag = "end"
  BY <1>1, <1>3 DEF Deliver, Hear, Completes, SessionTypeOK, m
<1>5. Delivered + 1 = Len(out) /\ spc \in {"drain", "wait"}
  BY <1>1, <1>2, <1>4 DEF Served, Answering, Ending
<1>6. closed \subseteq EntriesSent
  <2>1. CASE spc = "wait"
    BY <2>1 DEF ClosedInv
  <2>2. CASE spc = "drain"
    BY <1>1, <1>3, <2>2 DEF ListFull, Served
  <2>. QED
    BY <1>5, <2>1, <2>2
<1>7. Len(heard[c]) = Delivered /\ \A k \in 1 .. Delivered : heard[c][k] = out[k]
  BY <1>1, <1>3 DEF Served, Collected
<1>8. ASSUME NEW k \in 1 .. Len(out), out[k].tag = "entry"
      PROVE  k \in 1 .. Len(heard[c]) /\ heard[c][k].arg = out[k].arg
  <2>1. k # Delivered + 1
    BY <1>2, <1>4, <1>8
  <2>2. k \in 1 .. Delivered
    BY <1>2, <1>5, <2>1
  <2>. QED
    BY <1>7, <2>2
<1>. QED
  BY <1>6, <1>8 DEF EntriesSent

(* listFiles (wr_storage_client.dart:122-149): a list that is undisturbed  *)
(* by other sessions has every file that was closed when the device began  *)
(* to answer it, whatever the recorder creates and closes meanwhile, as    *)
(* long as no notification was refused and no completion was lost          *)
(* (wr_storage_service.c:233-283).                                         *)
THEOREM SessionListIsComplete == SessionSpec => ListIsComplete
<1> DEFINE IInv == ClosedInv /\ DrainedInv /\ CreditsAccounted /\ FullInv
<1>1. SessionInit => IInv
  BY StorageAssumption DEF SessionInit, Init, ClosedInv, DrainedInv, CreditsAccounted, FullInv
<1>2. SessionInv /\ IInv /\ [SessionNext]_sessionVars => IInv'
  <2>. SUFFICES ASSUME SessionInv, IInv, [SessionNext]_sessionVars PROVE IInv'
    OBVIOUS
  <2>1. StorageInv /\ SessionTypeOK /\ Step
    BY SessionIsStep DEF SessionInv
  <2>2. ClosedInv' /\ DrainedInv' /\ CreditsAccounted'
    BY <2>1, ClosedInductive, DrainedInductive, CreditsInductive
  <2>. QED
    BY <2>2, FullInvStep
<1>3. SessionInv /\ IInv /\ [SessionNext]_sessionVars =>
         [\A c \in Clients :
             alone[c] /\ Is(c, "waiting") /\ Returned(c, "list")' /\ faults = 0 /\ lost = 0
                => closed \subseteq {heard[c][k].arg : k \in 1 .. Len(heard[c])}]_sessionVars
  <2>. SUFFICES ASSUME SessionInv, IInv, SessionNext, NEW c \in Clients, alone[c],
                       at[c] = "waiting", Returned(c, "list")', faults = 0, lost = 0
                PROVE  closed \subseteq {heard[c][k].arg : k \in 1 .. Len(heard[c])}
    BY DEF Is
  <2>0. StorageInv /\ SessionTypeOK /\ Undisturbed(c) /\ ListFull(c)
    BY DEF SessionInv, AloneInv, FullInv
  <2>1. at'[c] = "idle" /\ outcome'[c] = "ok"
    BY DEF Returned, Is
  <2>2. outcome[c] = "open"
    BY <2>0 DEF Undisturbed, Listens
  <2>3. CASE Deliver
    BY <2>0, <2>3, HearsAll
  <2>4. CASE Device \/ Recording \/ Link
    BY <2>1, <2>4 DEF Device, Recording, Link, clientVars
  <2>5. ASSUME NEW d \in Clients, Client(d)
        PROVE  FALSE
    <3>. USE DEF Is, Put, SessionTypeOK
    <3>1. CASE Open(d) \/ CloseAbort(d) \/ CloseUnsubscribe(d)
      BY <2>0, <2>1, <2>2, <3>1 DEF Open, CloseAbort, CloseUnsubscribe, callVars
    <3>2. CASE SendRequest(d) \/ SendThrows(d) \/ TimesOut(d)
      BY <2>0, <2>1, <2>2, <3>2 DEF SendRequest, SendThrows, TimesOut
    <3>3. ASSUME NEW r \in Calls, Begin(d, r) PROVE FALSE
      BY <2>0, <2>1, <2>2, <3>3 DEF Begin
    <3>. QED
      BY <2>5, <3>1, <3>2, <3>3 DEF Client
  <2>. QED
    BY <2>3, <2>4, <2>5 DEF SessionNext
<1>. QED
  BY <1>1, <1>2, <1>3, SessionInvariant, PTL DEF SessionSpec, ListIsComplete
=============================================================================
