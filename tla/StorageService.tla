--------------------------- MODULE StorageService ---------------------------
(***************************************************************************)
(* The storage service of the mozzy firmware                               *)
(* (firmware/src/wr_storage_service.c): a phone writes LIST, FETCH, STATUS *)
(* and ABORT to the control characteristic, a thread of its own serves     *)
(* them with notifications, at most Pipeline of them in flight.            *)
(*                                                                         *)
(* The storage thread (priority 8) is preempted at every step by the BLE   *)
(* RX thread, which runs write_control and the subscription callback, and  *)
(* by the completion callbacks of the Bluetooth stack.                     *)
(*                                                                         *)
(* Abstraction: a file is a number of chunks, the bytes one DATA           *)
(* notification carries; offsets and lengths count chunks.                 *)
(***************************************************************************)
EXTENDS Integers, Sequences, FiniteSets

CONSTANTS
    Files,          \* names of audio files (*.opus_sd)
    None,           \* no file: the empty basename; also a name not allowed
    Pipeline,       \* STORAGE_NOTIFY_PIPELINE
    QueueDepth,     \* STORAGE_CMD_QUEUE_DEPTH
    Offsets, Lengths,   \* the windows the phone asks for (length 0: to EOF)
    MaxSize, MaxRequests, MaxLinks, MaxFaults   \* bounds of the model

ASSUME StorageAssumption ==
    /\ None \notin Files
    /\ {Pipeline, QueueDepth} \subseteq Nat \ {0}
    /\ Offsets \subseteq Nat /\ Lengths \subseteq Nat
    /\ {MaxSize, MaxRequests, MaxLinks, MaxFaults} \subseteq Nat

VARIABLES
    \* shared by the storage thread, BLE RX and the stack's callbacks
    link,           \* "down", "up", or "subscribed" (storage_notify_enabled)
    cmds,           \* storage_cmd_queue
    abort,          \* storage_abort_requested
    credits,        \* storage_notify_credits
    air,            \* notifications the stack holds, oldest first
    rx,             \* BLE RX inside a notify_error of write_control: its request
    \* the storage thread
    spc,            \* where it stands
    cmd,            \* the command it serves
    rest, closed,   \* LIST: entries not read yet; files complete when it began
    size,           \* FETCH: size that fs_stat reported
    eof,            \* FETCH: size of the file as opened
    next, sent,     \* FETCH: read position, chunks sent
    drained,        \* credits taken by storage_notify_drain so far
    \* the card, which the recorder writes
    card,           \* committed size of each file there is
    current,        \* file being recorded, or None
    \* counters the bounds cap
    requests, links, faults,
    \* history, for the properties only
    out,            \* notifications sent since cmd was taken or the phone subscribed
    steady,         \* subscribed ever since cmd was taken from the queue
    abortedUpTo,    \* last request written before the last ABORT
    lost            \* completions that will never come, since the last drain

sharedVars  == <<link, cmds, abort, rx, lost, steady, abortedUpTo>>
cardVars    == <<card, current>>
fetchVars   == <<size, eof, next, sent>>
threadVars  == <<spc, cmd, rest, fetchVars, drained, closed>>
notifyVars  == <<credits, air, out>>
boundVars   == <<requests, links, faults>>
vars == <<sharedVars, notifyVars, threadVars, cardVars, boundVars>>

Command == [op : {"list", "fetch", "status"}, file : Files \cup {None},
            offset : Nat, length : Nat, id : Nat]
Notification == [tag : {"entry", "data", "end", "size", "status", "error"},
                 req : Nat, arg : Nat \cup Files \cup {None}]
NoCommand == [op |-> "status", file |-> None, offset |-> 0, length |-> 0, id |-> 0]
Msg(tag, arg) == [tag |-> tag, req |-> cmd.id, arg |-> arg]

PC == {"wait", "clear", "list", "stat", "open", "size", "loop", "end", "error",
       "status", "drain"}

NotifyTypeOK ==
    /\ link \in {"down", "up", "subscribed"} /\ steady \in BOOLEAN
    /\ credits \in 0 .. Pipeline /\ drained \in 0 .. Pipeline /\ lost \in Nat
    /\ {air, out} \subseteq Seq(Notification)

CommandTypeOK ==
    /\ cmds \in Seq(Command) /\ Len(cmds) <= QueueDepth
    /\ cmd \in Command /\ abort \in BOOLEAN
    /\ abortedUpTo <= requests

ThreadTypeOK ==
    /\ spc \in PC /\ {size, eof, next, sent} \subseteq Nat
    /\ rest \subseteq Files /\ closed \subseteq Files

CardTypeOK ==
    /\ DOMAIN card \subseteq Files /\ \A f \in DOMAIN card : card[f] \in Nat
    /\ current \in DOMAIN card \cup {None}

CountTypeOK == {rx, requests, links, faults, abortedUpTo} \subseteq Nat

TypeOK == NotifyTypeOK /\ CommandTypeOK /\ ThreadTypeOK /\ CardTypeOK /\ CountTypeOK
-----------------------------------------------------------------------------
(***************************************************************************)
(* Any card, nobody connected.                                             *)
(***************************************************************************)
Init ==
    /\ link = "down" /\ cmds = <<>> /\ abort = FALSE
    /\ credits = Pipeline /\ air = <<>> /\ rx = 0
    /\ spc = "wait" /\ cmd = NoCommand /\ rest = {} /\ drained = 0
    /\ size = 0 /\ eof = 0 /\ next = 0 /\ sent = 0
    /\ \E there \in SUBSET Files : card \in [there -> 0 .. MaxSize]
    /\ current = None
    /\ requests = 0 /\ links = 0 /\ faults = 0
    /\ out = <<>> /\ steady = FALSE /\ closed = {} /\ abortedUpTo = 0 /\ lost = 0

Fault   == faults < MaxFaults /\ faults' = faults + 1
NoFault == UNCHANGED faults

(***************************************************************************)
(* storage_notify.  Without a subscriber it reports success and sends      *)
(* nothing.  Otherwise it takes a credit, and gives it back when the stack *)
(* refuses the notification for 5 s.  It gives up after 5 s without a      *)
(* credit, even if the subscription has ended meanwhile: when none is in   *)
(* flight and no drain will give one in time, that is bound to happen;     *)
(* otherwise the link has stalled.                                         *)
(***************************************************************************)
Notify(m) ==
    \/ /\ link # "subscribed"
       /\ UNCHANGED notifyVars
    \/ /\ link = "subscribed" /\ credits > 0
       /\ credits' = credits - 1
       /\ air' = Append(air, m) /\ out' = Append(out, m)

Stalled ==
    /\ credits = 0
    /\ IF air = <<>> /\ (drained = 0 \/ lost > 0) THEN NoFault ELSE Fault

RefusalLeaks ==                                                     \* mutant
    \/ /\ link = "subscribed" /\ credits > 0 /\ Fault
       /\ credits' = credits - 1
       /\ UNCHANGED <<air, out>>
    \/ Stalled /\ UNCHANGED notifyVars

NotifyFails ==
    /\ (link = "subscribed" /\ credits > 0 /\ Fault) \/ Stalled
    /\ UNCHANGED notifyVars

(***************************************************************************)
(* The storage thread.  A step runs from one notification, or one read of  *)
(* what others write, to the next.                                         *)
(***************************************************************************)
At(label)   == spc = label
Goto(label) == spc' = label

(* The handler returns: its locals are gone, and the thread waits again.   *)
Return ==
    /\ Goto("wait")
    /\ cmd' = NoCommand /\ rest' = {} /\ closed' = {}
    /\ size' = 0 /\ eof' = 0 /\ next' = 0 /\ sent' = 0

TakeCommand ==
    /\ At("wait") /\ Goto("clear")
    /\ cmds # <<>>
    /\ cmd' = Head(cmds) /\ cmds' = Tail(cmds)
    /\ steady' = (link = "subscribed") /\ out' = <<>>
    /\ UNCHANGED <<link, abort, rx, lost, abortedUpTo, credits, air, rest,
                   fetchVars, drained, closed, cardVars, boundVars>>

Opened(op) == CASE op = "list" -> "list" [] op = "fetch" -> "stat" [] OTHER -> "status"

ClearAbortButForList ==                                             \* mutant
    /\ At("clear") /\ Goto(Opened(cmd.op))
    /\ abort' = (abort /\ cmd.op = "list")
    /\ rest' = Files /\ closed' = IF cmd.op = "list" THEN DOMAIN card \ {current} ELSE {}
    /\ UNCHANGED <<link, cmds, rx, lost, steady, abortedUpTo, notifyVars, cmd,
                   fetchVars, drained, cardVars, boundVars>>

ClearAbort ==
    /\ At("clear") /\ Goto(Opened(cmd.op))
    /\ abort' = FALSE
    /\ rest' = Files /\ closed' = IF cmd.op = "list" THEN DOMAIN card \ {current} ELSE {}
    /\ UNCHANGED <<link, cmds, rx, lost, steady, abortedUpTo, notifyVars, cmd,
                   fetchVars, drained, cardVars, boundVars>>

(* handle_list.  fs_opendir can fail, which is an error, and fs_readdir,   *)
(* which ends the list.  An entry that could not be sent is passed over,   *)
(* the current file too, and a file created since the list began can be.   *)
ListFails ==
    /\ At("list") /\ Fault
    /\ \/ rest = Files /\ Goto("error")
       \/ ~abort /\ Goto("end")
    /\ UNCHANGED <<sharedVars, notifyVars, cmd, rest, fetchVars, drained,
                   closed, cardVars, requests, links>>

ListEntry(f) ==
    /\ At("list") /\ ~abort
    /\ f \in rest \cap DOMAIN card
    /\ Goto("list")
    /\ rest' = rest \ {f}
    /\ \/ (f = current \/ f \notin closed) /\ UNCHANGED notifyVars /\ NoFault
       \/ f # current /\ Notify(Msg("entry", f)) /\ NoFault
       \/ f # current /\ NotifyFails
    /\ UNCHANGED <<sharedVars, cmd, fetchVars, drained, closed, cardVars,
                   requests, links>>

ListEnds ==
    /\ At("list") /\ Goto("end")
    /\ abort \/ rest \cap DOMAIN card = {}
    /\ UNCHANGED <<sharedVars, notifyVars, cmd, rest, fetchVars, drained,
                   closed, cardVars, boundVars>>

(* handle_fetch, up to its FILE_SIZE.  A name that is not allowed, or a    *)
(* file that is not there, cannot be opened or positioned, is an error.    *)
Smaller(a, b) == IF a < b THEN a ELSE b

StatFile ==
    /\ At("stat")
    /\ \/ /\ cmd.file \in DOMAIN card
          /\ size' = card[cmd.file]
          /\ next' = Smaller(cmd.offset, size') /\ sent' = 0
          /\ NoFault /\ Goto("open")
       \/ /\ IF cmd.file \in DOMAIN card THEN Fault ELSE NoFault
          /\ UNCHANGED <<size, next, sent>> /\ Goto("error")
    /\ UNCHANGED <<sharedVars, notifyVars, cmd, rest, eof, drained, closed,
                   cardVars, requests, links>>

(* The handle keeps the size the file has now, which may be more than what *)
(* fs_stat said.  What the recorder commits later is not read.             *)
OpenFile ==
    /\ At("open")
    /\ \/ eof' = card[cmd.file] /\ NoFault /\ Goto("size")
       \/ UNCHANGED eof /\ Fault /\ Goto("error")
    /\ UNCHANGED <<sharedVars, notifyVars, cmd, rest, size, next, sent,
                   drained, closed, cardVars, requests, links>>

SendSize ==
    /\ At("size")
    /\ \/ Notify(Msg("size", size)) /\ NoFault /\ Goto("loop")
       \/ NotifyFails /\ Goto("error")
    /\ UNCHANGED <<sharedVars, cmd, rest, fetchVars, drained, closed, cardVars,
                   requests, links>>

(* The transfer loop.  An abort ends it with no END, and with no drain.    *)
WindowFull == cmd.length # 0 /\ sent >= cmd.length

FetchAborted ==
    /\ At("loop") /\ Return
    /\ abort
    /\ UNCHANGED <<sharedVars, notifyVars, drained, cardVars, boundVars>>

SendChunkSkipping ==                                                \* mutant
    /\ At("loop") /\ ~abort
    /\ ~WindowFull /\ next < eof
    /\ Goto("loop") /\ next' = next + 1 /\ sent' = sent + 1
    /\ (Notify(Msg("data", next)) /\ NoFault) \/ NotifyFails
    /\ UNCHANGED <<sharedVars, cmd, rest, size, eof, drained, closed, cardVars,
                   requests, links>>

SendChunk ==
    /\ At("loop") /\ ~abort
    /\ ~WindowFull /\ next < eof
    /\ \/ /\ Notify(Msg("data", next)) /\ NoFault /\ Goto("loop")
          /\ next' = next + 1 /\ sent' = sent + 1
       \/ NotifyFails /\ UNCHANGED <<next, sent>> /\ Goto("error")
    /\ UNCHANGED <<sharedVars, cmd, rest, size, eof, drained, closed, cardVars,
                   requests, links>>

ReadFails ==
    /\ At("loop") /\ ~abort /\ Goto("error")
    /\ ~WindowFull /\ Fault
    /\ UNCHANGED <<sharedVars, notifyVars, cmd, rest, fetchVars, drained,
                   closed, cardVars, requests, links>>

FetchEndsSilently ==                                                \* mutant
    /\ At("loop") /\ ~abort /\ Return
    /\ WindowFull \/ next >= eof
    /\ UNCHANGED <<sharedVars, notifyVars, drained, cardVars, boundVars>>

FetchEnds ==
    /\ At("loop") /\ ~abort /\ Goto("end")
    /\ WindowFull \/ next >= eof
    /\ UNCHANGED <<sharedVars, notifyVars, cmd, rest, fetchVars, drained,
                   closed, cardVars, boundVars>>

(* notify_end and the reply of handle_status, then the drain; notify_error *)
(* has none.  None of the three looks whether it was sent.                 *)
Answer(m) == (Notify(m) /\ NoFault) \/ NotifyFails

SendEnd ==
    /\ At("end") /\ Goto("drain")
    /\ Answer(Msg("end", 0))
    /\ UNCHANGED <<sharedVars, cmd, rest, fetchVars, drained, closed, cardVars,
                   requests, links>>

SendStatus ==
    /\ At("status") /\ Goto("drain")
    /\ Answer(Msg("status", current))
    /\ UNCHANGED <<sharedVars, cmd, rest, fetchVars, drained, closed, cardVars,
                   requests, links>>

SendError ==
    /\ At("error") /\ Return
    /\ Answer(Msg("error", 0))
    /\ UNCHANGED <<sharedVars, drained, cardVars, requests, links>>

(* storage_notify_drain takes Pipeline credits, each within 5 s or not,    *)
(* and gives Pipeline back; the semaphore holds no more than that.         *)
DrainTake ==
    /\ At("drain") /\ drained < Pipeline /\ Goto("drain")
    /\ \/ credits > 0 /\ credits' = credits - 1 /\ NoFault
       \/ Stalled /\ UNCHANGED credits
    /\ drained' = drained + 1
    /\ UNCHANGED <<sharedVars, air, out, cmd, rest, fetchVars, closed,
                   cardVars, requests, links>>

DrainGivesTaken ==                                                  \* mutant
    /\ At("drain") /\ drained = Pipeline /\ Return
    /\ credits' = Smaller(Pipeline, credits + drained - lost) /\ drained' = 0
    /\ UNCHANGED <<sharedVars, air, out, cardVars, boundVars>>

DrainGive ==
    /\ At("drain") /\ drained = Pipeline /\ Return
    /\ credits' = Pipeline /\ drained' = 0 /\ lost' = 0
    /\ UNCHANGED <<link, cmds, abort, rx, steady, abortedUpTo, air, out,
                   cardVars, boundVars>>

StorageThread ==
    \/ TakeCommand \/ ClearAbort
    \/ ListFails \/ (\E f \in Files : ListEntry(f)) \/ ListEnds
    \/ StatFile \/ OpenFile \/ SendSize
    \/ FetchAborted \/ SendChunk \/ ReadFails \/ FetchEnds
    \/ SendEnd \/ SendError \/ SendStatus \/ DrainTake \/ DrainGive
-----------------------------------------------------------------------------
(***************************************************************************)
(* BLE RX: write_control.  A request that the queue has no room for, and   *)
(* one that makes no sense, is answered with an ERROR right here.          *)
(***************************************************************************)
Connected == link # "down" /\ rx = 0

QueueFullLate == Len(cmds) = QueueDepth + 1                         \* mutant
QueueFull     == Len(cmds) = QueueDepth

WriteControl(op, file, offset, length) ==
    /\ Connected /\ requests < MaxRequests
    /\ requests' = requests + 1
    /\ IF QueueFull
       THEN rx' = requests' /\ UNCHANGED cmds
       ELSE /\ cmds' = Append(cmds, [op |-> op, file |-> file, offset |-> offset,
                                     length |-> length, id |-> requests'])
            /\ UNCHANGED rx
    /\ UNCHANGED <<link, abort, lost, steady, abortedUpTo, notifyVars,
                   threadVars, cardVars, links, faults>>

WriteNonsense ==
    /\ Connected /\ requests < MaxRequests
    /\ requests' = requests + 1 /\ rx' = requests'
    /\ UNCHANGED <<link, cmds, abort, lost, steady, abortedUpTo, notifyVars,
                   threadVars, cardVars, links, faults>>

RxError ==
    /\ rx # 0 /\ rx' = 0
    /\ \/ Notify([tag |-> "error", req |-> rx, arg |-> 0]) /\ NoFault
       \/ NotifyFails
    /\ UNCHANGED <<link, cmds, abort, lost, steady, abortedUpTo, threadVars,
                   cardVars, requests, links>>

WriteAbort ==
    /\ Connected
    /\ abort' = TRUE /\ cmds' = <<>>
    /\ abortedUpTo' = requests
    /\ UNCHANGED <<link, rx, lost, steady, notifyVars, threadVars, cardVars,
                   boundVars>>

(***************************************************************************)
(* The link.  storage_ccc_changed follows the subscription, and the stack  *)
(* drops it with the connection.  Notifications complete in order; of      *)
(* those in flight when the connection ends, some never complete.          *)
(***************************************************************************)
Connect ==
    /\ link = "down" /\ rx = 0 /\ links < MaxLinks
    /\ link' = "up" /\ links' = links + 1
    /\ UNCHANGED <<cmds, abort, rx, lost, steady, abortedUpTo, notifyVars,
                   threadVars, cardVars, requests, faults>>

Subscribe ==
    /\ link = "up" /\ rx = 0
    /\ link' = "subscribed" /\ out' = <<>>
    /\ UNCHANGED <<cmds, abort, rx, lost, steady, abortedUpTo, credits, air,
                   threadVars, cardVars, boundVars>>

Unsubscribe ==
    /\ link = "subscribed" /\ rx = 0
    /\ link' = "up" /\ steady' = FALSE
    /\ UNCHANGED <<cmds, abort, rx, lost, abortedUpTo, notifyVars, threadVars,
                   cardVars, boundVars>>

(* storage_notify_complete.                                                *)
Complete ==
    /\ air # <<>>
    /\ air' = Tail(air) /\ credits' = Smaller(Pipeline, credits + 1)
    /\ UNCHANGED <<sharedVars, out, threadVars, cardVars, boundVars>>

Disconnect ==
    /\ link # "down" /\ rx = 0
    /\ link' = "down" /\ steady' = FALSE
    /\ air' = <<>>
    /\ \E completed \in 0 .. Len(air) :
          /\ credits' = Smaller(Pipeline, credits + completed)
          /\ lost' = lost + Len(air) - completed
    /\ UNCHANGED <<cmds, abort, rx, abortedUpTo, out, threadVars, cardVars,
                   boundVars>>

(***************************************************************************)
(* The recorder, as this service sees it: a new file, committed sizes that *)
(* grow, a file closed.                                                    *)
(***************************************************************************)
Record ==
    /\ \/ /\ current = None
          /\ \E f \in Files \ DOMAIN card :
                /\ current' = f
                /\ card' = [g \in DOMAIN card \cup {f} |-> IF g = f THEN 0 ELSE card[g]]
       \/ /\ current # None /\ card[current] < MaxSize
          /\ card' = [card EXCEPT ![current] = @ + 1]
          /\ UNCHANGED current
       \/ current # None /\ current' = None /\ UNCHANGED card
    /\ UNCHANGED <<sharedVars, notifyVars, threadVars, boundVars>>

Phone ==
    \/ WriteControl("list", None, 0, 0) \/ WriteControl("status", None, 0, 0)
    \/ \E f \in Files \cup {None}, offset \in Offsets, length \in Lengths :
          WriteControl("fetch", f, offset, length)
    \/ WriteNonsense \/ WriteAbort
    \/ Connect \/ Subscribe \/ Unsubscribe \/ Disconnect

Next == StorageThread \/ RxError \/ Complete \/ Phone \/ Record

Spec == Init /\ [][Next]_vars
-----------------------------------------------------------------------------
(***************************************************************************)
(* Properties.                                                             *)
(***************************************************************************)
Chunks(r)   == {k \in 1 .. Len(out) : out[k].tag = "data" /\ out[k].req = r}
Answered(r) == \E k \in 1 .. Len(out) :
                  out[k].req = r /\ out[k].tag \in {"end", "error", "status"}
Pending(r)  == (\E k \in 1 .. Len(cmds) : cmds[k].id = r) \/ (spc # "wait" /\ cmd.id = r)

(* A phone that stays subscribed gets of a FETCH one contiguous slice that *)
(* starts where it asked, and, before an END, all of the window that the   *)
(* FILE_SIZE announced: no refused notification, failed read, abort or     *)
(* concurrent ERROR leaves a hole (wr_storage_service.c:317-382).          *)
First  == Smaller(cmd.offset, size)
Window == IF cmd.length = 0 THEN size - First ELSE Smaller(cmd.length, size - First)

FetchIsTheSlice ==
    cmd.op = "fetch" /\ steady /\ spc \in {"loop", "end", "drain"} =>
       /\ {out[k].arg : k \in Chunks(cmd.id)} = First .. next - 1
       /\ \A j, k \in Chunks(cmd.id) : j < k => out[j].arg < out[k].arg
       /\ spc \in {"end", "drain"} => next - First >= Window
       /\ cmd.length # 0 => next - First <= cmd.length

(* No path loses a notification credit: those not free are held by the     *)
(* drain, by a notification in flight, or by one whose completion a        *)
(* disconnect took away (wr_storage_service.c:103-177).                    *)
CreditsAccounted == credits + drained + Len(air) + lost >= Pipeline

(* An ABORT never hits a request written after it                          *)
(* (wr_storage_service.c:427-439, 471-475).                                *)
AbortHitsOlder ==
    abort /\ spc \notin {"wait", "clear"} => cmd.id <= abortedUpTo

(* A request of a subscribed phone, queued, refused or being served, is    *)
(* answered, unless it is aborted, the phone unsubscribes, or an earlier   *)
(* disconnect took completions away (wr_storage_service.c:418-506).        *)
Awaited(r) == rx = r \/ (Pending(r) /\ (spc # "wait" /\ cmd.id = r => steady))

RequestIsAnswered ==
    \A r \in 1 .. MaxRequests :
       (Awaited(r) /\ link = "subscribed") ~>
          (Answered(r) \/ link # "subscribed" \/ abortedUpTo >= r \/ lost > 0)

(* The credits a disconnect took away come back with the next LIST or      *)
(* STATUS, whose drain gives Pipeline credits whatever it could take       *)
(* (wr_storage_service.c:168-177).                                         *)
CreditsComeBack ==
    \A r \in 1 .. MaxRequests :
       (lost > 0 /\ Pending(r) /\ (spc # "wait" => cmd.op # "fetch")
          /\ \A k \in 1 .. Len(cmds) : cmds[k].op # "fetch")
       ~> (lost = 0 \/ abortedUpTo >= r)
-----------------------------------------------------------------------------
(***************************************************************************)
(* The strengthening behind the proofs: request numbers are handed out in  *)
(* order, and a file is opened only when fs_stat found it.                 *)
(***************************************************************************)
OrderInv ==
    /\ cmd.id <= requests
    /\ \A k \in 1 .. Len(cmds) : cmds[k].id <= requests
    /\ spc = "open" => cmd.file \in DOMAIN card
=============================================================================
