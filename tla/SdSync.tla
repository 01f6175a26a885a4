------------------------------- MODULE SdSync -------------------------------
(***************************************************************************)
(* The incremental sync of the phone (app_mobile/lib/services/             *)
(* wr_sd_sync.dart): pulls the recordings of the device window by window,  *)
(* cuts them into chunk files in an outbox, and keeps a cursor per file    *)
(* that survives the app.                                                  *)
(*                                                                         *)
(* Two coroutines share the object: the drain loop and a call of stop().   *)
(* A step is the code between two awaits.  `plan` holds what each has left *)
(* to run, innermost call first.  The app can be killed between any two    *)
(* steps and in the middle of a file write.                                *)
(*                                                                         *)
(* The data of a recording are its positions 1, 2, ...; a record is two of *)
(* them, a length (of 1) and a payload.  Payload read as a length is       *)
(* Garbage.  After the card was formatted a file name that is used again   *)
(* has other data: its positions start behind `base`.                      *)
(***************************************************************************)
EXTENDS Integers, Sequences, FiniteSets, SequencesExt

CONSTANTS
    NFiles,         \* recordings, in the order the device makes them
    Named,          \* those with an <epoch>.opus_sd name
    MaxFrames,      \* bound on the records of one recording
    Window,         \* _window
    MaxPerPass,     \* _maxBytesPerPass
    FramesPerChunk, \* _framesPerChunk
    PersistEvery,   \* windows between two saves of the pending bytes (8)
    Garbage,        \* a payload byte taken for a length
    MaxFaults,      \* bound on kills, stops, failed requests and formats
    None            \* null

Files      == 1 .. NFiles
MaxSize    == 2 * MaxFrames
ChunkBytes == 2 * FramesPerChunk
Workers    == {"loop", "stop"}
Faults     == {"kill", "stop", "throw", "format"}

ASSUME SyncAssumption ==
    /\ NFiles \in Nat \ {0} /\ Named \subseteq Files /\ MaxFrames \in Nat \ {0}
    /\ Window \in Nat \ {0} /\ MaxPerPass \in Nat \ {0}
    /\ FramesPerChunk \in Nat \ {0} /\ PersistEvery \in Nat \ {0}
    /\ Garbage \in Nat /\ MaxFaults \in Nat /\ None \notin Files

VARIABLES
    \* the device
    current,        \* the growing recording, 0 while paused
    latest,         \* the recordings made so far are 1 .. latest
    size, base,     \* committed size; where the data of this file start
    legacy,         \* firmware without STATUS and windows
    \* what the phone keeps
    savedOff, savedCi,      \* wr_sync_off_<name>, wr_sync_ci_<name>
    savedPend,              \* pending_<name>.bin
    savedDone,              \* the files with wr_sync_done_<name>
    outbox,                 \* the chunk files: pairs <<name, data>>
    drive,                  \* what the uploader has put on Drive
    \* the WrSdSync object
    running, sessionOpen, name, offset, chunkIndex, pending, failed,
    clock,                  \* DateTime.now() in seconds
    \* its coroutines
    plan,                   \* steps left
    job,                    \* _flushPending in progress: what it has in hand
    stopName,               \* the name stop() holds across an await
    todo,                   \* files _drainClosedFiles has still to look at
    committed, pulled, windows,
    \* history
    faults,
    cuts                    \* the chunks of each file in the order cut

device    == <<current, latest, size, base, legacy>>
cursors   == <<savedOff, savedCi>>
kept      == <<cursors, savedPend, savedDone, outbox, drive>>
object    == <<running, sessionOpen, name, offset, chunkIndex, pending, failed, clock>>
locals    == <<todo, committed, pulled, windows>>
work      == <<plan, job, stopName, locals>>
history   == <<faults, cuts>>
vars      == <<device, kept, object, work, history>>

Total == faults.kill + faults.stop + faults.throw + faults.format
Fault(k) == Total < MaxFaults /\ faults' = [faults EXCEPT ![k] = @ + 1]

(* Chunks cut by an undisturbed app go into the history.                   *)
Undisturbed == faults.kill = 0 /\ faults.stop = 0 /\ faults.format = 0
-----------------------------------------------------------------------------
(* Data.                                                                   *)
Slice(f, from, to) == [i \in 1 .. (IF to > from THEN to - from ELSE 0) |-> base[f] + from + i]
Smaller(a, b) == IF a < b THEN a ELSE b

LengthByte(p) == IF p % 2 = 1 THEN 1 ELSE Garbage

(* _chunkBoundary: the end of the n-th record from position `pos` on, -1   *)
(* if buf does not have that many.                                         *)
Boundary(buf) ==
    LET end[n \in 0 .. FramesPerChunk] ==
            IF n = 0 THEN 0
            ELSE LET pos == end[n - 1]
                 IN  IF pos < 0 \/ pos >= Len(buf) THEN -1
                     ELSE LET next == pos + 1 + LengthByte(buf[pos + 1])
                          IN  IF next > Len(buf) THEN -1 ELSE next
    IN  end[FramesPerChunk]

(* What _flushPending cuts off next: a whole chunk or, forced, the rest.   *)
NextCut(buf, force) ==
    LET whole == Boundary(buf)
    IN  IF whole >= 0 THEN whole ELSE IF force THEN Len(buf) ELSE 0

(* _chunkName.  An epoch name is that of the recording's start plus whole  *)
(* chunks; another is made from the clock, in seconds.                     *)
ChunkName(index, now) == IF name \in Named THEN <<name, index>> ELSE <<None, now>>

(* writeAsBytes over a file of that name.                                  *)
Written(files, target, data) == {f \in files : f[1] # target} \cup {<<target, data>>}
-----------------------------------------------------------------------------
(* Control.                                                                *)
At(w, step)  == plan[w] # <<>> /\ Head(plan[w]) = step
Go(w, steps) == plan' = [plan EXCEPT ![w] = steps \o Tail(@)]
Leave(w, steps) == plan' = [plan EXCEPT ![w] = steps]

SaveCursor == <<"off", "ci">>                                       \* mutant
Save    == <<"off", "ci", "pend">>
Windows == <<"off", "ci", "flush", "mayPend", "more">>
ClosedWindows == <<"off", "ci", "flush", "mayPend", "check">>
SwitchForced  == (IF name = None THEN <<>> ELSE <<"flushAll">> \o Save)
                 \o <<"load", "empty", "fill">>                            \* mutant
Switch  == (IF name = None THEN <<>> ELSE <<"flush">> \o Save) \o <<"load", "empty", "fill">>

NoJob(cut) == [buf |-> <<>>, force |-> FALSE, target |-> None, cut |-> cut]

(* A persisting call takes the name, then waits.  Only the loop changes    *)
(* `name`, so for the loop it is still the same after the wait.            *)
Captured(w) == IF w = "loop" THEN name ELSE stopName
Capture(w)  == stopName' = IF w = "stop" THEN name ELSE stopName
-----------------------------------------------------------------------------
SyncInit ==
    /\ current = 1 /\ latest = 1 /\ legacy \in BOOLEAN
    /\ size = [f \in Files |-> 0] /\ base = [f \in Files |-> 0]
    /\ savedOff = [f \in Files |-> 0] /\ savedCi = [f \in Files |-> 0]
    /\ savedPend = [f \in Files |-> <<>>] /\ savedDone = {}
    /\ outbox = {} /\ drive = {}
    /\ running = TRUE /\ sessionOpen = FALSE /\ name = None /\ offset = 0
    /\ chunkIndex = 0 /\ pending = <<>> /\ failed = {} /\ clock = 0
    /\ plan = [w \in Workers |-> IF w = "loop" THEN <<"top">> ELSE <<>>]
    /\ job = [w \in Workers |-> NoJob(FALSE)] /\ stopName = None
    /\ todo = <<>> /\ committed = 0 /\ pulled = 0 /\ windows = 0
    /\ faults = [k \in Faults |-> 0] /\ cuts = [f \in Files |-> <<>>]
-----------------------------------------------------------------------------
(* _flushPending: at its start and after each chunk, either the next chunk *)
(* gets its name and is to be written, or the rest becomes `pending`.      *)
Continue(w, buf, force, cut, index, rest) ==
    LET n == NextCut(buf, force)
    IN  IF n > 0
        THEN /\ clock' \in IF name \in Named THEN {clock} ELSE {clock, clock + 1}
             /\ job' = [job EXCEPT ![w] =
                    [buf |-> buf, force |-> force, cut |-> cut,
                     target |-> ChunkName(index, clock')]]
             /\ Leave(w, <<"write">> \o rest)
             /\ UNCHANGED pending
        ELSE /\ job' = [job EXCEPT ![w] = NoJob(cut)]
             /\ pending' = IF cut THEN buf ELSE pending
             /\ Leave(w, rest)
             /\ UNCHANGED clock

Flush(w) ==
    /\ \E force \in BOOLEAN :
          /\ At(w, IF force THEN "flushAll" ELSE "flush")
          /\ Continue(w, pending, force, FALSE, chunkIndex, Tail(plan[w]))
    /\ UNCHANGED <<device, kept, running, sessionOpen, name, offset, chunkIndex,
                   failed, stopName, locals, history>>

Piece(w) == SubSeq(job[w].buf, 1, NextCut(job[w].buf, job[w].force))

(* _emitChunk: the file is written, then the index counts up.              *)
WriteChunk(w) ==
    /\ At(w, "write") /\ Go(w, <<"count">>)
    /\ outbox' = Written(outbox, job[w].target, Piece(w))
    /\ cuts' = IF Undisturbed THEN [cuts EXCEPT ![name] = Append(@, Piece(w))] ELSE cuts
    /\ UNCHANGED <<device, cursors, savedPend, savedDone, drive, object, job, stopName,
                   locals, faults>>

CountChunk(w) ==
    /\ At(w, "count") /\ chunkIndex' = chunkIndex + 1
    /\ Continue(w, SubSeq(job[w].buf, Len(Piece(w)) + 1, Len(job[w].buf)),
                job[w].force, TRUE, chunkIndex', Tail(plan[w]))
    /\ UNCHANGED <<device, kept, running, sessionOpen, name, offset, failed, stopName,
                   locals, history>>

(* _persistOffset and _persistPending.  Their values are those of the      *)
(* moment they write; the name they took before.                           *)
PersistOffset(w) ==
    /\ At(w, "off") /\ Go(w, <<>>) /\ Capture(w)
    /\ savedOff' = [savedOff EXCEPT ![name] = offset]
    /\ UNCHANGED <<device, savedCi, savedPend, savedDone, outbox, drive, object, job,
                   locals, history>>

PersistIndex(w) ==
    /\ At(w, "ci") /\ Go(w, <<>>) /\ Capture(w)
    /\ savedCi' = [savedCi EXCEPT ![Captured(w)] = chunkIndex]
    /\ UNCHANGED <<device, savedOff, savedPend, savedDone, outbox, drive, object, job,
                   locals, history>>

PersistPending(w) ==
    /\ At(w, "pend") /\ Go(w, <<>>)
    /\ savedPend' = [savedPend EXCEPT ![Captured(w)] = pending]
    /\ UNCHANGED <<device, cursors, savedDone, outbox, drive, object, job, stopName,
                   locals, history>>

Shared(w) == \/ Flush(w) \/ WriteChunk(w) \/ CountChunk(w)
             \/ PersistOffset(w) \/ PersistIndex(w) \/ PersistPending(w)
-----------------------------------------------------------------------------
(* The loop.                                                               *)
InLoop(step, next) == At("loop", step) /\ Go("loop", next)
Turn(step, next)   == InLoop(step, next) /\ UNCHANGED <<device, kept, object, job, stopName,
                                                       locals, history>>
Outside == <<device, kept, running, name, chunkIndex, failed, clock, job, stopName, history>>

Top == Turn("top", IF running THEN <<"open">> ELSE <<>>)

OpenSession ==
    /\ InLoop("open", <<"status">>)
    /\ sessionOpen' = TRUE
    /\ UNCHANGED <<Outside, offset, pending, locals>>

(* _drainOnce.  No STATUS: paused, old firmware, a time-out.               *)
NoStatus ==
    /\ InLoop("status", <<"list">>)
    /\ \/ (current = 0 \/ legacy \/ ~sessionOpen) /\ UNCHANGED faults
       \/ Fault("throw")
    /\ UNCHANGED <<device, kept, object, job, stopName, locals, cuts>>

Status ==
    /\ current # 0 /\ ~legacy /\ sessionOpen
    /\ InLoop("status", (IF name = current THEN <<>> ELSE Switch) \o <<"shrunk">>)
    /\ todo' = <<current>> /\ committed' = size[current] /\ pulled' = 0 /\ windows' = 0
    /\ UNCHANGED <<Outside, sessionOpen, offset, pending>>

LoadCursorBelow ==                                                  \* mutant
    /\ InLoop("load", <<>>)
    /\ name' = Head(todo) /\ offset' = savedOff[name'] /\ chunkIndex' = savedCi[name'] - 1
    /\ UNCHANGED <<device, kept, running, sessionOpen, pending, failed, clock, job,
                   stopName, locals, history>>

(* _loadState: the cursor, then no bytes, then the bytes of the file.      *)
LoadCursor ==
    /\ InLoop("load", <<>>)
    /\ name' = Head(todo) /\ offset' = savedOff[name'] /\ chunkIndex' = savedCi[name']
    /\ UNCHANGED <<device, kept, running, sessionOpen, pending, failed, clock, job,
                   stopName, locals, history>>

LoadPending ==
    /\ \/ InLoop("empty", <<>>) /\ pending' = <<>>
       \/ InLoop("fill", <<>>) /\ pending' = pending \o savedPend[name]
    /\ UNCHANGED <<Outside, sessionOpen, offset, locals>>

(* The file is smaller than what was fetched of it: its name was reused.   *)
CheckShrunk ==
    /\ At("loop", "shrunk")
    /\ IF offset > committed
       THEN offset' = 0 /\ chunkIndex' = 0 /\ pending' = <<>>
       ELSE UNCHANGED <<offset, chunkIndex, pending>>
    /\ Go("loop", IF offset' >= committed THEN <<"list">>
                  ELSE IF running THEN <<"fetch">> ELSE Save \o <<"list">>)
    /\ UNCHANGED <<device, kept, running, sessionOpen, name, failed, clock, job, stopName,
                   locals, history>>

MayPersistPending ==
    Turn("mayPend", IF job["loop"].cut \/ windows % PersistEvery = 0 THEN <<"pend">> ELSE <<>>)

MoreWindows ==
    Turn("more", IF running /\ offset < committed /\ pulled < MaxPerPass
                 THEN <<"fetch">> ELSE Save \o <<"list">>)

AtOffset == Slice(name, offset, Smaller(offset + Window, size[name]))

Received(bytes) ==
    /\ pending' = pending \o bytes /\ offset' = offset + Len(bytes)
    /\ pulled' = pulled + Len(bytes) /\ windows' = windows + 1

FetchWindow ==
    /\ At("loop", "fetch") /\ sessionOpen /\ ~legacy
    /\ InLoop("fetch", IF AtOffset = <<>> THEN Save \o <<"list">> ELSE Windows)
    /\ IF AtOffset = <<>> THEN UNCHANGED <<pending, offset, pulled, windows>>
                          ELSE Received(AtOffset)
    /\ UNCHANGED <<Outside, sessionOpen, todo, committed>>

RequestFails == (~sessionOpen /\ UNCHANGED faults) \/ Fault("throw")

(* An exception ends up in _loop, which closes the session and retries.    *)
DrainThrows ==
    /\ At("loop", "fetch") /\ RequestFails
    /\ Leave("loop", <<"top">>) /\ sessionOpen' = FALSE
    /\ UNCHANGED <<device, kept, running, name, offset, chunkIndex, pending, failed, clock,
                   job, stopName, locals, cuts>>

(* _drainClosedFiles.  The device leaves the growing file out of the list. *)
Before(f, g) == IF f \in Named /\ g \in Named THEN f > g
                ELSE f \in Named \/ (g \notin Named /\ f < g)

Backlog ==
    LET files == {f \in 1 .. latest : f # current /\ f \notin savedDone /\ f \notin failed}
    IN  {order \in [1 .. Cardinality(files) -> files] :
            \A i, j \in DOMAIN order : i < j => Before(order[i], order[j])}

ListFiles ==
    /\ InLoop("list", <<"next">>)
    /\ sessionOpen /\ todo' \in Backlog
    /\ UNCHANGED <<Outside, sessionOpen, offset, pending, committed, pulled, windows>>

ListFails ==
    /\ InLoop("list", <<"top">>) /\ RequestFails
    /\ UNCHANGED <<device, kept, object, job, stopName, locals, cuts>>

NextFile ==
    /\ InLoop("next", IF ~running \/ todo = <<>> THEN <<"top">>
                      ELSE (IF name = Head(todo) THEN <<>> ELSE Switch) \o <<"window">>)
    /\ pulled' = 0 /\ windows' = 0 /\ committed' = -1
    /\ UNCHANGED <<Outside, sessionOpen, offset, pending, todo>>

(* _drainClosedFile.                                                       *)
NextWindow ==
    Turn("window", IF running /\ pulled < MaxPerPass THEN <<"fetchClosed">> ELSE <<"finish">>)

FetchClosed ==
    /\ At("loop", "fetchClosed") /\ sessionOpen
    /\ LET bytes == IF legacy THEN <<>> ELSE AtOffset
       IN  /\ committed' = IF legacy THEN 0 ELSE size[name]
           /\ InLoop("fetchClosed",
                     IF bytes # <<>> THEN ClosedWindows
                     ELSE IF committed' = 0 /\ offset = 0 /\ pulled = 0 THEN <<"legacy">>
                     ELSE <<"finish">>)
           /\ IF bytes = <<>> THEN UNCHANGED <<pending, offset, pulled, windows>>
                              ELSE Received(bytes)
    /\ UNCHANGED <<Outside, sessionOpen, todo>>

FetchClosedThrows ==
    /\ RequestFails
    /\ InLoop("fetchClosed", IF offset = 0 /\ pulled = 0 THEN <<"legacyRetry">> ELSE <<"skip">>)
    /\ UNCHANGED <<device, kept, object, job, stopName, locals, cuts>>

(* fetchFileLegacy.  New firmware takes the first characters of the name   *)
(* for an offset and a length, and answers that there is no such file.     *)
FetchLegacy ==
    /\ \E step \in {"legacy", "legacyRetry"} :
          InLoop(step, <<"off", "ci", "flushAll", "pend", "finish">>)
    /\ sessionOpen /\ legacy /\ size[name] > 0
    /\ LET bytes == Slice(name, 0, size[name])
       IN  pending' = pending \o bytes /\ offset' = offset + Len(bytes)
           /\ pulled' = pulled + Len(bytes) /\ committed' = Len(bytes)
    /\ UNCHANGED <<Outside, sessionOpen, todo, windows>>

LegacyIsEmpty ==
    /\ Turn("legacy", <<"finish">>) \/ Turn("legacyRetry", <<"skip">>)
    /\ sessionOpen /\ legacy /\ size[name] = 0

LegacyThrows ==
    /\ (sessionOpen /\ ~legacy /\ UNCHANGED faults) \/ RequestFails
    /\ InLoop("legacy", <<"skip">>) \/ InLoop("legacyRetry", <<"skip">>)
    /\ UNCHANGED <<device, kept, object, job, stopName, locals, cuts>>

CheckEnd == Turn("check", IF offset >= committed THEN <<"finish">> ELSE <<"window">>)

SkipFile ==
    /\ InLoop("skip", Save \o <<"after">>)
    /\ failed' = failed \cup {name}
    /\ UNCHANGED <<device, kept, running, sessionOpen, name, offset, chunkIndex, pending,
                   clock, job, stopName, locals, history>>

FinishEarly ==                                                      \* mutant
    Turn("finish", IF committed > 0 THEN <<"flushAll">> \o Save \o <<"done", "after">>
                   ELSE <<"after">>)

Finish ==
    Turn("finish", IF committed >= 0 /\ offset >= committed
                      /\ ~(committed = 0 /\ offset = 0 /\ pulled = 0)
                   THEN <<"flushAll">> \o Save \o <<"done", "after">> ELSE <<"after">>)

MarkDone ==
    /\ InLoop("done", <<>>)
    /\ savedDone' = savedDone \cup {name}
    /\ UNCHANGED <<device, cursors, savedPend, outbox, drive, object, job, stopName,
                   locals, history>>

AfterFileOnlyOne ==                                                 \* mutant
    /\ InLoop("after", <<"top">>) /\ todo' = Tail(todo)
    /\ UNCHANGED <<Outside, sessionOpen, offset, pending, committed, pulled, windows>>

AfterFile ==
    /\ InLoop("after", IF pulled > 0 THEN <<"top">> ELSE <<"next">>)
    /\ todo' = Tail(todo)
    /\ UNCHANGED <<Outside, sessionOpen, offset, pending, committed, pulled, windows>>

Loop ==
    \/ Top \/ OpenSession \/ NoStatus \/ Status \/ LoadCursor \/ LoadPending \/ CheckShrunk
    \/ MoreWindows \/ FetchWindow \/ DrainThrows \/ ListFiles \/ ListFails \/ NextFile
    \/ NextWindow \/ FetchClosed \/ FetchClosedThrows \/ FetchLegacy \/ LegacyIsEmpty
    \/ LegacyThrows \/ CheckEnd \/ SkipFile \/ Finish \/ MarkDone \/ AfterFile
    \/ MayPersistPending \/ Shared("loop")
-----------------------------------------------------------------------------
(* stop() begins its flush at once; then it is suspended like the loop.    *)
Stop ==
    /\ running /\ plan["stop"] = <<>> /\ Fault("stop")
    /\ running' = FALSE
    /\ IF name = None
       THEN Leave("stop", <<"close">>) /\ UNCHANGED <<pending, clock, job>>
       ELSE Continue("stop", pending, TRUE, FALSE, chunkIndex, Save \o <<"close">>)
    /\ UNCHANGED <<device, kept, sessionOpen, name, offset, chunkIndex, failed, stopName,
                   locals, cuts>>

CloseSession ==
    /\ At("stop", "close") /\ Go("stop", <<>>)
    /\ sessionOpen' = FALSE
    /\ UNCHANGED <<device, kept, running, name, offset, chunkIndex, pending, failed, clock,
                   job, stopName, locals, history>>

(* The system ends the app.  A file that was being written has a part of   *)
(* its contents; the one opened for writing had been emptied.              *)
Kill ==
    /\ \E w \in Workers : plan[w] # <<>>
    /\ Fault("kill")
    /\ \/ UNCHANGED <<outbox, savedPend>>
       \/ \E w \in Workers : At(w, "write")
          /\ \E n \in 0 .. Len(Piece(w)) - 1 :
                outbox' = Written(outbox, job[w].target, SubSeq(Piece(w), 1, n))
          /\ UNCHANGED savedPend
       \/ \E w \in Workers : At(w, "pend")
          /\ savedPend' = [savedPend EXCEPT ![Captured(w)] = <<>>]
          /\ UNCHANGED outbox
    /\ running' = FALSE /\ plan' = [w \in Workers |-> <<>>]
    /\ sessionOpen' = FALSE /\ name' = None /\ offset' = 0 /\ chunkIndex' = 0
    /\ pending' = <<>> /\ failed' = {} /\ job' = [w \in Workers |-> NoJob(FALSE)]
    /\ stopName' = None /\ todo' = <<>> /\ committed' = 0 /\ pulled' = 0 /\ windows' = 0
    /\ UNCHANGED <<device, cursors, savedDone, drive, clock, cuts>>

(* The page makes a new object.  That the one before has come to rest is   *)
(* an assumption: nothing waits for it.                                    *)
Start ==
    /\ ~running /\ \A w \in Workers : plan[w] = <<>>
    /\ running' = TRUE /\ Leave("loop", <<"top">>)
    /\ sessionOpen' = FALSE /\ name' = None /\ offset' = 0 /\ chunkIndex' = 0
    /\ pending' = <<>> /\ failed' = {} /\ job' = [w \in Workers |-> NoJob(FALSE)]
    /\ stopName' = None /\ todo' = <<>> /\ committed' = 0 /\ pulled' = 0 /\ windows' = 0
    /\ UNCHANGED <<device, kept, clock, history>>

(* The upload loop, in one step (module UploadQueue has the steps): what   *)
(* Drive has under this name with this size is not uploaded again.         *)
Upload(chunk) ==
    /\ running /\ chunk \in outbox
    /\ drive' = IF \E d \in drive : d[1] = chunk[1] /\ Len(d[2]) = Len(chunk[2])
                THEN drive ELSE drive \cup {chunk}
    /\ outbox' = outbox \ {chunk}
    /\ UNCHANGED <<device, cursors, savedPend, savedDone, object, work, history>>

(* The device: whole records are committed; a pause closes the recording;  *)
(* the next takes a new name, or that of one that is no longer there.      *)
Grow ==
    /\ current # 0
    /\ \E n \in size[current] + 1 .. MaxSize :
          n % 2 = 0 /\ size' = [size EXCEPT ![current] = n]
    /\ UNCHANGED <<current, latest, base, legacy, kept, object, work, history>>

Pause ==
    /\ current # 0 /\ current' = 0
    /\ UNCHANGED <<latest, size, base, legacy, kept, object, work, history>>

Resume ==
    /\ current = 0 /\ latest < NFiles
    /\ latest' = latest + 1 /\ current' = latest'
    /\ UNCHANGED <<size, base, legacy, kept, object, work, history>>

ReuseName ==
    /\ current = 0 /\ Fault("format")
    /\ \E f \in 1 .. latest \ Named :
          /\ current' = f /\ size' = [size EXCEPT ![f] = 0]
          /\ base' = [base EXCEPT ![f] = @ + MaxSize]
    /\ UNCHANGED <<latest, legacy, kept, object, work, cuts>>

(* These steps follow the one before without a wait: nothing comes between.*)
Midway == \E step \in {"mayPend", "more", "check", "window", "finish", "after", "next",
                       "shrunk"} : At("loop", step)

Others ==
    \/ Shared("stop") \/ CloseSession \/ Stop \/ Kill \/ Start
    \/ \E chunk \in outbox : Upload(chunk)
    \/ Grow \/ Pause \/ Resume \/ ReuseName

SyncNext == Loop \/ (~Midway /\ Others)

SyncSpec == SyncInit /\ [][SyncNext]_vars /\ WF_vars(Loop)
-----------------------------------------------------------------------------
SyncTypeOK ==
    /\ current \in 0 .. NFiles /\ latest \in Files /\ legacy \in BOOLEAN
    /\ size \in [Files -> 0 .. MaxSize] /\ base \in [Files -> Nat]
    /\ savedOff \in [Files -> Nat] /\ savedCi \in [Files -> Nat]
    /\ savedPend \in [Files -> Seq(Nat)] /\ savedDone \subseteq Files
    /\ running \in BOOLEAN /\ sessionOpen \in BOOLEAN /\ name \in Files \cup {None}
    /\ offset \in Nat /\ chunkIndex \in Nat /\ pending \in Seq(Nat)
    /\ failed \subseteq Files /\ clock \in Nat
    /\ \A w \in Workers : job[w].buf \in Seq(Nat)
    /\ stopName \in Files \cup {None} /\ todo \in Seq(Files)
    /\ committed \in Int /\ pulled \in Nat /\ windows \in Nat

(* What the phone has fetched of f, what it still has or has passed on,    *)
(* and what of f is neither.                                               *)
Fetched(f) == IF name = f THEN offset ELSE savedOff[f]

Loading == At("loop", "empty") \/ At("loop", "fill")
Prefix(f) == IF f \in Named THEN f ELSE None
Held(f) ==
    (UNION {ToSet(c[2]) : c \in {d \in outbox \cup drive : d[1][1] = Prefix(f)}})
    \cup (IF name = f THEN ToSet(pending) ELSE {})
    \cup (IF name = f /\ ~Loading THEN {} ELSE ToSet(savedPend[f]))
Missing(f) == {p \in 1 .. Fetched(f) : base[f] + p \notin Held(f)}

(* A recording is marked as done only when the cursor has reached its end, *)
(* and it grows no more: whatever fails, stops or ends the app before.     *)
(* (wr_sd_sync.dart:680; the list leaves out the growing file.)            *)
DoneMeansFetched == faults.format = 0 =>
    \A f \in savedDone : f # current /\ savedOff[f] = size[f]

(* What was fetched of an epoch-named recording is on the phone or on      *)
(* Drive, also past failed requests and changes of file.  Only a kill      *)
(* costs something: what was pending, less than a chunk and a window, and  *)
(* where the index was not saved with the offset, the chunks cut after the *)
(* window before, which the next ones replace.  (wr_sd_sync.dart:249-267.  *)
(* A legacy fetch has all the file pending.)                               *)
LongestChunk == FramesPerChunk * (1 + IF Garbage > 1 THEN Garbage ELSE 1)

BoundedKillLoss == faults.stop = 0 /\ ~legacy =>
    \A f \in Named :
        Cardinality(Missing(f)) <= faults.kill * (LongestChunk - 1 + 2 * Window)

(* Undisturbed, the sync keeps the promise of ChunkStream: each recording  *)
(* leaves in order, in full chunks, each byte once, across changes of file *)
(* and failed requests.  (wr_sd_sync.dart:58-76.)                          *)
Stream == INSTANCE ChunkStream
            WITH Files <- Files, got <- [f \in Files |-> Fetched(f)], chunks <- cuts
StreamWhileUndisturbed ==
    Stream!StreamInit /\ [][Undisturbed' => Stream!StreamNext]_(Stream!stream)

(* No closed recording waits forever behind the growing one or behind      *)
(* others: the loop comes to its end or gives it up as unreadable.         *)
(* (wr_sd_sync.dart:509-512.)                                              *)
BacklogDrains == \A f \in Files :
    f <= latest /\ size[f] > 0
        ~> f \in savedDone \cup failed \cup {current} \/ ~running

(* stop() "flush[es] the trailing partial chunk so the tail isn't lost"    *)
(* (wr_sd_sync.dart:206).                                                  *)
StopKeepsTheTail == faults.kill = 0 => \A f \in Named : Missing(f) = {}

(* "the phone [...] slices the byte stream [...] into fixed-duration       *)
(* chunks and uploads each once" (wr_sd_sync.dart:68-70), here of files    *)
(* whose chunks are named by the phone's clock.                            *)
EachChunkIsKept == Total = 0 => \A f \in Files : Missing(f) = {}
=============================================================================
