----------------------------- MODULE UploadQueue -----------------------------
(***************************************************************************)
(* The outbox of the phone and what empties it: the upload loop of the SD  *)
(* sync (wr_sd_sync.dart), the uploads tapped on the recordings page, and  *)
(* WrDriveUploader.uploadIfNew, which both call and which remembers what   *)
(* it uploaded as a set of names and sizes.                                *)
(*                                                                         *)
(* Each sync object runs a loop of its own.  stop() only asks its loop to  *)
(* end, so an old one may be in the middle of an upload when the device    *)
(* page, opened again, starts the next.                                    *)
(*                                                                         *)
(* Google Drive is external: it fails, and its reply may be lost.  The     *)
(* fetching side (SdSync) is reduced to the chunk files it writes.         *)
(***************************************************************************)
EXTENDS Integers, FiniteSets

CONSTANTS
    Loops,      \* sync objects, by their upload loops
    Page,       \* the recordings page
    Names,      \* names of chunks, in the order the list of files has
    Local,      \* the name of a live recording
    Sizes,      \* sizes of chunks
    MaxChunks,  \* bound on the chunks written
    MaxUpsets  \* bound on stops, kills, failures, taps and changed settings

ASSUME UploadAssumption ==
    /\ Page \notin Loops /\ IsFiniteSet(Loops)
    /\ Names \subseteq Nat \ {0} /\ Local = 0
    /\ Sizes \subseteq Nat \ {0} /\ Sizes # {}
    /\ MaxChunks \in Nat /\ MaxUpsets \in Nat

Uploaders == Loops \cup {Page}
Files     == Names \cup {Local}
Chunks    == 1 .. MaxChunks     \* by the order they are written; 0 is the live recording
Contents  == {0} \cup Chunks
Absent    == [no |-> -1, size |-> 0, whole |-> FALSE]

VARIABLES
    \* what outlives the app
    file,               \* the files; a chunk being written is not whole
    marks,              \* prefs: ids, <<name, size>>, of the uploaded ones
    present,            \* names on Drive
    auto, wifiOnly,     \* prefs
    wifi,
    \* the app
    running, manual,    \* by loop: _running, _manualUploadTrigger
    pc,                 \* by uploader: its next step
    todo,               \* by loop: rest of `pending`
    name,               \* by uploader: the file at hand
    snap, size, body,   \*   `set` and `id` of uploadIfNew; what it reads of the file
    writing,            \* _emitChunk: the file being written
    \* history
    count, nameOf,      \* chunks written so far, their names
    uploads,            \* by content: times it was stored on Drive
    torn,               \* chunks read, or left behind, before they were whole
    excused,            \* what accounts for second copies
    upsets

shelf    == <<file, marks, present, auto, wifiOnly, wifi>>
settings == <<auto, wifiOnly, wifi>>
control  == <<running, manual>>
item     == <<name, snap, size, body>>
written  == <<writing, count, nameOf>>
drive    == <<present, uploads>>
uploadVars == <<file, marks, present, auto, wifiOnly, wifi, running, manual, pc, todo,
                name, snap, size, body, writing, count, nameOf, uploads, torn, excused, upsets>>

Exists(f)    == file[f].no >= 0
Upset     == upsets < MaxUpsets /\ upsets' = upsets + 1
Goto(u, to)  == pc' = [pc EXCEPT ![u] = to]
Forget(u)    == /\ snap' = [snap EXCEPT ![u] = {}] /\ size' = [size EXCEPT ![u] = 0]
                /\ body' = [body EXCEPT ![u] = Absent]
Break(l)     == /\ Goto(l, "top")
                /\ todo' = [todo EXCEPT ![l] = {}] /\ name' = [name EXCEPT ![l] = Local]
Leave(u)     == Forget(u) /\ IF u = Page THEN Goto(u, "idle") /\ UNCHANGED <<todo, name>> ELSE Break(u)
Return(u)    == Forget(u) /\ Goto(u, IF u = Page THEN "idle" ELSE "delete")
-----------------------------------------------------------------------------
UploadInit ==
    /\ file = [f \in Files |-> IF f = Local THEN [no |-> 0, size |-> 1, whole |-> TRUE] ELSE Absent]
    /\ marks = {} /\ present = {}
    /\ auto \in BOOLEAN /\ wifiOnly \in BOOLEAN /\ wifi = TRUE
    /\ running = [l \in Loops |-> FALSE] /\ manual = [l \in Loops |-> FALSE]
    /\ pc = [u \in Uploaders |-> IF u = Page THEN "idle" ELSE "none"]
    /\ todo = [l \in Loops |-> {}]
    /\ name = [u \in Uploaders |-> Local] /\ snap = [u \in Uploaders |-> {}]
    /\ size = [u \in Uploaders |-> 0] /\ body = [u \in Uploaders |-> Absent]
    /\ writing = Absent /\ count = 0 /\ nameOf = [c \in Contents |-> Local]
    /\ uploads = [c \in Contents |-> 0] /\ torn = {} /\ excused = 0 /\ upsets = 0
-----------------------------------------------------------------------------
(* _emitChunk: writeAsBytes makes the file empty, then fills it.  A file   *)
(* deleted in between stays deleted.                                       *)
BeginWrite ==
    /\ writing = Absent /\ count < MaxChunks
    /\ count' = count + 1
    /\ \E n \in Names, s \in Sizes :
         /\ nameOf' = [nameOf EXCEPT ![count + 1] = n]
         /\ file' = [file EXCEPT ![n] = [no |-> count + 1, size |-> 0, whole |-> FALSE]]
         /\ writing' = [no |-> count + 1, size |-> s, whole |-> TRUE]
    /\ UNCHANGED <<marks, drive, settings, control, pc, todo, item, torn, excused, upsets>>

FinishWrite ==
    /\ writing # Absent
    /\ writing' = Absent
    /\ LET n == nameOf[writing.no]
       IN  file' = IF Exists(n) THEN [file EXCEPT ![n] = writing] ELSE file
    /\ UNCHANGED <<marks, drive, settings, control, pc, todo, item, count, nameOf, torn,
                   excused, upsets>>
-----------------------------------------------------------------------------
(* _uploadLoop.                                                            *)
Ended(l) ==
    /\ pc[l] = "top" /\ ~running[l]
    /\ Goto(l, "ended")
    /\ UNCHANGED <<shelf, control, todo, item, written, uploads, torn, excused, upsets>>

(* A turn: settings and files are read.  If there is something to do, and  *)
(* no tap is to be waited for, a tap is used up and the Wi-Fi looked at.   *)
Turn(l) ==
    /\ pc[l] = "top" /\ running[l]
    /\ \E n \in Names : Exists(n)
    /\ auto \/ manual[l]
    /\ manual' = [manual EXCEPT ![l] = FALSE]
    /\ todo' = [todo EXCEPT ![l] = {n \in Names : Exists(n)}]
    /\ Goto(l, IF wifiOnly THEN "wifi" ELSE "item")
    /\ UNCHANGED <<shelf, running, item, written, uploads, torn, excused, upsets>>

CheckWifi(l) ==
    /\ pc[l] = "wifi"
    /\ IF wifi THEN Goto(l, "item") /\ UNCHANGED <<todo, name>> ELSE Break(l)
    /\ UNCHANGED <<shelf, control, snap, size, body, written, uploads, torn, excused, upsets>>

Done(l) == todo[l] = {} \/ ~running[l] \/ (wifiOnly /\ ~wifi)

NextItem(l) ==
    /\ pc[l] = "item"
    /\ IF Done(l)
       THEN Break(l)
       ELSE \E n \in todo[l] :
              /\ \A m \in todo[l] : n <= m
              /\ todo' = [todo EXCEPT ![l] = @ \ {n}]
              /\ name' = [name EXCEPT ![l] = n] /\ Goto(l, "begin")
    /\ UNCHANGED <<shelf, control, snap, size, body, written, uploads, torn, excused, upsets>>
-----------------------------------------------------------------------------
(* uploadIfNew, for a loop or the page.  It reads the set of ids once, at  *)
(* its beginning, and writes it back, with its own, at the end.            *)
Busy == {"look", "send", "create", "mark"}
Overlaps(u) == \E v \in Uploaders \ {u} : name[v] = name[u] /\ pc[v] \in Busy
Id(u) == <<name[u], size[u]>>

Begin(u) ==
    /\ pc[u] = "begin"
    /\ IF Exists(name[u])
       THEN /\ snap' = [snap EXCEPT ![u] = marks]
            /\ size' = [size EXCEPT ![u] = file[name[u]].size]
            /\ excused' = IF Overlaps(u) THEN excused + 1 ELSE excused
            /\ Goto(u, IF <<name[u], file[name[u]].size>> \in marks THEN "look" ELSE "send")
            /\ UNCHANGED <<body, todo, name>>
       ELSE Leave(u) /\ UNCHANGED excused
    /\ UNCHANGED <<shelf, control, written, uploads, torn, upsets>>

(* Marked: it is uploaded again only if Drive has no file of that name.    *)
Look(u) ==
    /\ pc[u] = "look"
    /\ IF name[u] \in present
       THEN Return(u) /\ UNCHANGED excused
       ELSE Goto(u, "send") /\ excused' = excused + 1 /\ UNCHANGED <<snap, size, body>>
    /\ UNCHANGED <<shelf, control, todo, name, written, uploads, torn, upsets>>

(* The file is opened and read.                                            *)
Send(u) ==
    /\ pc[u] = "send"
    /\ IF Exists(name[u])
       THEN /\ body' = [body EXCEPT ![u] = file[name[u]]]
            /\ torn' = IF file[name[u]].whole THEN torn ELSE torn \cup {file[name[u]].no}
            /\ Goto(u, "create") /\ UNCHANGED <<snap, size, todo, name>>
       ELSE Leave(u) /\ UNCHANGED torn
    /\ UNCHANGED <<shelf, control, written, uploads, excused, upsets>>

(* Drive stores it.                                                        *)
Stored(u) ==
    /\ present' = present \cup {name[u]}
    /\ uploads' = IF body[u].whole THEN [uploads EXCEPT ![body[u].no] = @ + 1] ELSE uploads

Create(u) ==
    /\ pc[u] = "create" /\ Stored(u) /\ Goto(u, "mark")
    /\ excused' = IF body[u].size # size[u] THEN excused + 1 ELSE excused
    /\ UNCHANGED <<file, marks, settings, control, todo, item, written, torn, upsets>>

ReplyLost(u) ==
    /\ pc[u] = "create" /\ Upset /\ Stored(u) /\ Leave(u)
    /\ excused' = excused + 1
    /\ UNCHANGED <<file, marks, settings, control, written, torn>>

DeletesAfterFailure(u) ==                                            \* mutant
    /\ pc[u] \in {"look", "send", "create"} /\ Upset /\ Return(u)
    /\ UNCHANGED <<shelf, control, todo, name, written, uploads, torn, excused>>

NetworkFails(u) ==
    /\ pc[u] \in {"look", "send", "create"} /\ Upset /\ Leave(u)
    /\ UNCHANGED <<shelf, control, written, uploads, torn, excused>>

MarkForgets(u) ==                                                    \* mutant
    /\ pc[u] = "mark" /\ Return(u)
    /\ marks' = snap[u] /\ excused' = excused + Cardinality(marks \ snap[u])
    /\ UNCHANGED <<file, drive, settings, control, todo, name, written, torn, upsets>>

Mark(u) ==
    /\ pc[u] = "mark" /\ Return(u)
    /\ marks' = snap[u] \cup {Id(u)}
    /\ excused' = excused + Cardinality(marks \ marks')
    /\ UNCHANGED <<file, drive, settings, control, todo, name, written, torn, upsets>>

(* The loop again: f.delete().                                             *)
DeleteEnds(l) ==                                                     \* mutant
    /\ pc[l] = "delete"
    /\ IF Exists(name[l])
       THEN file' = [file EXCEPT ![name[l]] = Absent] /\ Goto(l, "item")
       ELSE Goto(l, "ended") /\ UNCHANGED file
    /\ UNCHANGED <<marks, drive, settings, control, todo, item, written, torn, excused, upsets>>

Delete(l) ==
    /\ pc[l] = "delete"
    /\ IF Exists(name[l])
       THEN file' = [file EXCEPT ![name[l]] = Absent] /\ Goto(l, "item") /\ UNCHANGED <<todo, name>>
       ELSE Break(l) /\ UNCHANGED file
    /\ UNCHANGED <<marks, drive, settings, control, snap, size, body, written, torn, excused, upsets>>
-----------------------------------------------------------------------------
(* The user, the pages and the system.  A sync is started when the page    *)
(* has connected, and stopped as the link is lost or the page is left.     *)
Start(l) ==
    /\ pc[l] \in {"none", "ended"} /\ \A k \in Loops : ~running[k]
    /\ running' = [running EXCEPT ![l] = TRUE] /\ manual' = [manual EXCEPT ![l] = FALSE]
    /\ Goto(l, "top")
    /\ UNCHANGED <<shelf, todo, item, written, uploads, torn, excused, upsets>>

Stop(l) ==
    /\ running[l] /\ Upset
    /\ running' = [running EXCEPT ![l] = FALSE]
    /\ UNCHANGED <<shelf, manual, pc, todo, item, written, uploads, torn, excused>>

TriggerUpload(l) ==
    /\ running[l] /\ manual' = [manual EXCEPT ![l] = TRUE]
    /\ UNCHANGED <<shelf, running, pc, todo, item, written, uploads, torn, excused, upsets>>

PageUploads ==
    /\ pc[Page] = "idle" /\ Upset /\ Goto(Page, "begin")
    /\ name' = [name EXCEPT ![Page] = Local]
    /\ UNCHANGED <<shelf, control, todo, snap, size, body, written, uploads, torn, excused>>

Outside ==
    /\ Upset
    /\ \/ auto' = ~auto /\ UNCHANGED <<wifi, present>>
       \/ wifi' = ~wifi /\ UNCHANGED <<auto, present>>
       \/ \E n \in present : present' = present \ {n} /\ UNCHANGED <<auto, wifi>>
    /\ UNCHANGED <<file, wifiOnly, marks, control, pc, todo, item, written, uploads, torn, excused>>

Kill ==
    /\ Upset
    /\ running' = [l \in Loops |-> FALSE] /\ manual' = [l \in Loops |-> FALSE]
    /\ pc' = [u \in Uploaders |-> IF u = Page THEN "idle" ELSE "none"]
    /\ torn' = IF writing = Absent THEN torn ELSE torn \cup {writing.no}
    /\ writing' = Absent
    /\ excused' = excused + Cardinality({u \in Uploaders : pc[u] = "mark"})
    /\ todo' = [l \in Loops |-> {}] /\ name' = [u \in Uploaders |-> Local]
    /\ snap' = [u \in Uploaders |-> {}] /\ size' = [u \in Uploaders |-> 0]
    /\ body' = [u \in Uploaders |-> Absent]
    /\ UNCHANGED <<shelf, count, nameOf, uploads>>

Uploads(u) ==
    \/ Begin(u) \/ Look(u) \/ Send(u)
    \/ Create(u) \/ ReplyLost(u) \/ NetworkFails(u) \/ Mark(u)

LoopStep(l) == Ended(l) \/ Turn(l) \/ CheckWifi(l) \/ NextItem(l) \/ Uploads(l) \/ Delete(l)

UploadNext ==
    \/ BeginWrite \/ FinishWrite \/ PageUploads \/ Uploads(Page) \/ Outside \/ Kill
    \/ \E l \in Loops : LoopStep(l) \/ Start(l) \/ Stop(l) \/ TriggerUpload(l)

UploadSpec ==
    /\ UploadInit /\ [][UploadNext]_uploadVars
    /\ WF_uploadVars(FinishWrite)
    /\ \A l \in Loops : WF_uploadVars(LoopStep(l))
-----------------------------------------------------------------------------
(* A chunk is on Drive or still in the outbox, whatever was stopped,       *)
(* killed, retried or done twice: except for one whose name another chunk  *)
(* has, and for one that was read, or abandoned, half written.             *)
Reused(c) == \E d \in 1 .. count : d # c /\ nameOf[d] = nameOf[c]

NothingLost ==
    \A c \in 1 .. count :
        uploads[c] > 0 \/ file[nameOf[c]].no = c \/ Reused(c) \/ c \in torn

(* A second copy of a content on Drive has a cause of its own: a kill      *)
(* after the upload and before its mark, a lost reply, a file that was     *)
(* marked by another size, an upload begun while another loop was at the   *)
(* same file, a mark overwritten by another uploader's, or a copy that the *)
(* user had removed.                                                       *)
OneCopyUnlessCut == \A c \in Contents : uploads[c] <= 1 + excused

(* While automatic upload is on, the network allowed, and some sync is     *)
(* running, the outbox is emptied.                                         *)
MayUpload == auto /\ (wifi \/ ~wifiOnly) /\ \E l \in Loops : running[l]

OutboxDrains == <>[]MayUpload => <>[](\A n \in Names : ~Exists(n))
=============================================================================
