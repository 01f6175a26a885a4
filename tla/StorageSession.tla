--------------------------- MODULE StorageSession ---------------------------
(***************************************************************************)
(* The phone's storage client (app_mobile/lib/services/                    *)
(* wr_storage_client.dart) on top of the firmware's StorageService.        *)
(*                                                                         *)
(* Every WrStorageSession listens to the one notification stream of the    *)
(* connection.  Notifications carry no request number: a session takes     *)
(* for its answer whatever it hears.  Two sessions live at once when the   *)
(* storage page is open while the sync runs.                               *)
(*                                                                         *)
(* An operation starts to listen, then writes its request, then waits.     *)
(* Meanwhile the recorder writes: files appear, grow and are closed        *)
(* between any two steps of the service, the reads of a fetch included.    *)
(***************************************************************************)
EXTENDS StorageService

CONSTANTS
    Clients,        \* the sessions: of the sync, of the storage page
    Calls,          \* operations the app may start
    MaxTimeouts     \* bound on timeouts and on operations closed over

ASSUME SessionAssumption ==
    /\ Calls \subseteq Command /\ \A r \in Calls : r.id = 0
    /\ MaxTimeouts \in Nat

VARIABLES
    at,             \* "closed", "idle", "listening", "waiting", "closing"
    call,           \* the operation; its id is that of the last request written
    heard,          \* FILE_ENTRY and DATA notifications collected
    announced,      \* committedSize: what FILE_SIZE said, 0 if none came
    outcome,        \* the completer: "open", "ok", "error", "timeout"
    abandoned,      \* operations given up before their answer had come
    \* history, for the properties only
    alone           \* begun on a quiet device, undisturbed by others since

callVars    == <<call, heard, announced, outcome>>
clientVars  == <<at, callVars, abandoned, alone>>
sessionVars == <<vars, clientVars>>
-----------------------------------------------------------------------------
SessionInit ==
    /\ Init
    /\ at = [c \in Clients |-> "closed"]
    /\ call = [c \in Clients |-> NoCommand]
    /\ heard = [c \in Clients |-> <<>>] /\ announced = [c \in Clients |-> 0]
    /\ outcome = [c \in Clients |-> "open"] /\ abandoned = 0
    /\ alone = [c \in Clients |-> FALSE]

Is(c, place)  == at[c] = place
Put(c, place) == at' = [at EXCEPT ![c] = place]

(* Subscribed, with nothing of an earlier request left or on its way.      *)
Quiet == link = "subscribed" /\ air = <<>> /\ rx = 0 /\ cmds = <<>> /\ spc \in {"wait", "drain"}

OthersDisturbed(c) == alone' = [d \in Clients |-> alone[d] /\ d = c]

(* fromServices.  The answer to setNotifyValue comes behind what was still *)
(* in flight.  With the notifications on already, it changes nothing.      *)
Open(c) ==
    /\ Is(c, "closed") /\ Put(c, "idle")
    /\ \/ air = <<>> /\ Subscribe
       \/ link = "subscribed" /\ UNCHANGED vars
    /\ UNCHANGED <<callVars, abandoned, alone>>

(* An operation cancels the subscription of the one before and listens.    *)
BeginKeepingChunks(c, r) ==                                         \* mutant
    /\ Is(c, "idle") /\ Put(c, "listening")
    /\ call' = [call EXCEPT ![c] = [r EXCEPT !.id = call[c].id]]
    /\ announced' = [announced EXCEPT ![c] = 0]
    /\ outcome' = [outcome EXCEPT ![c] = "open"]
    /\ alone' = [alone EXCEPT ![c] = Quiet]
    /\ UNCHANGED <<vars, heard, abandoned>>

Begin(c, r) ==
    /\ Is(c, "idle") /\ Put(c, "listening")
    /\ call' = [call EXCEPT ![c] = [r EXCEPT !.id = call[c].id]]
    /\ heard' = [heard EXCEPT ![c] = <<>>]
    /\ announced' = [announced EXCEPT ![c] = 0]
    /\ outcome' = [outcome EXCEPT ![c] = "open"]
    /\ alone' = [alone EXCEPT ![c] = Quiet]
    /\ UNCHANGED <<vars, abandoned>>

(* It writes the request and waits, unless it has its answer already.      *)
SendRequest(c) ==
    /\ Is(c, "listening")
    /\ WriteControl(call[c].op, call[c].file, call[c].offset, call[c].length)
    /\ call' = [call EXCEPT ![c].id = requests']
    /\ Put(c, IF outcome[c] = "open" THEN "waiting" ELSE "idle")
    /\ OthersDisturbed(c)
    /\ UNCHANGED <<heard, announced, outcome, abandoned>>

SendThrows(c) ==
    /\ Is(c, "listening") /\ link = "down" /\ Put(c, "idle")
    /\ outcome' = [outcome EXCEPT ![c] = "error"]
    /\ UNCHANGED <<vars, call, heard, announced, abandoned, alone>>

(***************************************************************************)
(* A notification arrives, at every session that listens.  END completes a *)
(* list and a fetch, STATUS a status; ERROR completes each (a status, with *)
(* null).  A session that has been completed before it wrote its request   *)
(* goes on collecting.                                                     *)
(***************************************************************************)
Listens(c) == at[c] \in {"listening", "waiting"}

CompletesButError(c, m) ==                                          \* mutant
    m.tag = IF call[c].op = "status" THEN "status" ELSE "end"

CompletesAtSize(c, m) ==                                            \* mutant
    m.tag \in {"size", "error", IF call[c].op = "status" THEN "status" ELSE "end"}

Completes(c, m) ==
    m.tag \in {"error", IF call[c].op = "status" THEN "status" ELSE "end"}

Collects(c, m) ==
    \/ call[c].op = "list" /\ m.tag = "entry"
    \/ call[c].op = "fetch" /\ m.tag = "data"

AnnouncesAny(m) == m.tag # "end"                                    \* mutant
Announces(m)    == m.tag = "size"

Hear(m) ==
    LET done(c) == Listens(c) /\ outcome[c] = "open" /\ Completes(c, m) IN
    /\ heard' = [c \in Clients |->
          IF Listens(c) /\ Collects(c, m) THEN Append(heard[c], m) ELSE heard[c]]
    /\ announced' = [c \in Clients |->
          IF Listens(c) /\ Announces(m) THEN m.arg ELSE announced[c]]
    /\ outcome' = [c \in Clients |->
          IF ~done(c) THEN outcome[c]
          ELSE IF m.tag = "error" /\ call[c].op # "status" THEN "error" ELSE "ok"]
    /\ at' = [c \in Clients |->
          IF done(c) /\ at[c] = "waiting" THEN "idle" ELSE at[c]]

Deliver ==
    /\ Complete /\ Hear(Head(air))
    /\ UNCHANGED <<call, abandoned, alone>>

(* The watchdog of a fetch, the deadline of a list or a status.            *)
GiveUp == abandoned < MaxTimeouts /\ abandoned' = abandoned + 1

TimesOut(c) ==
    /\ Is(c, "waiting") /\ Put(c, "idle")
    /\ GiveUp
    /\ outcome' = [outcome EXCEPT ![c] = "timeout"]
    /\ UNCHANGED <<vars, call, heard, announced, alone>>

(* close, perhaps while an operation waits, whose subscription it cancels: *)
(* ABORT, then notifications off; errors of a lost connection are ignored. *)
CloseAbort(c) ==
    /\ at[c] \in {"idle", "waiting"} /\ Put(c, "closing")
    /\ IF at[c] = "waiting" THEN GiveUp ELSE UNCHANGED abandoned
    /\ IF link = "down" THEN UNCHANGED vars ELSE WriteAbort
    /\ OthersDisturbed(c)
    /\ UNCHANGED callVars

CloseUnsubscribe(c) ==
    /\ Is(c, "closing") /\ Put(c, "closed")
    /\ Unsubscribe \/ (link # "subscribed" /\ UNCHANGED vars)
    /\ OthersDisturbed(c)
    /\ UNCHANGED <<callVars, abandoned>>

Device == (StorageThread \/ RxError) /\ UNCHANGED clientVars
Link   ==
    /\ \/ Connect /\ UNCHANGED alone
       \/ Disconnect /\ alone' = [c \in Clients |-> FALSE]
    /\ UNCHANGED <<at, callVars, abandoned>>

Client(c) ==
    \/ Open(c) \/ SendRequest(c) \/ SendThrows(c) \/ TimesOut(c)
    \/ CloseAbort(c) \/ CloseUnsubscribe(c)
    \/ \E r \in Calls : requests < MaxRequests /\ Begin(c, r)

Recording == Record /\ UNCHANGED clientVars

SessionNext == Device \/ Recording \/ Deliver \/ Link \/ \E c \in Clients : Client(c)

SessionSpec == SessionInit /\ [][SessionNext]_sessionVars

(* The device and the stack go on, and a request is written once begun.    *)
SessionLiveSpec ==
    /\ SessionSpec /\ WF_sessionVars(Deliver)
    /\ WF_sessionVars(StorageThread /\ UNCHANGED clientVars)
    /\ WF_sessionVars(RxError /\ UNCHANGED clientVars)
    /\ \A c \in Clients : WF_sessionVars(SendRequest(c) \/ SendThrows(c))
-----------------------------------------------------------------------------
(***************************************************************************)
(* Properties.                                                             *)
(***************************************************************************)
Returned(c, op) == Is(c, "idle") /\ outcome[c] = "ok" /\ call[c].op = op
AllOwn(c) == \A k \in 1 .. Len(heard[c]) : heard[c][k].req = call[c].id

(* End to end, from the card to the result of fetchWindow: the chunks are  *)
(* one contiguous slice from the offset asked for, no more than was asked  *)
(* for, and at least all that the committed size it returns leaves of the  *)
(* window: the file may have grown since that size was taken.  So the      *)
(* cursor of the sync may advance by what came                             *)
(* (wr_storage_client.dart:295-361, wr_storage_service.c:302-379).         *)
Slice(c) ==
    LET first == Smaller(call[c].offset, announced[c])
        rest_ == announced[c] - first
        want  == IF call[c].length = 0 THEN rest_ ELSE Smaller(call[c].length, rest_)
    IN /\ AllOwn(c)
       /\ Len(heard[c]) >= want
       /\ call[c].length # 0 => Len(heard[c]) <= call[c].length
       /\ \A k \in 1 .. Len(heard[c]) : heard[c][k].arg = first + k - 1

(* An operation begun while the device is quiet, during which no other     *)
(* session writes or closes, gets the slice, whatever happened to          *)
(* operations before: refused notifications, errors, timeouts, disconnects *)
(* (wr_storage_client.dart:295-361).                                       *)
FetchReturnsTheSlice ==
    \A c \in Clients : alone[c] /\ Returned(c, "fetch") => Slice(c)

(* And a list has no entry twice and nothing of another list               *)
(* (wr_storage_client.dart:122-149).                                       *)
OwnList(c) ==
    /\ AllOwn(c)
    /\ \A j, k \in 1 .. Len(heard[c]) : heard[c][j].arg = heard[c][k].arg => j = k

ListReturnsOwn ==
    \A c \in Clients : alone[c] /\ Returned(c, "list") => OwnList(c)

(* Nor does it miss a file that was closed when the device began to answer *)
(* it, whatever the recorder creates and closes meanwhile, as long as no   *)
(* notification was refused and no disconnect has taken credits            *)
(* (wr_storage_service.c:233-283).                                         *)
ListIsComplete ==
    [][\A c \in Clients :
          alone[c] /\ Is(c, "waiting") /\ Returned(c, "list")' /\ faults = 0 /\ lost = 0
             => closed \subseteq {heard[c][k].arg : k \in 1 .. Len(heard[c])}]_sessionVars

(* The device is quiet whenever the only session in use begins an          *)
(* operation, as long as it has waited for every answer: an answer never   *)
(* comes before the request is over (wr_storage_client.dart:128-149,       *)
(* 318-352).  The others are closed and have never written a request.      *)
Unused(c) == at[c] = "closed" /\ call[c].id = 0
AnswerIsTheLast ==
    \A c \in Clients : abandoned = 0 /\ (\A d \in Clients \ {c} : Unused(d))
                       /\ Is(c, "listening") /\ link = "subscribed"
       => alone[c]

(* As long as the phone stays subscribed, nothing is refused and no        *)
(* disconnect has taken credits away, every operation that waits           *)
(* undisturbed is completed by the device, by no timeout                   *)
(* (wr_storage_client.dart:146-147, 344-349).                              *)
CallReturns ==
    \A c \in Clients : (Is(c, "waiting") /\ alone[c] /\ links = 1)
                          ~> (~Is(c, "waiting") \/ ~alone[c] \/ link # "subscribed")
-----------------------------------------------------------------------------
(***************************************************************************)
(* What a comment says and the code does not do.                           *)
(***************************************************************************)

(* wr_storage_client.dart:41-43: an operation does not receive "stale      *)
(* cached notifications from a previous operation".                        *)
NothingStale == \A c \in Clients : Returned(c, "fetch") => AllOwn(c)
=============================================================================
