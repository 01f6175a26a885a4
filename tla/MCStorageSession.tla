-------------------------- MODULE MCStorageSession --------------------------
EXTENDS StorageSession, TLC

CONSTANTS f1, f2, sync, page

Fetch(file, offset, length) ==
    [op |-> "fetch", file |-> file, offset |-> offset, length |-> length, id |-> 0]
List   == [NoCommand EXCEPT !.op = "list"]
Status == NoCommand

Sessions  == Permutations(Clients)
LiveCalls == {Fetch(f1, 0, 0), List, Status}
FewCalls  == {Fetch(f1, 0, 1), Fetch(f1, 1, 1)}
Windows   == {Fetch(f1, 0, 0), Fetch(f1, 1, 1), List}

(* A refused notification, an operation given up or a disconnect.          *)
Disconnects == IF link = "down" THEN links ELSE links - 1
OneTrouble  == links = 0 \/ faults + abandoned + Disconnects <= 1

(* f2, for the lists only, is closed and there from the start, or not.     *)
Lists     == \A c \in Clients : call[c].op # "fetch"
RecordsF1 == current # f2 /\ (f2 \in DOMAIN card => card[f2] = 0 /\ Lists)

(* The service looks at the card in these places only: a step of the       *)
(* recorder anywhere else commutes with all others up to the next of them. *)
CardIsRead      == spc \in {"clear", "list", "stat", "open", "status"}
RecordWhereRead == card' # card \/ current' # current => CardIsRead

(* No step depends on the history of the service, nor on what a session    *)
(* that does not listen has collected: of that only matters whether the    *)
(* properties hold of it.                                                  *)
Good(c) == alone[c] /\ outcome[c] = "ok" =>
    (call[c].op = "fetch" => Slice(c)) /\ (call[c].op = "list" => OwnList(c))
Seen(c) ==
    IF Listens(c) THEN <<call[c], heard[c], announced[c], outcome[c], alone[c]>>
                  ELSE <<call[c].id, Good(c)>>
SessionView ==
    <<link, cmds, abort, rx, lost, credits, air, threadVars, cardVars, boundVars,
      at, abandoned, [c \in Clients |-> Seen(c)]>>
=============================================================================
