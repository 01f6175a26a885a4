------------------------------- MODULE SdCard -------------------------------
(***************************************************************************)
(* The SD card as firmware/src/wr_recorder.c uses it through Zephyr's      *)
(* fs_* calls (external: FatFs itself is not modelled).  One handle is     *)
(* open for writing at a time, on record_path.  A file keeps what a reader *)
(* sees now (live) and what a power loss leaves of it (disk): FatFs moves  *)
(* the directory entry's size only in fs_sync and fs_close.                *)
(*                                                                         *)
(* Abstraction: a file is a sequence of records, not of bytes; every       *)
(* record has the same size, and what a failed write leaves of one record  *)
(* is a Fragment.                                                          *)
(***************************************************************************)
EXTENDS Integers, Sequences

CONSTANT
    MaxRec          \* highest NNNN of a rec_NNNN name (9999 in the code)

ASSUME MaxRecAssumption == MaxRec \in Nat \ {0}

VARIABLES
    files,          \* the files of /SD:, by name
    path,           \* record_path: name of the file the handle is for
    open,           \* the handle is open
    pos             \* its write position, in records

cardVars == <<files, path, open, pos>>

(* rec_NNNN.opus_sd, <epoch>.opus_sd, and the empty record_path of a boot. *)
RecName(i)   == <<"rec", i>>
EpochName(t) == <<"epoch", t>>
NoName       == <<"none", 0>>
Name == ({"rec"} \X (1 .. MaxRec)) \cup ({"epoch"} \X Nat)

(* A record is a captured packet, stamped (for the properties) with its    *)
(* capture number and the recording session that accepted it.              *)
Packet   == [id : Nat, session : Nat]
Fragment(s) == [id |-> 0, session |-> s]

(* entry: the directory entry itself has reached the card.                 *)
File  == [live : Seq(Packet), disk : Seq(Packet), entry : BOOLEAN]
Empty == [live |-> <<>>, disk |-> <<>>, entry |-> FALSE]

FileOK(f) == f \in File /\ Len(f.disk) <= Len(f.live)

CardTypeOK ==
    /\ DOMAIN files \subseteq Name
    /\ \A n \in DOMAIN files : FileOK(files[n])
    /\ path \in Name \cup {NoName}
    /\ open \in BOOLEAN
    /\ pos \in Nat
    /\ open => path \in DOMAIN files /\ pos <= Len(files[path].live)

CardInit ==
    /\ files = [n \in {} |-> Empty]
    /\ path = NoName
    /\ open = FALSE
    /\ pos = 0

(* The records recs, written into s after its first p records.             *)
Overwrite(s, p, recs) ==
    [i \in 1 .. (IF p + Len(recs) > Len(s) THEN p + Len(recs) ELSE Len(s)) |->
        IF p < i /\ i <= p + Len(recs) THEN recs[i - p] ELSE s[i]]

(* fs_open(FS_O_CREATE | FS_O_WRITE): creates the file when there is none, *)
(* never truncates one, and writes from offset 0.                          *)
FsOpen ==
    /\ files' = [n \in DOMAIN files \cup {path} |->
                    IF n \in DOMAIN files THEN files[n] ELSE Empty]
    /\ open' = TRUE
    /\ pos' = 0
    /\ path' = path

FsWrite(recs) ==
    /\ files' = [files EXCEPT ![path].live = Overwrite(@, pos, recs)]
    /\ pos' = pos + Len(recs)
    /\ UNCHANGED <<path, open>>

Committed(f) == [live |-> f.live, disk |-> f.live, entry |-> TRUE]

FsSync ==
    /\ files' = [files EXCEPT ![path] = Committed(@)]
    /\ UNCHANGED <<path, open, pos>>

(* fs_close commits like fs_sync; when it fails, the caller goes on as if  *)
(* the file were closed and what was not committed is at the mercy of the  *)
(* next power loss.                                                        *)
FsClose(ok) ==
    /\ files' = IF ok THEN [files EXCEPT ![path] = Committed(@)] ELSE files
    /\ open' = FALSE
    /\ UNCHANGED <<path, pos>>

(* Power loss.  A file keeps its committed length; sectors rewritten since *)
(* then inside that length may be old or new (k of them new).  An entry    *)
(* that never reached the card is gone or an empty file.                   *)
Mix(f, k) == [i \in 1 .. Len(f.disk) |-> IF i <= k THEN f.live[i] ELSE f.disk[i]]

PowerLoss ==
    /\ \E lost \in SUBSET {n \in DOMAIN files : ~files[n].entry} :
       \E k \in 0 .. pos :
          files' = [n \in DOMAIN files \ lost |->
                      LET s == IF n = path THEN Mix(files[n], k) ELSE files[n].disk
                      IN  [live |-> s, disk |-> s, entry |-> TRUE]]
    /\ path' = NoName
    /\ open' = FALSE
    /\ pos' = 0
=============================================================================
