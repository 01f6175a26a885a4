---------------------------- MODULE RecordingLog ----------------------------
(***************************************************************************)
(* What the recorder promises of the recording in progress, with no        *)
(* buffer, queue, card or thread: a log of capture numbers that only grows *)
(* at its end, with numbers it has not reached yet, until it is ended.  A  *)
(* write the card refuses half-way may repeat a run of the log's numbers   *)
(* (and leave one unreadable piece, 0), but takes nothing out of it and    *)
(* reorders nothing.                                                       *)
(***************************************************************************)
EXTENDS Integers, Sequences

VARIABLES on, log

logVars == <<on, log>>

LogInit == on = FALSE /\ log = <<>>

Begin == ~on /\ on' = TRUE /\ log' = <<>>
End   == on /\ on' = FALSE /\ log' = <<>>

Extend ==
    /\ on /\ UNCHANGED on
    /\ Len(log') = Len(log) + 1
    /\ \A i \in 1 .. Len(log) : log'[i] = log[i] /\ log[i] < log'[Len(log')]

Repeat ==
    /\ on /\ UNCHANGED on
    /\ \E a \in 0 .. Len(log), piece \in {<<>>, <<0>>} : \E b \in a .. Len(log) :
          log' = SubSeq(log, 1, b) \o piece \o SubSeq(log, a + 1, Len(log))

LogNext == Begin \/ End \/ Extend \/ Repeat

LogSpec == LogInit /\ [][LogNext]_logVars
=============================================================================
