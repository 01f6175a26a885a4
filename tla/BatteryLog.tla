----------------------------- MODULE BatteryLog -----------------------------
(***************************************************************************)
(* The battery monitor (firmware/src/wr_battery.c): samples go through a   *)
(* line buffer into a log file on the card, which is begun anew once per   *)
(* boot; the cell's millivolts become a percentage along a curve.          *)
(*                                                                         *)
(* A line of the log is the number of its sample.  The card is external:   *)
(* it may not be there, and a write may fail.                              *)
(***************************************************************************)
EXTENDS Integers, Sequences

CONSTANTS
    BufSize,        \* BATTLOG_BUF_SZ, and
    LineSizes,      \*   what a line takes of it
    FlushEvery,     \* BATTLOG_FLUSH_N
    MaxSamples      \* bound on the samples of all boots

ASSUME BatteryAssumption ==
    /\ BufSize \in Nat /\ FlushEvery \in Nat \ {0} /\ MaxSamples \in Nat
    /\ LineSizes \subseteq 1 .. BufSize - 1

VARIABLES
    mounted,
    logFile,            \* battlog.opus_sd
    buf, bufLen,        \* battlog_buf, battlog_len
    bufCount,           \* battlog_count
    fresh,              \* battlog_fresh
    samples,            \* taken so far
    bootAt,             \* history: those before this boot;
    hole                \*   a write to this log, or its deletion, failed

battVars == <<mounted, logFile, buf, bufLen, bufCount, fresh, samples, bootAt, hole>>

BattInit ==
    /\ mounted = FALSE /\ logFile = <<>> /\ buf = <<>> /\ bufLen = 0 /\ bufCount = 0
    /\ fresh = TRUE /\ samples = 0 /\ bootAt = 0 /\ hole = FALSE
-----------------------------------------------------------------------------
(* batt_curve, batt_mv_to_pct: linear between two points.                  *)
Curve == << <<4200, 100>>, <<4100, 95>>, <<4000, 87>>, <<3900, 76>>, <<3800, 62>>, <<3700, 47>>,
            <<3650, 38>>, <<3600, 28>>, <<3500, 16>>, <<3400, 7>>, <<3300, 2>>, <<3000, 0>> >>

Percent(mv) ==
    IF mv >= Curve[1][1] THEN Curve[1][2]
    ELSE IF mv < Curve[Len(Curve)][1] THEN Curve[Len(Curve)][2]
    ELSE LET i  == CHOOSE i \in 2 .. Len(Curve) : Curve[i][1] <= mv /\ mv < Curve[i - 1][1]
             hi == Curve[i - 1]
             lo == Curve[i]
         IN  lo[2] + ((hi[2] - lo[2]) * (mv - lo[1])) \div (hi[1] - lo[1])
-----------------------------------------------------------------------------
(* battlog_flush, as what it can make of the log.  The first of a boot     *)
(* deletes the file.  If the file cannot be opened the lines are dropped   *)
(* and the next flush begins it anew; errors of the deletion and of the    *)
(* write are ignored.                                                      *)
Log == [file |-> logFile, fresh |-> fresh, hole |-> hole]

Begun(log) == IF log.fresh THEN [file |-> <<>>, fresh |-> FALSE, hole |-> FALSE] ELSE log
NotDeleted(log) == IF log.fresh THEN [log EXCEPT !.fresh = FALSE, !.hole = TRUE] ELSE log

Wrote(log, lines) ==
    {[log EXCEPT !.file = @ \o lines]} \cup
    {[log EXCEPT !.file = @ \o SubSeq(lines, 1, n), !.hole = TRUE] : n \in 0 .. Len(lines) - 1}

NotOpenedStaysOld(log) == {log, Begun(log)}                          \* mutant
NotOpened(log) == {[log EXCEPT !.fresh = TRUE], [Begun(log) EXCEPT !.fresh = TRUE]}

Flushed(log, lines) ==
    IF lines = <<>> THEN {log}
    ELSE NotOpened(log) \cup
         IF mounted THEN Wrote(Begun(log), lines) \cup Wrote(NotDeleted(log), lines) ELSE {}

(* battlog_record: a line that does not fit flushes those before it and is *)
(* the first of the next; every FlushEvery-th sample flushes as well.  (12 *)
(* lines always fit the 512 bytes of the source, so there only the count   *)
(* does.)                                                                  *)
Line     == <<samples + 1>>
Due      == bufCount + 1 >= FlushEvery
Overflow(size) == bufLen + size >= BufSize

Sample ==
    /\ samples < MaxSamples
    /\ samples' = samples + 1
    /\ bufCount' = IF Due THEN 0 ELSE bufCount + 1
    /\ \E size \in LineSizes :
         LET before == IF Overflow(size) THEN buf ELSE <<>>
             after  == IF Overflow(size) THEN Line ELSE buf \o Line
         IN  /\ \E mid \in Flushed(Log, before) :
                  \E log \in Flushed(mid, IF Due THEN after ELSE <<>>) :
                     logFile' = log.file /\ fresh' = log.fresh /\ hole' = log.hole
             /\ buf' = IF Due THEN <<>> ELSE after
             /\ bufLen' = IF Due THEN 0 ELSE IF Overflow(size) THEN size ELSE bufLen + size
    /\ UNCHANGED <<mounted, bootAt>>

Mount ==
    /\ ~mounted /\ mounted' = TRUE
    /\ UNCHANGED <<logFile, buf, bufLen, bufCount, fresh, samples, bootAt, hole>>

Restart ==
    /\ mounted' = FALSE /\ buf' = <<>> /\ bufLen' = 0 /\ bufCount' = 0
    /\ fresh' = TRUE /\ hole' = FALSE /\ bootAt' = samples
    /\ UNCHANGED <<logFile, samples>>

BattNext == Sample \/ Mount \/ Restart

BattSpec == BattInit /\ [][BattNext]_battVars
-----------------------------------------------------------------------------
(* Log and buffer together are the samples of this boot without a gap and  *)
(* up to the last one, from some sample on: flushes that found no card     *)
(* shorten the log at its beginning, and never tear a hole into it.        *)
LogHasNoHole ==
    ~fresh /\ ~hole =>
        LET log == logFile \o buf
        IN  /\ \A i \in DOMAIN log : log[i] = samples - Len(log) + i
            /\ log # <<>> => log[1] > bootAt
=============================================================================
