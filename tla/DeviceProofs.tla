---------------------------- MODULE DeviceProofs ----------------------------
(***************************************************************************)
(* Proofs about three smaller components of the firmware: BootCommand, for *)
(* every set of characters, two commands and size of the line buffer;      *)
(* BatteryLog, for every buffer, line length and flush interval; and       *)
(* AudioCapture, for every number of blocks, queue depth, threshold,       *)
(* written gain and bound.                                                 *)
(***************************************************************************)
EXTENDS BootCommand, BatteryLog, AudioCapture, SequenceTheorems, TLAPS

CommandTypeOK ==
    /\ rx \in Seq(Chars) /\ typed \in Seq(Chars)
    /\ gpregret \in {"0", "uf2", "format"} /\ formatting \in BOOLEAN
    /\ bootPc \in {"take", "init", "format", "run", "uf2"}
    /\ asked \in Nat /\ formats \in Nat

(* The buffer holds the end of the line: all that is left of it since it   *)
(* last was full.                                                          *)
BufferIsTail ==
    /\ Len(rx) <= Len(typed)
    /\ \A i \in 1 .. Len(rx) : rx[i] = typed[Len(typed) - Len(rx) + i]

(* A request is in the register, or main() has it in hand, never both; it  *)
(* is one line that was not yet used up.                                   *)
InRegister == IF gpregret = "format" THEN 1 ELSE 0
InHand     == IF formatting /\ bootPc \in {"init", "format"} THEN 1 ELSE 0

RequestsAccounted == formats + InRegister + InHand <= asked

CommandInv ==
    /\ CommandTypeOK
    /\ BufferIsTail
    /\ bootPc \in {"init", "format", "run"} => gpregret # "format"
    /\ RequestsAccounted

LEMMA TailEndsWith == CommandTypeOK /\ BufferIsTail => EndsWith(typed, rx)
<1>. SUFFICES ASSUME CommandTypeOK, BufferIsTail PROVE EndsWith(typed, rx)
  OBVIOUS
<1>1. /\ rx \in Seq(Chars) /\ typed \in Seq(Chars)
      /\ Len(rx) \in Nat /\ Len(typed) \in Nat /\ Len(rx) <= Len(typed)
  BY DEF CommandTypeOK, BufferIsTail
<1> DEFINE tail == SubSeq(typed, Len(typed) - Len(rx) + 1, Len(typed))
<1>2. /\ tail \in Seq(Chars) /\ Len(tail) = Len(rx)
      /\ \A i \in 1 .. Len(rx) : tail[i] = typed[Len(typed) - Len(rx) + i]
  BY <1>1
<1>3. \A i \in 1 .. Len(rx) : tail[i] = rx[i]
  BY <1>2 DEF BufferIsTail
<1>4. tail = rx
  <2>. HIDE DEF tail
  <2>. QED
    BY <1>1, <1>2, <1>3
<1>. QED
  BY <1>1, <1>4 DEF EndsWith

LEMMA CommandInvInit == BootInit => CommandInv
<1>. SUFFICES ASSUME BootInit PROVE CommandInv
  OBVIOUS
<1>1. CommandTypeOK /\ BufferIsTail
  <2>1. rx = <<>> /\ typed = <<>> /\ <<>> \in Seq(Chars)
    BY DEF BootInit
  <2>2. CommandTypeOK
    BY <2>1 DEF BootInit, CommandTypeOK
  <2>3. Len(rx) = 0 /\ Len(typed) = 0
    BY <2>1
  <2>. QED
    BY <2>2, <2>3 DEF BufferIsTail
<1>2. InRegister = 0 /\ InHand = 0
  BY DEF BootInit, InRegister, InHand
<1>. QED
  BY <1>1, <1>2 DEF BootInit, CommandInv, RequestsAccounted

LEMMA CommandInvStep == CommandInv /\ [BootNext]_bootVars => CommandInv'
<1>. SUFFICES ASSUME CommandInv, [BootNext]_bootVars PROVE CommandInv'
  OBVIOUS
<1>. USE DEF CommandInv, CommandTypeOK, RequestsAccounted
<1>a. /\ formats \in Nat /\ asked \in Nat /\ InRegister \in {0, 1} /\ InHand \in {0, 1}
      /\ InRegister' \in {0, 1} /\ InHand' \in {0, 1}
  BY DEF InRegister, InHand
<1>c. gpregret' # "format" => InRegister' = 0
  BY DEF InRegister
<1>0. rx' = <<>> /\ typed' \in Seq(Chars) => rx' \in Seq(Chars) /\ BufferIsTail'
  BY DEF BufferIsTail
<1>d. <<>> \in Seq(Chars)
  OBVIOUS
<1>1. CASE TypeChar
  <2>1. PICK c \in Chars : /\ rx' = IF Len(rx) < RxSize - 1 THEN Append(rx, c) ELSE <<>>
                           /\ typed' = Append(typed, c)
    BY <1>1 DEF TypeChar
  <2>2. rx' \in Seq(Chars) /\ typed' \in Seq(Chars) /\ BufferIsTail'
    <3>1. CASE rx' = <<>>
      BY <1>0, <2>1, <3>1
    <3>2. CASE rx' = Append(rx, c)
      <4>1. /\ rx' \in Seq(Chars) /\ typed' \in Seq(Chars)
            /\ Len(rx') = Len(rx) + 1 /\ Len(typed') = Len(typed) + 1
            /\ Len(rx) \in Nat /\ Len(typed) \in Nat /\ Len(rx) <= Len(typed)
        BY <2>1, <3>2 DEF BufferIsTail
      <4>a. /\ \A i \in 1 .. Len(rx) : rx'[i] = rx[i]
            /\ \A i \in 1 .. Len(typed) : typed'[i] = typed[i]
            /\ rx'[Len(rx) + 1] = c /\ typed'[Len(typed) + 1] = c
        BY <2>1, <3>2, AppendProperties
      <4>2. ASSUME NEW i \in 1 .. Len(rx')
            PROVE  rx'[i] = typed'[Len(typed') - Len(rx') + i]
        <5>1. CASE i = Len(rx) + 1
          BY <4>a, <4>1, <5>1
        <5>2. CASE i \in 1 .. Len(rx)
          <6>1. /\ Len(typed') - Len(rx') + i = Len(typed) - Len(rx) + i
                /\ Len(typed) - Len(rx) + i \in 1 .. Len(typed)
            BY <4>1, <5>2
          <6>. QED
            BY <4>a, <5>2, <6>1 DEF BufferIsTail
        <5>. QED
          BY <4>1, <4>2, <5>1, <5>2
      <4>. QED
        BY <4>1, <4>2 DEF BufferIsTail
    <3>. QED
      BY <2>1, <3>1, <3>2
  <2>3. InRegister' = InRegister /\ InHand' = InHand
    BY <1>1 DEF TypeChar, InRegister, InHand
  <2>. QED
    BY <1>1, <2>2, <2>3 DEF TypeChar
<1>2. CASE TypeNewline
  <2>1. InRegister' = InRegister /\ InHand' = InHand
    BY <1>2 DEF TypeNewline, InRegister, InHand
  <2>. QED
    BY <1>0, <1>2, <2>1 DEF TypeNewline
<1>3. ASSUME NEW command \in {Boot, Format}, NEW magic \in {"uf2", "format"},
             Command(command, magic), magic = "format" => command = Format
      PROVE  CommandInv'
  <2>1. /\ Listening /\ rx = command /\ typed' = <<>> /\ rx' = <<>> /\ formats' = formats
        /\ gpregret' = magic /\ formatting' = FALSE /\ bootPc' \in {"uf2", "take"}
        /\ asked' = IF EndsWith(typed, Format) THEN asked + 1 ELSE asked
    BY <1>3 DEF Command, Reset
  <2>2. bootPc \in {"format", "run"} /\ gpregret # "format"
    BY <2>1 DEF Listening
  <2>3. magic = "format" => asked' = asked + 1
    BY <1>3, <2>1, TailEndsWith
  <2>4. BufferIsTail' /\ rx' \in Seq(Chars) /\ typed' \in Seq(Chars)
    BY <1>0, <2>1
  <2>5. InHand' = 0
    BY <2>1 DEF InHand
  <2>6. InRegister' = IF magic = "format" THEN 1 ELSE 0
    BY <2>1 DEF InRegister
  <2>7. InRegister = 0
    BY <2>2 DEF InRegister
  <2>8. asked' = asked \/ asked' = asked + 1
    BY <2>1
  <2>9. formats' + InRegister' + InHand' <= asked'
    BY <1>a, <2>1, <2>3, <2>5, <2>6, <2>7, <2>8
  <2>10. CommandTypeOK'
    <3>1. asked' \in Nat /\ formats' \in Nat
      BY <1>a, <2>1, <2>8
    <3>2. formatting' \in BOOLEAN
      BY <2>1
    <3>3. gpregret' \in {"0", "uf2", "format"}
      BY <1>3, <2>1
    <3>4. bootPc' \in {"take", "init", "format", "run", "uf2"}
      BY <2>1
    <3>5. rx' \in Seq(Chars) /\ typed' \in Seq(Chars)
      BY <1>d, <2>1
    <3>. QED
      BY <3>1, <3>2, <3>3, <3>4, <3>5
  <2>. QED
    BY <2>1, <2>4, <2>9, <2>10
<1>4. CASE TakeRequest
  <2>1. InRegister' = 0 /\ InHand' = InRegister
    BY <1>4 DEF TakeRequest, InRegister, InHand
  <2>2. /\ formatting' \in BOOLEAN /\ bootPc' = "init" /\ UNCHANGED <<rx, typed, asked, formats>>
        /\ gpregret' \in {"0", "uf2"}
    BY <1>4 DEF TakeRequest
  <2>. QED
    BY <1>a, <2>1, <2>2 DEF BufferIsTail
<1>5. CASE InitConsole
  <2>1. InRegister' = InRegister /\ InHand' = InHand
    BY <1>5 DEF InitConsole, InRegister, InHand
  <2>. QED
    BY <1>5, <2>1 DEF InitConsole, BufferIsTail
<1>6. CASE RunFormat
  <2>1. InRegister' = InRegister /\ InHand' = 0
    BY <1>6 DEF RunFormat, InRegister, InHand
  <2>2. formats' = formats + InHand
    BY <1>6 DEF RunFormat, InHand
  <2>. QED
    BY <1>6, <1>a, <2>1, <2>2 DEF RunFormat, BufferIsTail
<1>7. CASE AnyReset
  <2>1. /\ typed' = <<>> /\ rx' = <<>> /\ gpregret' \in {gpregret, "0"}
        /\ bootPc' \in {"uf2", "take"} /\ formatting' = FALSE /\ UNCHANGED <<asked, formats>>
    BY <1>7 DEF AnyReset, Reset
  <2>2. InHand' = 0 /\ (InRegister' = InRegister \/ InRegister' = 0)
    BY <2>1 DEF InRegister, InHand
  <2>3. formats' + InRegister' + InHand' <= asked'
    <3>1. formats' = formats /\ asked' = asked
      BY <2>1
    <3>2. formats + InRegister + InHand <= asked
      OBVIOUS
    <3>3. InHand' = 0 /\ InHand >= 0
      BY <1>a, <2>2
    <3>4. CASE InRegister' = InRegister
      BY <1>a, <3>1, <3>2, <3>3, <3>4
    <3>5. CASE InRegister' = 0
      BY <1>a, <3>1, <3>2, <3>3, <3>5
    <3>. QED
      BY <2>2, <3>4, <3>5
  <2>4. CommandTypeOK' /\ BufferIsTail'
    <3>1. typed' \in Seq(Chars) /\ rx' \in Seq(Chars)
      BY <1>d, <2>1
    <3>2. gpregret' \in {"0", "uf2", "format"}
      BY <2>1
    <3>. QED
      BY <1>0, <2>1, <3>1, <3>2
  <2>. QED
    BY <2>1, <2>3, <2>4
<1>8. CASE UNCHANGED bootVars
  <2>1. InRegister' = InRegister /\ InHand' = InHand
    BY <1>8 DEF bootVars, InRegister, InHand
  <2>. QED
    BY <1>8, <2>1 DEF bootVars, BufferIsTail
<1>. QED
  BY <1>1, <1>2, <1>3, <1>4, <1>5, <1>6, <1>7, <1>8 DEF BootNext

(* However resets fall between what is typed, the register and main(), the *)
(* card is formatted at most once for every line that ends in the command. *)
THEOREM BootFormatsOnlyWhenAsked == BootSpec => []FormatOnlyWhenAsked
<1>1. CommandInv => FormatOnlyWhenAsked
  BY DEF CommandInv, CommandTypeOK, RequestsAccounted, InRegister, InHand, FormatOnlyWhenAsked
<1>. QED
  BY <1>1, CommandInvInit, CommandInvStep, PTL DEF BootSpec
-----------------------------------------------------------------------------
(***************************************************************************)
(* BatteryLog.  A run is a stretch of samples without a gap up to one of   *)
(* them.  The buffer is always one up to the last sample, and a log that   *)
(* counts is one up to the buffer, all of this boot.                       *)
(***************************************************************************)
IsRun(s, end) ==
    /\ s \in Seq(Int)
    /\ \A i \in 1 .. Len(s) : s[i] = end - Len(s) + i
    /\ Len(s) <= end - bootAt

Logs == [file : Seq(Int), fresh : BOOLEAN, hole : BOOLEAN]

IsLog(log, end) ==
    /\ log \in Logs
    /\ log.fresh = FALSE /\ log.hole = FALSE => IsRun(log.file, end)

BattInv ==
    /\ samples \in Nat /\ bootAt \in Nat /\ bootAt <= samples
    /\ IsRun(buf, samples)
    /\ IsLog(Log, samples - Len(buf))

LEMMA LogUpdates ==
    ASSUME NEW log \in Logs, NEW f \in Seq(Int)
    PROVE  /\ [log EXCEPT !.file = f] \in Logs
           /\ [log EXCEPT !.file = f].file = f
           /\ [log EXCEPT !.file = f].fresh = log.fresh
           /\ [log EXCEPT !.file = f].hole = log.hole
           /\ [log EXCEPT !.file = f, !.hole = TRUE] \in Logs
           /\ [log EXCEPT !.file = f, !.hole = TRUE].hole = TRUE
           /\ [log EXCEPT !.fresh = FALSE, !.hole = TRUE] \in Logs
           /\ [log EXCEPT !.fresh = FALSE, !.hole = TRUE].hole = TRUE
           /\ [log EXCEPT !.fresh = TRUE] \in Logs
           /\ [log EXCEPT !.fresh = TRUE].fresh = TRUE
BY DEF Logs

LEMMA RunOfOne ==
    ASSUME NEW n \in Int, bootAt \in Int, bootAt < n
    PROVE  IsRun(<<n>>, n) /\ <<n>> \in Seq(Int) /\ Len(<<n>>) = 1
<1>. DEFINE s == <<n>>
<1>1. s \in Seq(Int) /\ Len(s) = 1 /\ s[1] = n
  OBVIOUS
<1>. HIDE DEF s
<1>2. \A i \in 1 .. Len(s) : i = 1
  BY <1>1
<1>3. \A i \in 1 .. Len(s) : s[i] = n - Len(s) + i
  BY <1>1, <1>2
<1>4. Len(s) <= n - bootAt
  BY <1>1
<1>. QED
  BY <1>1, <1>3, <1>4 DEF IsRun, s

LEMMA RunsJoin ==
    ASSUME NEW s, NEW u, NEW mid \in Int, NEW end \in Int, bootAt \in Int,
           IsRun(s, mid), IsRun(u, end), mid = end - Len(u)
    PROVE  IsRun(s \o u, end)
<1>1. s \in Seq(Int) /\ u \in Seq(Int) /\ Len(s) \in Nat /\ Len(u) \in Nat
  BY DEF IsRun
<1>2. s \o u \in Seq(Int) /\ Len(s \o u) = Len(s) + Len(u)
  BY <1>1
<1>3. ASSUME NEW i \in 1 .. Len(s \o u)
      PROVE  (s \o u)[i] = end - Len(s \o u) + i
  <2>1. CASE i <= Len(s)
    <3>1. (s \o u)[i] = s[i] /\ i \in 1 .. Len(s)
      BY <1>1, <1>2, <2>1
    <3>. QED
      BY <1>1, <1>2, <3>1 DEF IsRun
  <2>2. CASE i > Len(s)
    <3>1. (s \o u)[i] = u[i - Len(s)] /\ i - Len(s) \in 1 .. Len(u)
      BY <1>1, <1>2, <2>2
    <3>2. u[i - Len(s)] = end - Len(u) + (i - Len(s))
      BY <3>1 DEF IsRun
    <3>. QED
      BY <1>1, <1>2, <3>1, <3>2
  <2>. QED
    BY <1>1, <1>2, <2>1, <2>2
<1>4. Len(s \o u) <= end - bootAt
  BY <1>1, <1>2 DEF IsRun
<1>. QED
  BY <1>2, <1>3, <1>4 DEF IsRun

(* Whatever becomes of a flush, the log it leaves counts up to its lines,  *)
(* or does not count.                                                      *)
LEMMA FlushedIsLog ==
    ASSUME NEW log, NEW lines, NEW mid \in Int, NEW end \in Int, bootAt \in Int,
           bootAt <= mid, IsLog(log, mid), IsRun(lines, end), mid = end - Len(lines),
           NEW out \in Flushed(log, lines)
    PROVE  IsLog(out, end)
<1>1. /\ lines \in Seq(Int) /\ Len(lines) \in Nat
      /\ log \in Logs /\ log.file \in Seq(Int) /\ log.fresh \in BOOLEAN /\ log.hole \in BOOLEAN
  BY DEF IsRun, IsLog, Logs
<1>2. CASE lines = <<>>
  <2>1. out = log /\ mid = end
    BY <1>2 DEF Flushed
  <2>. QED
    BY <2>1
<1>3. CASE lines # <<>>
  <2>1. Begun(log) \in Logs /\ NotDeleted(log) \in Logs
    <3>1. [file |-> <<>>, fresh |-> FALSE, hole |-> FALSE] \in Logs
      <4>1. <<>> \in Seq(Int)
        OBVIOUS
      <4>. QED
        BY <4>1 DEF Logs
    <3>. QED
      BY <1>1, <3>1, LogUpdates DEF Begun, NotDeleted
  <2>2. CASE out \in NotOpened(log)
    <3>1. out \in Logs /\ out.fresh = TRUE
      <4>1. \A l \in Logs : [l EXCEPT !.fresh = TRUE] \in Logs /\ [l EXCEPT !.fresh = TRUE].fresh = TRUE
        BY LogUpdates, <1>1
      <4>. QED
        BY <1>1, <2>1, <2>2, <4>1 DEF NotOpened
    <3>. QED
      BY <3>1 DEF IsLog
  <2>3. ASSUME NEW start, start \in Logs, out \in Wrote(start, lines),
               start.fresh = FALSE /\ start.hole = FALSE => IsRun(start.file, mid)
        PROVE  IsLog(out, end)
    <3>1. CASE out = [start EXCEPT !.file = @ \o lines]
      <4>1. /\ out \in Logs /\ out.file = start.file \o lines
            /\ out.fresh = start.fresh /\ out.hole = start.hole
        <5>1. start.file \o lines \in Seq(Int)
          BY <1>1, <2>3 DEF Logs
        <5>. QED
          BY <2>3, <3>1, <5>1, LogUpdates
      <4>2. IsRun(start.file, mid) => IsRun(out.file, end)
        BY <4>1, RunsJoin
      <4>. QED
        BY <2>3, <4>1, <4>2 DEF IsLog
    <3>2. ASSUME NEW n \in 0 .. Len(lines) - 1,
                 out = [start EXCEPT !.file = @ \o SubSeq(lines, 1, n), !.hole = TRUE]
          PROVE  IsLog(out, end)
      <4>1. SubSeq(lines, 1, n) \in Seq(Int)
        BY <1>1
      <4>2. out \in Logs /\ out.hole = TRUE
        <5>1. start.file \o SubSeq(lines, 1, n) \in Seq(Int)
          BY <2>3, <4>1 DEF Logs
        <5>. QED
          BY <2>3, <3>2, <5>1, LogUpdates
      <4>. QED
        BY <4>2 DEF IsLog
    <3>. QED
      BY <2>3, <3>1, <3>2 DEF Wrote
  <2>4. CASE out \in Wrote(Begun(log), lines)
    <3>1. CASE log.fresh = TRUE
      <4>1. Begun(log).file = <<>> /\ IsRun(<<>>, mid)
        BY <3>1 DEF Begun, IsRun
      <4>. QED
        BY <2>1, <2>3, <2>4, <4>1
    <3>2. CASE log.fresh = FALSE
      <4>1. Begun(log) = log
        BY <3>2 DEF Begun
      <4>. QED
        BY <2>1, <2>3, <2>4, <4>1 DEF IsLog
    <3>. QED
      BY <1>1, <3>1, <3>2
  <2>5. CASE out \in Wrote(NotDeleted(log), lines)
    <3>1. CASE log.fresh = TRUE
      <4>1. NotDeleted(log).hole = TRUE
        BY <1>1, <3>1, LogUpdates DEF NotDeleted
      <4>. QED
        BY <2>1, <2>3, <2>5, <4>1
    <3>2. CASE log.fresh = FALSE
      <4>1. NotDeleted(log) = log
        BY <3>2 DEF NotDeleted
      <4>. QED
        BY <2>1, <2>3, <2>5, <4>1 DEF IsLog
    <3>. QED
      BY <1>1, <3>1, <3>2
  <2>. QED
    BY <1>3, <2>2, <2>4, <2>5 DEF Flushed
<1>. QED
  BY <1>2, <1>3

LEMMA SampleInv ==
    ASSUME BattInv, Sample
    PROVE  BattInv'
<1>1. /\ samples \in Nat /\ bootAt \in Nat /\ bootAt <= samples
      /\ buf \in Seq(Int) /\ Len(buf) \in Nat /\ Len(buf) <= samples - bootAt
  BY DEF BattInv, IsRun
<1>2. PICK size \in LineSizes :
         LET before == IF Overflow(size) THEN buf ELSE <<>>
             after  == IF Overflow(size) THEN Line ELSE buf \o Line
         IN  /\ \E mid \in Flushed(Log, before) :
                  \E log \in Flushed(mid, IF Due THEN after ELSE <<>>) :
                     logFile' = log.file /\ fresh' = log.fresh /\ hole' = log.hole
             /\ buf' = IF Due THEN <<>> ELSE after
  BY DEF Sample
<1>. DEFINE before == IF Overflow(size) THEN buf ELSE <<>>
            after  == IF Overflow(size) THEN Line ELSE buf \o Line
            lines  == IF Due THEN after ELSE <<>>
            cut    == IF Overflow(size) THEN samples ELSE samples - Len(buf)
            ends   == IF Due THEN samples + 1 ELSE cut
<1>3. PICK mid \in Flushed(Log, before) : \E log \in Flushed(mid, lines) :
         logFile' = log.file /\ fresh' = log.fresh /\ hole' = log.hole
  BY <1>2
<1>4. PICK log \in Flushed(mid, lines) :
         logFile' = log.file /\ fresh' = log.fresh /\ hole' = log.hole
  BY <1>3
<1>5. buf' = (IF Due THEN <<>> ELSE after) /\ samples' = samples + 1 /\ bootAt' = bootAt
  BY <1>2 DEF Sample
<1>6. IsRun(Line, samples + 1) /\ Line \in Seq(Int) /\ Len(Line) = 1
  <2>1. samples + 1 \in Int /\ bootAt \in Int /\ bootAt < samples + 1
    BY <1>1
  <2>. QED
    BY <2>1, RunOfOne DEF Line
<1>7. IsRun(after, samples + 1) /\ samples + 1 - Len(after) = cut
  <2>1. CASE Overflow(size)
    BY <1>1, <1>6, <2>1, samples + 1 - 1 = samples
  <2>2. CASE ~Overflow(size)
    <3>1. IsRun(buf \o Line, samples + 1)
      <4>1. samples \in Int /\ samples + 1 \in Int /\ samples = samples + 1 - Len(Line)
        BY <1>1, <1>6
      <4>2. bootAt \in Int /\ IsRun(buf, samples)
        BY <1>1 DEF BattInv
      <4>3. IsRun(Line, samples + 1)
        BY <1>6
      <4>. QED
        BY <4>1, <4>2, <4>3, RunsJoin
    <3>2. Len(buf \o Line) = Len(buf) + 1
      <4>1. Len(buf \o Line) = Len(buf) + Len(Line)
        <5>1. \A s, u \in Seq(Int) : Len(s \o u) = Len(s) + Len(u)
          OBVIOUS
        <5>. QED
          BY <1>1, <1>6, <5>1
      <4>. QED
        BY <1>6, <4>1
    <3>. QED
      BY <1>1, <2>2, <3>1, <3>2
  <2>. QED
    BY <2>1, <2>2
<1>8. /\ IsRun(before, cut) /\ cut - Len(before) = samples - Len(buf)
      /\ cut \in Int /\ bootAt <= cut /\ bootAt <= samples - Len(buf)
  <2>1. CASE Overflow(size)
    BY <1>1, <2>1 DEF BattInv
  <2>2. CASE ~Overflow(size)
    BY <1>1, <2>2 DEF IsRun
  <2>. QED
    BY <2>1, <2>2
<1>. HIDE DEF before, after, cut
<1>9. IsLog(mid, cut)
  BY <1>1, <1>3, <1>8, FlushedIsLog DEF BattInv
<1>10. IsRun(lines, ends) /\ ends - Len(lines) = cut /\ ends \in Int
  <2>1. CASE Due
    BY <1>1, <1>7, <2>1
  <2>2. CASE ~Due
    <3>1. IsRun(<<>>, cut)
      BY <1>1, <1>8 DEF IsRun
    <3>. QED
      BY <1>1, <1>8, <2>2, <3>1
  <2>. QED
    BY <2>1, <2>2
<1>. HIDE DEF lines, ends
<1>11. IsLog(log, ends)
  BY <1>1, <1>4, <1>8, <1>9, <1>10, FlushedIsLog
<1>12. IsRun(buf', samples + 1) /\ samples + 1 - Len(buf') = ends
  <2>1. CASE Due
    BY <1>1, <1>5, <2>1 DEF IsRun, ends
  <2>2. CASE ~Due
    BY <1>1, <1>5, <1>7, <2>2 DEF ends
  <2>. QED
    BY <2>1, <2>2
<1>13. Log' = log
  BY <1>4, <1>11 DEF Log, IsLog, Logs
<1>14. IsRun(buf, samples)'
  BY <1>5, <1>12 DEF IsRun
<1>15. IsLog(Log, samples - Len(buf))'
  <2>1. log \in Logs /\ (log.fresh = FALSE /\ log.hole = FALSE => IsRun(log.file, ends))
    BY <1>11 DEF IsLog
  <2>2. samples' - Len(buf)' = ends
    <3>1. samples' = samples + 1
      BY <1>5
    <3>. QED
      BY <1>1, <1>12, <3>1
  <2>. QED
    BY <1>5, <1>13, <2>1, <2>2 DEF IsLog, IsRun
<1>16. samples' \in Nat /\ bootAt' \in Nat /\ bootAt' <= samples'
  BY <1>1, <1>5
<1>. QED
  BY <1>14, <1>15, <1>16 DEF BattInv

LEMMA BattStep ==
    ASSUME BattInv, [BattNext]_battVars
    PROVE  BattInv'
<1>1. CASE Sample
  BY <1>1, SampleInv
<1>2. CASE Mount \/ UNCHANGED battVars
  BY <1>2 DEF Mount, battVars, BattInv, IsLog, IsRun, Log
<1>3. CASE Restart
  <2>1. IsRun(buf, samples)'
    BY <1>3 DEF Restart, BattInv, IsRun
  <2>2. logFile \in Seq(Int)
    BY DEF BattInv, IsLog, Log, Logs
  <2>3. IsLog(Log, samples - Len(buf))'
    BY <1>3, <2>2 DEF Restart, IsLog, Log, Logs
  <2>. QED
    BY <1>3, <2>1, <2>3 DEF Restart, BattInv
<1>. QED
  BY <1>1, <1>2, <1>3 DEF BattNext

LEMMA BattInvNoHole == BattInv => LogHasNoHole
<1>. SUFFICES ASSUME BattInv, ~fresh, ~hole
              PROVE  LET log == logFile \o buf
                     IN  /\ \A i \in DOMAIN log : log[i] = samples - Len(log) + i
                         /\ log # <<>> => log[1] > bootAt
  BY DEF LogHasNoHole
<1>. DEFINE log == logFile \o buf
<1>1. /\ samples \in Nat /\ bootAt \in Nat /\ IsRun(buf, samples)
      /\ fresh \in BOOLEAN /\ hole \in BOOLEAN
  BY DEF BattInv, IsLog, Log, Logs
<1>2. IsRun(logFile, samples - Len(buf))
  BY <1>1 DEF BattInv, IsLog, Log
<1>3. Len(buf) \in Nat
  BY <1>1 DEF IsRun
<1>4. IsRun(log, samples)
  BY <1>1, <1>2, <1>3, RunsJoin
<1>. HIDE DEF log
<1>5. log \in Seq(Int) /\ Len(log) \in Nat /\ DOMAIN log = 1 .. Len(log)
  BY <1>4 DEF IsRun
<1>6. \A i \in DOMAIN log : log[i] = samples - Len(log) + i
  BY <1>4, <1>5 DEF IsRun
<1>7. log # <<>> => log[1] > bootAt
  <2>1. log # <<>> => 1 \in 1 .. Len(log)
    BY <1>5
  <2>2. log # <<>> => log[1] = samples - Len(log) + 1
    BY <1>5, <1>6, <2>1
  <2>3. Len(log) <= samples - bootAt
    BY <1>4 DEF IsRun
  <2>. QED
    BY <1>1, <1>5, <2>2, <2>3
<1>. QED
  BY <1>6, <1>7 DEF log

(* However late the card comes, whichever opening, deletion or write of a  *)
(* flush fails (battlog_flush) and whenever the device restarts, for every *)
(* buffer, line length and flush interval: a log that no write failed on   *)
(* is, with the buffer, the samples of this boot without a gap.            *)
THEOREM BatteryLogHasNoHole == BattSpec => []LogHasNoHole
<1>1. BattInit => BattInv
  <2>. SUFFICES ASSUME BattInit
                PROVE  BattInv
    OBVIOUS
  <2>1. IsRun(buf, samples)
    BY DEF BattInit, IsRun
  <2>2. IsLog(Log, samples - Len(buf))
    <3>1. Log = [file |-> <<>>, fresh |-> TRUE, hole |-> FALSE]
      BY DEF BattInit, Log
    <3>2. <<>> \in Seq(Int)
      OBVIOUS
    <3>3. Log \in Logs /\ Log.fresh = TRUE
      BY <3>1, <3>2 DEF Logs
    <3>. QED
      BY <3>3 DEF IsLog
  <2>. QED
    BY <2>1, <2>2 DEF BattInit, BattInv
<1>. QED
  BY <1>1, BattStep, BattInvNoHole, PTL DEF BattSpec
-----------------------------------------------------------------------------

(***************************************************************************)
(* The gain table rises, so that the nearest level is unique.              *)
(***************************************************************************)
LEMMA TableRises ==
    /\ \A i \in 1 .. 9 : PdmGain[i] \in 0 .. GainMaximum
    /\ \A i, j \in 1 .. 9 : i < j => PdmGain[i] < PdmGain[j]
    /\ PdmGain[7] = DefaultGain /\ PdmGain[9] = GainMaximum
<1>1. /\ PdmGain[1] = 0 /\ PdmGain[2] = 20 /\ PdmGain[3] = 30 /\ PdmGain[4] = 40
      /\ PdmGain[5] = 46 /\ PdmGain[6] = 50 /\ PdmGain[7] = 64 /\ PdmGain[8] = 70
      /\ PdmGain[9] = 80
  BY DEF PdmGain
<1>2. \A i \in 1 .. 9 : i \in {1, 2, 3, 4, 5, 6, 7, 8, 9}
  OBVIOUS
<1>. HIDE DEF PdmGain
<1>3. \A i \in 1 .. 9 : PdmGain[i] \in 0 .. 80
  BY <1>1, <1>2
<1>4. \A i \in 1 .. 8 : PdmGain[i] < PdmGain[i + 1]
  BY <1>1
<1>5. \A i, j \in 1 .. 9 : i < j => PdmGain[i] < PdmGain[j]
  BY <1>1, <1>2
<1>. QED
  BY <1>1, <1>3, <1>5 DEF GainMaximum, DefaultGain

IsNearest(gain, level) ==
    \A other \in Levels : \/ Delta(gain, level) < Delta(gain, other)
                          \/ Delta(gain, level) = Delta(gain, other) /\ level <= other

LEMMA DeltaType ==
    ASSUME NEW gain \in Nat, NEW level \in Levels
    PROVE  /\ Delta(gain, level) \in Nat
           /\ gain >= PdmGain[level + 1] => Delta(gain, level) = gain - PdmGain[level + 1]
           /\ gain < PdmGain[level + 1] => Delta(gain, level) = PdmGain[level + 1] - gain
<1>1. level + 1 \in 1 .. 9
  BY DEF Levels
<1>2. PdmGain[level + 1] \in Nat
  BY <1>1, TableRises DEF GainMaximum
<1>. HIDE DEF PdmGain
<1>. QED
  BY <1>2 DEF Delta

LEMMA NearestIs ==
    ASSUME NEW gain \in Nat, NEW level \in Levels, IsNearest(gain, level)
    PROVE  Nearest(gain) = level
<1>1. ASSUME NEW other \in Levels, IsNearest(gain, other)
      PROVE  other = level
  <2>1. Delta(gain, level) \in Nat /\ Delta(gain, other) \in Nat /\ level \in Nat /\ other \in Nat
    <3>1. Delta(gain, level) \in Nat /\ Delta(gain, other) \in Nat
      BY DeltaType
    <3>2. level \in Nat /\ other \in Nat
      BY DEF Levels
    <3>. QED
      BY <3>1, <3>2
  <2>2. \/ Delta(gain, level) < Delta(gain, other)
        \/ Delta(gain, level) = Delta(gain, other) /\ level <= other
    BY DEF IsNearest
  <2>3. \/ Delta(gain, other) < Delta(gain, level)
        \/ Delta(gain, other) = Delta(gain, level) /\ other <= level
    BY <1>1 DEF IsNearest
  <2>4. \A a, b \in Nat : (a < b \/ (a = b /\ level <= other)) /\ (b < a \/ (b = a /\ other <= level))
                         => level = other
    BY <2>1
  <2>. QED
    BY ONLY <2>1, <2>2, <2>3, <2>4
<1>2. Nearest(gain) = CHOOSE l \in Levels : IsNearest(gain, l)
  BY DEF Nearest, IsNearest
<1>. HIDE DEF IsNearest
<1>. QED
  BY <1>1, <1>2

(* A level's own gain is nearest to it.                                    *)
LEMMA NearestOfLevel ==
    ASSUME NEW level \in Levels
    PROVE  PdmGain[level + 1] \in Nat /\ Nearest(PdmGain[level + 1]) = level
<1> DEFINE g == PdmGain[level + 1]
<1>1. g \in Nat /\ level + 1 \in 1 .. 9
  BY SMTT(30), TableRises DEF Levels, GainMaximum
<1>2. Delta(g, level) = 0
  <2>1. g - g = 0
    BY <1>1
  <2>. HIDE DEF g
  <2>2. g = PdmGain[level + 1] => Delta(g, level) = g - g
    BY <1>1, DeltaType
  <2>. QED
    BY <2>1, <2>2 DEF g
<1>3. ASSUME NEW other \in Levels, other # level
      PROVE  Delta(g, other) > 0
  <2>1. other + 1 \in 1 .. 9 /\ (other + 1 < level + 1 \/ level + 1 < other + 1)
    BY <1>1, <1>3 DEF Levels
  <2>2. PdmGain[other + 1] # g
    BY <1>1, <2>1, TableRises DEF GainMaximum
  <2>3. PdmGain[other + 1] \in Nat
    BY SMTT(30), <2>1, TableRises DEF GainMaximum
  <2>. HIDE DEF g
  <2>. QED
    BY <1>1, <2>2, <2>3, DeltaType
<1>4. IsNearest(g, level)
  <2>. SUFFICES ASSUME NEW other \in Levels
                PROVE  \/ Delta(g, level) < Delta(g, other)
                       \/ Delta(g, level) = Delta(g, other) /\ level <= other
    BY DEF IsNearest
  <2>1. CASE other = level
    BY <2>1, <1>2 DEF Levels
  <2>2. CASE other # level
    BY <2>2, <1>2, <1>3
  <2>. QED
    BY <2>1, <2>2
<1>. QED
  BY <1>1, <1>4, NearestIs

(* What the clamp takes off does not change the level.                     *)
LEMMA NearestOfClamped ==
    ASSUME NEW gain \in Gains
    PROVE  ClampGain(gain) \in 0 .. GainMaximum /\ Nearest(ClampGain(gain)) = Nearest(gain)
<1>1. gain \in Nat
  BY DEF Gains
<1>2. CASE gain <= GainMaximum
  BY <1>1, <1>2 DEF ClampGain, GainMaximum
<1>3. CASE gain > GainMaximum
  <2>1. 8 \in Levels /\ PdmGain[8 + 1] = GainMaximum
    BY TableRises DEF Levels
  <2>2. Delta(gain, 8) = gain - GainMaximum
    BY <1>1, <1>3, <2>1, DeltaType DEF GainMaximum
  <2>3. ASSUME NEW other \in Levels
        PROVE  \/ Delta(gain, 8) < Delta(gain, other)
               \/ Delta(gain, 8) = Delta(gain, other) /\ 8 <= other
    <3>1. CASE other = 8
      BY <3>1
    <3>2. CASE other # 8
      <4>1. other + 1 \in 1 .. 9 /\ other + 1 < 9
        BY <3>2 DEF Levels
      <4>2. PdmGain[other + 1] < GainMaximum /\ PdmGain[other + 1] \in Nat
        BY SMTT(30), <4>1, TableRises DEF GainMaximum
      <4>3. Delta(gain, other) = gain - PdmGain[other + 1]
        BY <1>1, <1>3, <4>2, DeltaType DEF GainMaximum
      <4>. QED
        BY <1>1, <2>2, <4>2, <4>3 DEF GainMaximum
    <3>. QED
      BY <3>1, <3>2
  <2>4. Nearest(gain) = 8
    BY <1>1, <2>1, <2>3, NearestIs DEF IsNearest
  <2>5. Nearest(GainMaximum) = 8
    BY <2>1, NearestOfLevel
  <2>6. ClampGain(gain) = GainMaximum
    BY <1>3 DEF ClampGain
  <2>. QED
    BY <2>4, <2>5, <2>6 DEF GainMaximum
<1>. QED
  BY <1>1, <1>2, <1>3 DEF GainMaximum

(***************************************************************************)
(* The invariants.                                                         *)
(***************************************************************************)
CaptureTypeOK ==
    /\ mic \in {"off", "on", "stalled"} /\ free \in Nat /\ filled \in Nat
    /\ capPc \in Starting \cup Capturing \cup {"gone"}
    /\ bootGain \in 0 .. GainMaximum /\ pdmGain \in 0 .. GainMaximum
    /\ write \in [pc : {"idle", "store", "apply"}, gain : Gains]

InThread == IF capPc \in {"put", "free"} THEN 1 ELSE 0

(* A write in flight has chosen the level of its gain.  Unless the last    *)
(* write to store its gain raced with the start of the capture, that gain  *)
(* is what the software has, what the starting thread is about to apply,   *)
(* and, with no write in flight, what the microphone has.                  *)
GainInv ==
    /\ write.pc # "idle" => omiLevel = Nearest(write.gain)
    /\ ~raced =>
         /\ write.pc = "idle" => omiLevel = Nearest(pdmGain)
         /\ write.pc = "apply" => pdmGain = ClampGain(write.gain)
         /\ capPc \in {"set", "apply"} => bootGain = pdmGain
         /\ write.pc = "idle" /\ capPc \in {"start"} \cup Capturing => hwGain = pdmGain

CaptureInv == CaptureTypeOK /\ BlocksConserved /\ GainInv

LEMMA BlocksCounted == BlocksConserved <=> free + filled + InThread = Blocks
BY DEF BlocksConserved, InThread

LEMMA CaptureInvInit == CapInit => CaptureInv
<1>. SUFFICES ASSUME CapInit PROVE CaptureInv
  OBVIOUS
<1>1. DefaultGain = PdmGain[7] /\ DefaultGain \in 0 .. GainMaximum
  BY TableRises
<1>2. Nearest(DefaultGain) = 6
  <2>1. 6 \in Levels /\ 6 + 1 = 7
    BY DEF Levels
  <2>. QED
    BY <1>1, <2>1, NearestOfLevel
<1>3. /\ omiLevel = 6 /\ pdmGain = DefaultGain /\ bootGain = DefaultGain /\ capPc = "configure"
      /\ write = [pc |-> "idle", gain |-> 0] /\ free = Blocks /\ filled = 0 /\ mic = "off"
  BY DEF CapInit
<1>4. CaptureTypeOK
  BY <1>1, <1>3, CaptureAssumption DEF CaptureTypeOK, Starting, Gains
<1>5. BlocksConserved
  BY <1>3, CaptureAssumption DEF BlocksConserved
<1>6. GainInv
  BY <1>2, <1>3 DEF GainInv, Capturing
<1>. QED
  BY <1>4, <1>5, <1>6 DEF CaptureInv

LEMMA ClearedInv == Cleared => CaptureInv'
<1>. SUFFICES ASSUME Cleared PROVE CaptureInv'
  OBVIOUS
<1>1. DefaultGain = PdmGain[7] /\ DefaultGain \in 0 .. GainMaximum
  BY TableRises
<1>2. Nearest(DefaultGain) = 6
  <2>1. 6 \in Levels /\ 6 + 1 = 7
    BY DEF Levels
  <2>. QED
    BY <1>1, <2>1, NearestOfLevel
<1>3. /\ omiLevel' = 6 /\ pdmGain' = DefaultGain /\ bootGain' = DefaultGain /\ capPc' = "configure"
      /\ write' = [pc |-> "idle", gain |-> 0] /\ free' = Blocks /\ filled' = 0 /\ mic' = "off"
  BY DEF Cleared
<1>4. CaptureTypeOK'
  BY <1>1, <1>3, CaptureAssumption DEF CaptureTypeOK, Starting, Gains
<1>5. BlocksConserved'
  BY <1>3, CaptureAssumption DEF BlocksConserved
<1>6. GainInv'
  BY <1>2, <1>3 DEF GainInv, Capturing
<1>. QED
  BY <1>4, <1>5, <1>6 DEF CaptureInv

(* The blocks: who has them, after any step.                               *)
LEMMA BlocksStep == CaptureTypeOK /\ BlocksConserved /\ [CapNext]_capVars => BlocksConserved'
<1>. SUFFICES ASSUME CaptureTypeOK, BlocksConserved, [CapNext]_capVars PROVE BlocksConserved'
  OBVIOUS
<1>1. /\ free \in Nat /\ filled \in Nat /\ free + filled + InThread = Blocks
      /\ InThread \in {0, 1} /\ Blocks \in Nat
  BY BlocksCounted, CaptureAssumption DEF CaptureTypeOK, InThread
<1>2. CASE Cleared
  BY <1>2, ClearedInv DEF CaptureInv
<1>3. CASE UNCHANGED <<free, filled, capPc>>
  BY <1>3 DEF BlocksConserved
<1>4. CASE UNCHANGED <<free, filled>> /\ InThread' = InThread
  BY <1>1, <1>4 DEF BlocksConserved, InThread
<1>5. CASE Fill
  BY <1>1, <1>5 DEF Fill, capture, BlocksConserved, InThread
<1>6. CASE Read
  BY <1>1, <1>6 DEF Read, BlocksConserved, InThread
<1>7. CASE Free
  BY <1>1, <1>7 DEF Free, BlocksConserved, InThread
<1>8. CASE Put
  BY <1>4, <1>8 DEF Put, driver, InThread
<1>9. CASE Configure \/ GetGain \/ SetGain \/ ApplyGain \/ StartMic \/ StopMic \/ RestartMic
  <2>1. UNCHANGED <<free, filled>>
    BY <1>9 DEF Configure, GetGain, SetGain, ApplyGain, StartMic, StopMic, RestartMic, driver
  <2>2. capPc \notin {"put", "free"} /\ capPc' \notin {"put", "free"}
    BY <1>9 DEF Configure, GetGain, SetGain, ApplyGain, StartMic, StopMic, RestartMic, NoData
  <2>. QED
    BY <1>4, <2>1, <2>2 DEF InThread
<1>10. CASE Overrun \/ Stall \/ TakeFrame \/ WriteLevel \/ WriteRaw \/ StoreGain \/ ApplyWrite
            \/ ReadFails
  BY <1>3, <1>10 DEF Overrun, Stall, TakeFrame, WriteLevel, WriteRaw, WriteGain, StoreGain,
       ApplyWrite, ReadFails, driver, capture
<1>11. CASE UNCHANGED capVars
  BY <1>3, <1>11 DEF capVars
<1>. QED
  BY <1>2, <1>5, <1>6, <1>7, <1>8, <1>9, <1>10, <1>11 DEF CapNext, CaptureThread, Reboot, PowerCycle

LEMMA GainTypes ==
    ASSUME NEW g \in Gains
    PROVE  ClampGain(g) \in 0 .. GainMaximum /\ (g \in 0 .. GainMaximum => ClampGain(g) = g)
BY DEF Gains, ClampGain, GainMaximum

(* A gain write begins with a gain and its level.                          *)
LEMMA WriteBegins ==
    ASSUME CaptureTypeOK, WriteLevel \/ WriteRaw
    PROVE  /\ write' \in [pc : {"idle", "store", "apply"}, gain : Gains] /\ write'.pc = "store"
           /\ omiLevel' = Nearest(write'.gain)
           /\ UNCHANGED <<mic, free, filled, capPc, bootGain, pdmGain, hwGain, raced>>
<1>1. PICK level, gain : WriteGain(level, gain) /\ gain \in Gains /\ level = Nearest(gain)
  <2>1. CASE WriteLevel
    <3>1. PICK l \in LevelWrites : WriteGain(ClampLevel(l), OmiGain(l))
      BY <2>1 DEF WriteLevel
    <3>2. ClampLevel(l) \in Levels
      BY CaptureAssumption DEF ClampLevel, Levels
    <3>3. OmiGain(l) \in Nat /\ Nearest(OmiGain(l)) = ClampLevel(l)
      BY <3>2, NearestOfLevel DEF OmiGain
    <3>4. OmiGain(l) \in Gains
      <4>1. ClampLevel(l) + 1 \in 1 .. 9
        BY <3>2 DEF Levels
      <4>2. PdmGain[ClampLevel(l) + 1] \in 0 .. 80
        BY <4>1, TableRises DEF GainMaximum
      <4>. QED
        BY <4>2 DEF OmiGain, Gains
    <3>. QED
      BY <3>1, <3>3, <3>4
  <2>2. CASE WriteRaw
    <3>1. PICK g \in RawWrites : WriteGain(Nearest(g), g)
      BY <2>2 DEF WriteRaw
    <3>. QED
      BY <3>1, CaptureAssumption DEF Gains
  <2>. QED
    BY <2>1, <2>2
<1>. QED
  BY <1>1 DEF WriteGain, driver, capture

LEMMA CaptureTypeStep == CaptureTypeOK /\ [CapNext]_capVars => CaptureTypeOK'
<1>. SUFFICES ASSUME CaptureTypeOK, [CapNext]_capVars PROVE CaptureTypeOK'
  OBVIOUS
<1>. USE DEF CaptureTypeOK
<1>1. CASE Cleared
  BY <1>1, ClearedInv DEF CaptureInv
<1>2. CASE Fill \/ Overrun \/ Stall \/ TakeFrame
  BY <1>2 DEF Fill, Overrun, Stall, TakeFrame, driver, gains, capture
<1>3. CASE Configure \/ GetGain \/ StartMic
  BY <1>3 DEF Configure, GetGain, StartMic, driver, gains, Starting, Capturing
<1>4. CASE SetGain \/ ApplyGain
  <2>1. ClampGain(bootGain) \in 0 .. GainMaximum
    BY GainTypes DEF Gains, GainMaximum
  <2>. QED
    BY <1>4, <2>1 DEF SetGain, ApplyGain, driver, Starting
<1>5. CASE Read \/ Put \/ Free
  BY <1>5 DEF Read, Put, Free, driver, gains, Capturing
<1>6. CASE ReadFails \/ StopMic \/ RestartMic
  BY <1>6 DEF ReadFails, StopMic, RestartMic, driver, gains, Capturing
<1>7. CASE WriteLevel \/ WriteRaw
  BY <1>7, WriteBegins
<1>8. CASE StoreGain \/ ApplyWrite
  <2>1. ClampGain(write.gain) \in 0 .. GainMaximum
    BY GainTypes
  <2>2. write' \in [pc : {"idle", "store", "apply"}, gain : Gains]
    BY <1>8 DEF StoreGain, ApplyWrite
  <2>. QED
    BY <1>8, <2>1, <2>2 DEF StoreGain, ApplyWrite, driver, capture
<1>9. CASE UNCHANGED capVars
  BY <1>9 DEF capVars
<1>. QED
  BY <1>1, <1>2, <1>3, <1>4, <1>5, <1>6, <1>7, <1>8, <1>9 DEF CapNext, CaptureThread, Reboot, PowerCycle

LEMMA GainStep == CaptureTypeOK /\ GainInv /\ [CapNext]_capVars => GainInv'
<1>. SUFFICES ASSUME CaptureTypeOK, GainInv, [CapNext]_capVars PROVE GainInv'
  OBVIOUS
<1>0. bootGain \in Gains /\ pdmGain \in Gains /\ write.gain \in Gains
  BY DEF CaptureTypeOK, Gains, GainMaximum
<1>1. CASE Cleared
  BY <1>1, ClearedInv DEF CaptureInv
<1>2. CASE UNCHANGED gains /\ (UNCHANGED capPc \/ (capPc \in {"start"} \cup Capturing
                                                  /\ capPc' \in Capturing \cup {"gone"}))
  BY <1>2 DEF GainInv, gains, Capturing
<1>3. CASE Fill \/ Overrun \/ Stall \/ TakeFrame
  BY <1>2, <1>3 DEF Fill, Overrun, Stall, TakeFrame, capture
<1>4. CASE StartMic \/ Read \/ Put \/ Free \/ ReadFails \/ StopMic \/ RestartMic
  BY <1>2, <1>4 DEF StartMic, Read, Put, Free, ReadFails, StopMic, RestartMic, NoData, Capturing
<1>5. CASE Configure
  BY <1>5 DEF Configure, GainInv, Capturing
<1>6. CASE GetGain
  BY <1>6 DEF GetGain, GainInv, Capturing
<1>7. CASE SetGain
  <2>1. ClampGain(bootGain) = bootGain
    BY <1>0, GainTypes DEF CaptureTypeOK
  <2>. QED
    BY <1>7, <2>1 DEF SetGain, GainInv, Capturing
<1>8. CASE ApplyGain
  <2>1. ClampGain(bootGain) = bootGain
    BY <1>0, GainTypes DEF CaptureTypeOK
  <2>. QED
    BY <1>8, <2>1 DEF ApplyGain, GainInv, Capturing
<1>9. CASE WriteLevel \/ WriteRaw
  BY <1>9, WriteBegins DEF GainInv
<1>10. CASE StoreGain
  <2>1. write' = [write EXCEPT !.pc = "apply"] /\ write.pc = "store"
    BY <1>10 DEF StoreGain
  <2>2. write'.pc = "apply" /\ write'.gain = write.gain
    BY <2>1 DEF CaptureTypeOK
  <2>. QED
    BY <1>10, <2>1, <2>2 DEF StoreGain, GainInv, capture
<1>11. CASE ApplyWrite
  <2>1. write'.pc = "idle" /\ write.pc = "apply"
    BY <1>11 DEF ApplyWrite, CaptureTypeOK
  <2>2. Nearest(ClampGain(write.gain)) = Nearest(write.gain)
    BY <1>0, NearestOfClamped
  <2>. QED
    BY <1>11, <2>1, <2>2 DEF ApplyWrite, GainInv, capture
<1>12. CASE UNCHANGED capVars
  BY <1>2, <1>12 DEF capVars, gains
<1>. QED
  BY <1>1, <1>3, <1>4, <1>5, <1>6, <1>7, <1>8, <1>9, <1>10, <1>11, <1>12
     DEF CapNext, CaptureThread, Reboot, PowerCycle

LEMMA CaptureInvariant == CapSpec => []CaptureInv
<1>1. CaptureInv /\ [CapNext]_capVars => CaptureInv'
  BY CaptureTypeStep, BlocksStep, GainStep DEF CaptureInv
<1>. QED
  BY <1>1, CaptureInvInit, PTL DEF CapSpec

(* Whichever endpoint wrote the gain, with any value, and whenever: the    *)
(* level read back, the software's gain and the microphone's agree, unless *)
(* the write fell between the starting thread's read of the gain and its   *)
(* use.                                                                    *)
THEOREM CaptureGainAgrees == CapSpec => []GainAgrees
<1>1. CaptureInv => GainAgrees
  BY DEF CaptureInv, GainInv, GainAgrees
<1>. QED
  BY <1>1, CaptureInvariant, PTL

(* No stall, overrun, failed read, dropped frame or restart of the driver  *)
(* leaks a block of the slab or frees one twice.                           *)
THEOREM CaptureBlocksConserved == CapSpec => []BlocksConserved
<1>1. CaptureInv => BlocksConserved
  BY DEF CaptureInv
<1>. QED
  BY <1>1, CaptureInvariant, PTL
=============================================================================
