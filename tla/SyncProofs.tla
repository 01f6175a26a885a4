----------------------------- MODULE SyncProofs -----------------------------
(***************************************************************************)
(* Theorems about SdSync: what the drain loop, stop(), kills and restarts  *)
(* of the app keep true for every number of recordings, every size of      *)
(* window, chunk and pass, and any number of faults.                       *)
(***************************************************************************)
EXTENDS SdSync, SequenceTheorems, FiniteSetTheorems, WellFoundedInduction, TLAPS
-----------------------------------------------------------------------------
(* The plans.  What may be left behind a step in a plan: `After`.  A plan  *)
(* is in order if each step is followed by such steps only; then no step   *)
(* is in it twice, and what is left behind a step that calls nothing and   *)
(* returns to nobody is nothing.                                           *)
Flushers == {"flush", "flushAll", "write", "count"}
Saves    == {"off", "ci", "pend"}
Loads    == {"load", "empty", "fill"}
Alone    == {"top", "open", "status", "list", "next", "shrunk", "fetch", "more",
             "window", "fetchClosed", "legacy", "legacyRetry", "check", "skip",
             "finish", "after", "close"}
Steps    == Flushers \cup Saves \cup Loads \cup Alone \cup {"mayPend", "done"}

After(step) ==
    CASE step \in Flushers  -> Steps \ Flushers
      [] step = "off"       -> Steps \ {"off"}
      [] step = "ci"        -> Steps \ {"off", "ci"}
      [] step = "pend"      -> Steps \ (Saves \cup Flushers \cup {"mayPend"})
      [] step = "mayPend"   -> {"more", "check"}
      [] step = "load"      -> {"empty", "fill", "shrunk", "window"}
      [] step = "empty"     -> {"fill", "shrunk", "window"}
      [] step = "fill"      -> {"shrunk", "window"}
      [] step = "done"      -> {"after"}
      [] OTHER              -> {}

InOrder(p) == \A i, j \in DOMAIN p : i < j => p[j] \in After(p[i])

Left(w) == ToSet(plan[w])

PlanOK == plan \in [Workers -> Seq(Steps)] /\ \A w \in Workers : InOrder(plan[w])

(* The steps of a visit of the file todo[1]; of them, those of a closed    *)
(* file; of them, those before its chunks are flushed for good.            *)
Closed   == {"window", "fetchClosed", "legacy", "legacyRetry", "check", "skip", "finish",
             "done", "after"}
Visiting == Loads \cup Closed \cup {"shrunk", "fetch", "more"}
Asked    == {"window", "fetchClosed", "legacy", "legacyRetry", "check", "skip", "finish"}

Has(w, steps) == Left(w) \cap steps # {}

VisitOK ==
    /\ Has("loop", Visiting) =>
          /\ todo # <<>>
          /\ "load" \in Left("loop") <=> name # Head(todo)
    /\ Has("loop", {"off"}) => name # None

Jobs == [buf : Seq(Nat), force : BOOLEAN, cut : BOOLEAN,
         target : ((Files \cup {None}) \X Nat) \cup {None}]

JobOK == job \in [Workers -> Jobs]

FaultsOK == faults \in [Faults -> Nat]

SyncInv == SyncTypeOK /\ PlanOK /\ VisitOK /\ JobOK /\ FaultsOK
-----------------------------------------------------------------------------
(* The cursor never passes the end of its recording, has reached it for    *)
(* good where the file is marked as done, and is either 0 or at the end    *)
(* with a firmware that has no windows.                                    *)
AtEnd(f, off) == off = size[f] /\ f # current /\ f <= latest

CursorOK(f, off) ==
    /\ off <= size[f]
    /\ f \in savedDone => AtEnd(f, off)
    /\ legacy => off = 0 \/ AtEnd(f, off)

CursorsOK == /\ \A f \in Files : CursorOK(f, savedOff[f])
             /\ name \in Files => CursorOK(name, offset)

BacklogOK ==
    Has("loop", Closed \cup {"next"}) =>
        \A i \in DOMAIN todo : todo[i] # current /\ todo[i] <= latest

ShrunkOK ==
    "shrunk" \in Left("loop") =>
        IF name = Head(todo) THEN offset <= committed ELSE savedOff[Head(todo)] <= committed

AskedOK ==
    Has("loop", Asked) =>
        committed = -1 \/ committed = size[Head(todo)] \/ (legacy /\ committed = 0)

RouteOK ==
    /\ Has("loop", {"legacy", "legacyRetry"}) => offset = 0
    /\ legacy => /\ ~Has("loop", {"check", "shrunk", "fetch", "more"})
                 /\ Has("loop", {"window", "fetchClosed", "legacy", "legacyRetry"}) => pulled = 0
                 /\ "finish" \in Left("loop") /\ pulled > 0 => offset = size[name]

EndOK ==
    "done" \in Left("loop") =>
        /\ offset = size[name]
        /\ "off" \notin Left("loop") => savedOff[name] = size[name]

ClosedOK == ShrunkOK /\ AskedOK /\ RouteOK /\ EndOK

DoneInv == faults.format = 0 => CursorsOK /\ BacklogOK /\ ClosedOK
-----------------------------------------------------------------------------
(* A set of naturals with 0 and the successor of each of its elements is   *)
(* all of them.                                                            *)
LEMMA AllNumbers ==
  ASSUME NEW S \in SUBSET Nat, 0 \in S, \A n \in S : n + 1 \in S
  PROVE  S = Nat
<1>. SUFFICES ASSUME Nat \ S # {} PROVE FALSE
  OBVIOUS
<1>. DEFINE R == {ss \in Nat \X Nat : ss[1] < ss[2]}
<1>1. IsWellFoundedOn(R, Nat)
  BY NatLessThanWellFounded DEF OpToRel
<1>2. PICK n \in Nat \ S : \A m \in Nat \ S : <<m, n>> \notin R
  BY <1>1, WFMin
<1>3. n # 0 /\ n - 1 \in Nat
  OBVIOUS
<1>4. <<n - 1, n>> \in R
  BY <1>3
<1>5. n - 1 \in S
  BY <1>2, <1>3, <1>4
<1>. QED BY <1>3, <1>5

(* _chunkBoundary.  The record that starts at `pos`, and the ends of the   *)
(* first n records: the function the definition of Boundary chooses.       *)
RecordEnd(buf, pos) ==
    IF pos < 0 \/ pos >= Len(buf) THEN -1
    ELSE LET next == pos + 1 + LengthByte(buf[pos + 1])
         IN  IF next > Len(buf) THEN -1 ELSE next

Ends(buf, end) ==
    end = [n \in 0 .. FramesPerChunk |-> IF n = 0 THEN 0 ELSE RecordEnd(buf, end[n - 1])]

LEMMA RecordEndRange ==
  ASSUME NEW buf \in Seq(Nat), NEW pos \in Int
  PROVE  RecordEnd(buf, pos) = -1 \/ RecordEnd(buf, pos) \in pos + 1 .. Len(buf)
<1>1. CASE pos < 0 \/ pos >= Len(buf)
  BY <1>1 DEF RecordEnd
<1>2. CASE ~(pos < 0 \/ pos >= Len(buf))
  <2>1. pos + 1 \in 1 .. Len(buf)
    BY <1>2
  <2>2. LengthByte(buf[pos + 1]) \in Nat
    BY <2>1, SyncAssumption DEF LengthByte
  <2>. QED BY <1>2, <2>2 DEF RecordEnd
<1>. QED BY <1>1, <1>2

LEMMA EndsExist ==
  ASSUME NEW buf \in Seq(Nat)
  PROVE  \E end : Ends(buf, end)
<1>. DEFINE Upto(n, f) == /\ f \in [0 .. n -> Int] /\ f[0] = 0
                          /\ \A k \in 1 .. n : f[k] = RecordEnd(buf, f[k - 1])
            S == {n \in Nat : \E f : Upto(n, f)}
<1>1. 0 \in S
  <2>1. Upto(0, [k \in 0 .. 0 |-> 0])
    OBVIOUS
  <2>. QED BY <2>1
<1>2. ASSUME NEW n \in S PROVE n + 1 \in S
  <2>1. PICK f : Upto(n, f)
    OBVIOUS
  <2>. DEFINE g == [k \in 0 .. n + 1 |-> IF k <= n THEN f[k] ELSE RecordEnd(buf, f[n])]
  <2>2. n \in Nat /\ f[n] \in Int /\ RecordEnd(buf, f[n]) \in Int
    BY <2>1, RecordEndRange
  <2>3. g \in [0 .. n + 1 -> Int] /\ g[0] = 0
    BY <2>1, <2>2
  <2>4. ASSUME NEW k \in 1 .. n + 1 PROVE g[k] = RecordEnd(buf, g[k - 1])
    BY <2>1, <2>2
  <2>5. Upto(n + 1, g)
    BY <2>3, <2>4
  <2>. HIDE DEF Upto, g
  <2>6. \E h : Upto(n + 1, h)
    BY <2>5
  <2>. QED BY <2>2, <2>6
<1>. HIDE DEF Upto
<1>3. S = Nat
  BY <1>1, <1>2, AllNumbers
<1>4. PICK f : Upto(FramesPerChunk, f)
  BY <1>3, SyncAssumption
<1>5. Ends(buf, f)
  BY <1>4, SyncAssumption DEF Ends, Upto
<1>. QED BY <1>5

LEMMA BoundaryIsAnEnd ==
  ASSUME NEW buf \in Seq(Nat)
  PROVE  \E end : /\ Boundary(buf) = end[FramesPerChunk] /\ end[0] = 0
                  /\ \A n \in 1 .. FramesPerChunk : end[n] = RecordEnd(buf, end[n - 1])
<1>. DEFINE end == CHOOSE f : Ends(buf, f)
<1>1. Ends(buf, end)
  BY EndsExist
<1>2. Boundary(buf) = end[FramesPerChunk]
  BY DEF Boundary, Ends, RecordEnd
<1>. HIDE DEF end
<1>3. end[0] = 0 /\ \A n \in 1 .. FramesPerChunk : end[n] = RecordEnd(buf, end[n - 1])
  BY <1>1, SyncAssumption DEF Ends
<1>. QED BY <1>2, <1>3

(* What _chunkBoundary returns is -1 or an end within the bytes at hand,   *)
(* behind at least one byte.                                               *)
LEMMA BoundaryRange ==
  ASSUME NEW buf \in Seq(Nat)
  PROVE  Boundary(buf) = -1 \/ Boundary(buf) \in 1 .. Len(buf)
<1>1. PICK end : /\ Boundary(buf) = end[FramesPerChunk] /\ end[0] = 0
                 /\ \A n \in 1 .. FramesPerChunk : end[n] = RecordEnd(buf, end[n - 1])
  BY BoundaryIsAnEnd
<1>. DEFINE S == {n \in Nat : n \in 0 .. FramesPerChunk =>
                                 end[n] = -1 \/ end[n] \in n .. Len(buf)}
<1>2. 0 \in S
  BY <1>1, SyncAssumption
<1>3. ASSUME NEW n \in S, n + 1 \in 0 .. FramesPerChunk
      PROVE  end[n + 1] = -1 \/ end[n + 1] \in n + 1 .. Len(buf)
  <2>1. end[n + 1] = RecordEnd(buf, end[n])
    BY <1>1, <1>3
  <2>2. end[n] \in Int /\ (end[n] = -1 \/ end[n] \in n .. Len(buf))
    BY <1>3, SyncAssumption
  <2>3. CASE end[n] = -1
    BY <2>1, <2>3 DEF RecordEnd
  <2>4. CASE end[n] \in n .. Len(buf)
    BY <2>1, <2>2, <2>4, RecordEndRange
  <2>. QED BY <2>2, <2>3, <2>4
<1>4. \A n \in S : n + 1 \in S
  BY <1>3
<1>. HIDE DEF S
<1>5. FramesPerChunk \in S
  BY <1>2, <1>4, AllNumbers, SyncAssumption DEF S
<1>. QED BY <1>1, <1>5, SyncAssumption DEF S

LEMMA NextCutRange ==
  ASSUME NEW buf \in Seq(Nat), NEW force \in BOOLEAN
  PROVE  NextCut(buf, force) \in 0 .. Len(buf)
BY BoundaryRange DEF NextCut
-----------------------------------------------------------------------------
LEMMA AfterIs ==
  /\ \A x \in Flushers : After(x) = Steps \ Flushers
  /\ After("off") = Steps \ {"off"}
  /\ After("ci") = Steps \ {"off", "ci"}
  /\ After("pend") = Steps \ (Saves \cup Flushers \cup {"mayPend"})
  /\ After("mayPend") = {"more", "check"}
  /\ After("load") = {"empty", "fill", "shrunk", "window"}
  /\ After("empty") = {"fill", "shrunk", "window"}
  /\ After("fill") = {"shrunk", "window"}
  /\ After("done") = {"after"}
  /\ \A x \in Alone : After(x) = {}
  /\ \A x : x \notin After(x)
<1>. DEFINE Rest == Flushers \cup Saves \cup Loads \cup {"mayPend", "done"}
<1>1. \A x \in Flushers : After(x) = Steps \ Flushers
  BY DEF After, Flushers
<1>2. After("off") = Steps \ {"off"} /\ After("ci") = Steps \ {"off", "ci"}
      /\ After("pend") = Steps \ (Saves \cup Flushers \cup {"mayPend"})
  BY DEF After, Flushers
<1>3. After("mayPend") = {"more", "check"} /\ After("done") = {"after"}
  BY DEF After, Flushers
<1>4. /\ After("load") = {"empty", "fill", "shrunk", "window"}
      /\ After("empty") = {"fill", "shrunk", "window"} /\ After("fill") = {"shrunk", "window"}
  BY DEF After, Flushers
<1>5. \A x : x \notin Rest => After(x) = {}
  BY DEF After, Flushers, Saves, Loads
<1>6. \A x \in Alone : x \notin Rest
  BY DEF Flushers, Saves, Loads, Alone
<1>7. ASSUME NEW x PROVE x \notin After(x)
  <2>1. CASE x \notin Rest
    BY <1>5, <2>1
  <2>2. CASE x \in Rest
    BY <1>1, <1>2, <1>3, <1>4, <2>2 DEF Saves, Loads
  <2>. QED BY <2>1, <2>2
<1>. QED BY <1>1, <1>2, <1>3, <1>4, <1>5, <1>6, <1>7

LEMMA TailInOrder ==
  ASSUME NEW p \in Seq(Steps), InOrder(p), p # <<>>
  PROVE  /\ Tail(p) \in Seq(Steps) /\ InOrder(Tail(p))
         /\ Head(p) \in ToSet(p) /\ Head(p) \in Steps
         /\ ToSet(Tail(p)) = ToSet(p) \ {Head(p)}
         /\ ToSet(Tail(p)) \subseteq After(Head(p))
<1>1. Len(p) \in Nat /\ Len(p) > 0 /\ DOMAIN p = 1 .. Len(p)
  OBVIOUS
<1>2. /\ Tail(p) \in Seq(Steps) /\ Len(Tail(p)) = Len(p) - 1
      /\ DOMAIN Tail(p) = 1 .. Len(p) - 1
      /\ \A i \in 1 .. Len(p) - 1 : Tail(p)[i] = p[i + 1]
  BY <1>1, HeadTailProperties
<1>3. Head(p) = p[1] /\ Head(p) \in Steps
  BY <1>1
<1>4. InOrder(Tail(p))
  BY <1>1, <1>2 DEF InOrder
<1>5. \A i \in 1 .. Len(p) - 1 : Tail(p)[i] \in After(p[1])
  BY <1>1, <1>2 DEF InOrder
<1>6. \A x : x \notin After(x)
  BY AfterIs
<1>7. ToSet(p) = {p[1]} \cup ToSet(Tail(p))
  <2>1. \A i \in DOMAIN p : i = 1 \/ (i - 1 \in DOMAIN Tail(p) /\ Tail(p)[i - 1] = p[i])
    BY <1>1, <1>2
  <2>2. \A i \in DOMAIN Tail(p) : i + 1 \in DOMAIN p /\ p[i + 1] = Tail(p)[i]
    BY <1>1, <1>2
  <2>3. p[1] \in ToSet(p) /\ \A i \in DOMAIN Tail(p) : Tail(p)[i] \in ToSet(p)
    BY <1>1, <2>2 DEF ToSet
  <2>4. \A i \in DOMAIN p : p[i] \in {p[1]} \cup ToSet(Tail(p))
    BY <2>1 DEF ToSet
  <2>. QED BY <2>3, <2>4 DEF ToSet
<1>. QED BY <1>1, <1>2, <1>3, <1>4, <1>5, <1>6, <1>7 DEF ToSet

LEMMA JoinedInOrder ==
  ASSUME NEW p \in Seq(Steps), NEW q \in Seq(Steps), InOrder(p), InOrder(q),
         \A a \in ToSet(p) : ToSet(q) \subseteq After(a)
  PROVE  p \o q \in Seq(Steps) /\ InOrder(p \o q) /\ ToSet(p \o q) = ToSet(p) \cup ToSet(q)
<1>1. /\ p \o q \in Seq(Steps) /\ Len(p \o q) = Len(p) + Len(q)
      /\ \A i \in 1 .. Len(p \o q) :
            (p \o q)[i] = IF i <= Len(p) THEN p[i] ELSE q[i - Len(p)]
  BY ConcatProperties
<1>2. /\ Len(p) \in Nat /\ Len(q) \in Nat
      /\ DOMAIN p = 1 .. Len(p) /\ DOMAIN q = 1 .. Len(q)
      /\ DOMAIN (p \o q) = 1 .. Len(p) + Len(q)
  BY <1>1
<1>3. ASSUME NEW i \in DOMAIN (p \o q), NEW j \in DOMAIN (p \o q), i < j
      PROVE  (p \o q)[j] \in After((p \o q)[i])
  <2>1. CASE j <= Len(p)
    BY <1>1, <1>2, <1>3, <2>1 DEF InOrder
  <2>2. CASE i > Len(p)
    BY <1>1, <1>2, <1>3, <2>2 DEF InOrder
  <2>3. CASE i <= Len(p) /\ j > Len(p)
    <3>1. p[i] \in ToSet(p) /\ q[j - Len(p)] \in ToSet(q)
      BY <1>2, <2>3 DEF ToSet
    <3>. QED BY <1>1, <1>2, <2>3, <3>1
  <2>. QED BY <1>2, <2>1, <2>2, <2>3
<1>4. ToSet(p \o q) = ToSet(p) \cup ToSet(q)
  <2>1. ASSUME NEW i \in DOMAIN (p \o q) PROVE (p \o q)[i] \in ToSet(p) \cup ToSet(q)
    BY <1>1, <1>2 DEF ToSet
  <2>2. ASSUME NEW i \in DOMAIN p PROVE p[i] \in ToSet(p \o q)
    <3>1. i \in DOMAIN (p \o q) /\ (p \o q)[i] = p[i]
      BY <1>1, <1>2
    <3>. QED BY <3>1 DEF ToSet
  <2>3. ASSUME NEW i \in DOMAIN q PROVE q[i] \in ToSet(p \o q)
    <3>1. i + Len(p) \in DOMAIN (p \o q) /\ (p \o q)[i + Len(p)] = q[i]
      BY <1>1, <1>2
    <3>. QED BY <3>1 DEF ToSet
  <2>. QED BY <2>1, <2>2, <2>3 DEF ToSet
<1>. QED BY <1>1, <1>3, <1>4 DEF InOrder

(* A step that returns leaves the rest; one that calls puts its steps in   *)
(* front of the rest.                                                      *)
LEMMA GoInOrder ==
  ASSUME PlanOK, NEW w \in Workers, NEW x,
         At(w, x), NEW s \in Seq(Steps), Go(w, s), InOrder(s),
         \A a \in ToSet(s) : (Left(w) \cap After(x)) \ {x} \subseteq After(a)
  PROVE  /\ PlanOK' /\ x \in Left(w) /\ Left(w) \ {x} \subseteq After(x)
         /\ Left(w)' = ToSet(s) \cup (Left(w) \ {x})
         /\ \A v \in Workers : v # w => plan'[v] = plan[v] /\ Left(v)' = Left(v)
<1>1. plan[w] \in Seq(Steps) /\ InOrder(plan[w]) /\ plan[w] # <<>> /\ Head(plan[w]) = x
  BY DEF PlanOK, At
<1>2. /\ Tail(plan[w]) \in Seq(Steps) /\ InOrder(Tail(plan[w]))
      /\ x \in ToSet(plan[w]) /\ ToSet(Tail(plan[w])) = ToSet(plan[w]) \ {x}
      /\ ToSet(Tail(plan[w])) \subseteq After(x)
  BY <1>1, TailInOrder
<1>3. plan'[w] = s \o Tail(plan[w]) /\ \A v \in Workers : v # w => plan'[v] = plan[v]
  BY DEF Go, PlanOK
<1>4. \A a \in ToSet(s) : ToSet(Tail(plan[w])) \subseteq After(a)
  BY <1>2 DEF Left
<1>5. plan'[w] \in Seq(Steps) /\ InOrder(plan'[w]) /\ ToSet(plan'[w]) = ToSet(s) \cup ToSet(Tail(plan[w]))
  BY <1>2, <1>3, <1>4, JoinedInOrder
<1>6. plan' \in [Workers -> Seq(Steps)]
  BY <1>5 DEF PlanOK, Go
<1>7. PlanOK'
  BY <1>1, <1>3, <1>5, <1>6 DEF PlanOK
<1>. QED BY <1>2, <1>3, <1>5, <1>7 DEF Left

LEMMA SingleInOrder ==
  ASSUME NEW x \in Steps
  PROVE  << x >> \in Seq(Steps) /\ InOrder(<< x >>) /\ ToSet(<< x >>) = {x}
BY DEF InOrder, ToSet

LEMMA EmptyInOrder == << >> \in Seq(Steps) /\ InOrder(<< >>) /\ ToSet(<< >>) = {}
BY DEF InOrder, ToSet

LEMMA SaveInOrder == Save \in Seq(Steps) /\ InOrder(Save) /\ ToSet(Save) = Saves
<1>1. Save \in Seq(Steps)
  BY DEF Save, Steps, Saves
<1>2. Len(Save) = 3 /\ DOMAIN Save = 1 .. 3 /\ Save[1] = "off" /\ Save[2] = "ci" /\ Save[3] = "pend"
  BY DEF Save
<1>3. "pend" \in After("off") /\ "ci" \in After("off") /\ "pend" \in After("ci")
  BY AfterIs DEF Steps, Saves
<1>4. InOrder(Save)
  BY <1>2, <1>3 DEF InOrder
<1>5. ToSet(Save) = Saves
  BY <1>2 DEF ToSet, Saves
<1>. QED BY <1>1, <1>4, <1>5

LEMMA LoadInOrder ==
  /\ <<"load", "empty", "fill">> \in Seq(Steps) /\ InOrder(<<"load", "empty", "fill">>)
  /\ ToSet(<<"load", "empty", "fill">>) = Loads
<1>. DEFINE p == <<"load", "empty", "fill">>
<1>1. p \in Seq(Steps)
  BY DEF Steps, Loads
<1>2. Len(p) = 3 /\ DOMAIN p = 1 .. 3 /\ p[1] = "load" /\ p[2] = "empty" /\ p[3] = "fill"
  OBVIOUS
<1>3. "empty" \in After("load") /\ "fill" \in After("load") /\ "fill" \in After("empty")
  BY AfterIs
<1>. HIDE DEF p
<1>4. InOrder(p)
  BY <1>2, <1>3 DEF InOrder
<1>5. ToSet(p) = Loads
  BY <1>2 DEF ToSet, Loads
<1>. QED BY <1>1, <1>4, <1>5 DEF p

LEMMA SaveThen ==
  ASSUME NEW x \in {"list", "after", "close"}
  PROVE  /\ Save \o << x >> \in Seq(Steps) /\ InOrder(Save \o << x >>)
         /\ ToSet(Save \o << x >>) = Saves \cup {x}
<1>1. x \in Steps
  BY DEF Steps, Alone
<1>2. x \in After("off") /\ x \in After("ci") /\ x \in After("pend")
  BY <1>1, AfterIs DEF Saves, Flushers
<1>3. \A a \in ToSet(Save) : ToSet(<< x >>) \subseteq After(a)
  BY <1>1, <1>2, SaveInOrder, SingleInOrder DEF Saves
<1>. QED BY <1>1, <1>3, SaveInOrder, SingleInOrder, JoinedInOrder

LEMMA WindowsInOrder ==
  /\ Windows \in Seq(Steps) /\ InOrder(Windows)
  /\ ToSet(Windows) = {"off", "ci", "flush", "mayPend", "more"}
  /\ ClosedWindows \in Seq(Steps) /\ InOrder(ClosedWindows)
  /\ ToSet(ClosedWindows) = {"off", "ci", "flush", "mayPend", "check"}
<1>1. ASSUME NEW x \in {"more", "check"}, NEW p, p = <<"off", "ci", "flush", "mayPend", x>>
      PROVE  p \in Seq(Steps) /\ InOrder(p) /\ ToSet(p) = {"off", "ci", "flush", "mayPend", x}
  <2>1. /\ DOMAIN p = 1 .. 5 /\ p[1] = "off" /\ p[2] = "ci" /\ p[3] = "flush"
        /\ p[4] = "mayPend" /\ p[5] = x
    BY <1>1
  <2>2. p \in Seq(Steps)
    BY <1>1 DEF Steps, Saves, Flushers, Alone
  <2>3. {"ci", "flush", "mayPend", x} \subseteq After("off")
    BY AfterIs DEF Steps, Saves, Flushers, Alone
  <2>4. {"flush", "mayPend", x} \subseteq After("ci")
    BY AfterIs DEF Steps, Saves, Flushers, Alone
  <2>5. {"mayPend", x} \subseteq After("flush") /\ x \in After("mayPend")
    BY AfterIs DEF Steps, Saves, Flushers, Alone
  <2>6. InOrder(p)
    BY <2>1, <2>3, <2>4, <2>5 DEF InOrder
  <2>7. ToSet(p) = {"off", "ci", "flush", "mayPend", x}
    BY <2>1 DEF ToSet
  <2>. QED BY <2>2, <2>6, <2>7
<1>. QED BY <1>1 DEF Windows, ClosedWindows

LEMMA LegacyInOrder ==
  ASSUME NEW p, p = <<"off", "ci", "flushAll", "pend", "finish">>
  PROVE  /\ p \in Seq(Steps) /\ InOrder(p)
         /\ ToSet(p) = {"off", "ci", "flushAll", "pend", "finish"}
<1>1. /\ DOMAIN p = 1 .. 5 /\ p[1] = "off" /\ p[2] = "ci" /\ p[3] = "flushAll"
      /\ p[4] = "pend" /\ p[5] = "finish"
  OBVIOUS
<1>2. p \in Seq(Steps)
  BY DEF Steps, Saves, Flushers, Alone
<1>3. {"ci", "flushAll", "pend", "finish"} \subseteq After("off")
  BY AfterIs DEF Steps, Saves, Flushers, Alone
<1>4. {"flushAll", "pend", "finish"} \subseteq After("ci")
  BY AfterIs DEF Steps, Saves, Flushers, Alone
<1>5. {"pend", "finish"} \subseteq After("flushAll") /\ "finish" \in After("pend")
  BY AfterIs DEF Steps, Saves, Flushers, Alone
<1>6. InOrder(p)
  BY <1>1, <1>3, <1>4, <1>5 DEF InOrder
<1>7. ToSet(p) = {"off", "ci", "flushAll", "pend", "finish"}
  BY <1>1 DEF ToSet
<1>. QED BY <1>2, <1>6, <1>7

LEMMA FlushThenSave ==
  ASSUME NEW x \in {"flush", "flushAll"}
  PROVE  /\ << x >> \o Save \in Seq(Steps) /\ InOrder(<< x >> \o Save)
         /\ ToSet(<< x >> \o Save) = {x} \cup Saves
<1>1. x \in Steps /\ Saves \subseteq After(x)
  BY AfterIs DEF Steps, Flushers, Saves
<1>2. \A a \in ToSet(<< x >>) : ToSet(Save) \subseteq After(a)
  BY <1>1, SingleInOrder, SaveInOrder
<1>. QED BY <1>1, <1>2, SingleInOrder, SaveInOrder, JoinedInOrder

LEMMA DoneInOrder ==
  /\ <<"flushAll">> \o Save \o <<"done", "after">> \in Seq(Steps)
  /\ InOrder(<<"flushAll">> \o Save \o <<"done", "after">>)
  /\ ToSet(<<"flushAll">> \o Save \o <<"done", "after">>)
       = {"flushAll", "done", "after"} \cup Saves
<1>1. ASSUME NEW q, q = <<"done", "after">>
      PROVE  /\ <<"flushAll">> \o Save \o q \in Seq(Steps) /\ InOrder(<<"flushAll">> \o Save \o q)
             /\ ToSet(<<"flushAll">> \o Save \o q) = {"flushAll", "done", "after"} \cup Saves
  <2>1. q \in Seq(Steps) /\ DOMAIN q = 1 .. 2 /\ q[1] = "done" /\ q[2] = "after"
    BY <1>1 DEF Steps, Alone
  <2>2. InOrder(q) /\ ToSet(q) = {"done", "after"}
    BY <2>1, AfterIs DEF InOrder, ToSet
  <2>3. \A a \in {"flushAll"} \cup Saves : {"done", "after"} \subseteq After(a)
    BY AfterIs DEF Steps, Flushers, Saves, Alone
  <2>4. \A a \in ToSet(<<"flushAll">> \o Save) : ToSet(q) \subseteq After(a)
    BY <2>2, <2>3, FlushThenSave
  <2>5. /\ <<"flushAll">> \o Save \in Seq(Steps) /\ InOrder(<<"flushAll">> \o Save)
        /\ ToSet(<<"flushAll">> \o Save) = {"flushAll"} \cup Saves
    BY FlushThenSave
  <2>6. /\ (<<"flushAll">> \o Save) \o q \in Seq(Steps)
        /\ InOrder((<<"flushAll">> \o Save) \o q)
        /\ ToSet((<<"flushAll">> \o Save) \o q) = ToSet(<<"flushAll">> \o Save) \cup ToSet(q)
    BY <2>1, <2>2, <2>4, <2>5, JoinedInOrder
  <2>. QED BY <2>2, <2>5, <2>6
<1>. QED BY <1>1

SwitchSteps == Loads \cup (IF name = None THEN {} ELSE {"flush"} \cup Saves)

LEMMA SwitchThen ==
  ASSUME NEW x \in {"shrunk", "window"}
  PROVE  /\ Switch \o << x >> \in Seq(Steps) /\ InOrder(Switch \o << x >>)
         /\ ToSet(Switch \o << x >>) = SwitchSteps \cup {x}
<1>. DEFINE p == IF name = None THEN << >> ELSE <<"flush">> \o Save
            q == <<"load", "empty", "fill">>
<1>1. /\ p \in Seq(Steps) /\ InOrder(p)
      /\ ToSet(p) = IF name = None THEN {} ELSE {"flush"} \cup Saves
  BY FlushThenSave, EmptyInOrder
<1>2. /\ q \in Seq(Steps) /\ InOrder(q) /\ ToSet(q) = Loads
  BY LoadInOrder
<1>3. Switch = p \o q
  BY DEF Switch
<1>. HIDE DEF p, q
<1>4. \A a \in {"flush"} \cup Saves : Loads \cup {x} \subseteq After(a)
  BY AfterIs DEF Steps, Flushers, Saves, Loads, Alone
<1>5. \A a \in ToSet(p) : ToSet(q) \subseteq After(a)
  BY <1>1, <1>2, <1>4
<1>6. Switch \in Seq(Steps) /\ InOrder(Switch) /\ ToSet(Switch) = SwitchSteps
  BY <1>1, <1>2, <1>3, <1>5, JoinedInOrder DEF SwitchSteps
<1>7. x \in Steps /\ \A a \in Loads : x \in After(a)
  BY AfterIs DEF Steps, Loads, Alone
<1>8. \A a \in SwitchSteps : x \in After(a)
  BY <1>4, <1>7 DEF SwitchSteps
<1>9. \A a \in ToSet(Switch) : ToSet(<< x >>) \subseteq After(a)
  BY <1>6, <1>7, <1>8, SingleInOrder
<1>. QED BY <1>6, <1>7, <1>9, SingleInOrder, JoinedInOrder

(* A step of a worker that ends with its turn, by what it calls.           *)
LEMMA AloneGoes ==
  ASSUME PlanOK, NEW w \in Workers, NEW x \in Alone, At(w, x),
         NEW s \in Seq(Steps), InOrder(s), Go(w, s)
  PROVE  /\ PlanOK' /\ Left(w) = {x} /\ Left(w)' = ToSet(s)
         /\ \A v \in Workers : v # w => plan'[v] = plan[v] /\ Left(v)' = Left(v)
<1>1. After(x) = {}
  BY AfterIs
<1>2. /\ PlanOK' /\ x \in Left(w) /\ Left(w) \ {x} \subseteq {}
      /\ Left(w)' = ToSet(s) \cup (Left(w) \ {x})
      /\ \A v \in Workers : v # w => plan'[v] = plan[v] /\ Left(v)' = Left(v)
  BY <1>1, GoInOrder
<1>. QED BY <1>2

LEMMA StepReturns ==
  ASSUME PlanOK, NEW w \in Workers, NEW x, At(w, x), Go(w, << >>)
  PROVE  /\ PlanOK' /\ x \in Left(w) /\ Left(w)' = Left(w) \ {x}
         /\ Left(w)' \subseteq After(x)
         /\ \A v \in Workers : v # w => plan'[v] = plan[v] /\ Left(v)' = Left(v)
<1>1. /\ PlanOK' /\ x \in Left(w) /\ Left(w) \ {x} \subseteq After(x)
      /\ Left(w)' = {} \cup (Left(w) \ {x})
      /\ \A v \in Workers : v # w => plan'[v] = plan[v] /\ Left(v)' = Left(v)
  <2>1. << >> \in Seq(Steps) /\ InOrder(<< >>) /\ ToSet(<< >>) = {}
    BY EmptyInOrder
  <2>2. \A a \in ToSet(<< >>) : (Left(w) \cap After(x)) \ {x} \subseteq After(a)
    BY <2>1
  <2>. QED BY <2>1, <2>2, GoInOrder
<1>. QED BY <1>1

(* A step of _flushPending hands over to the next one.                     *)
LEMMA FlusherGoes ==
  ASSUME PlanOK, NEW w \in Workers, NEW x \in Flushers, NEW y \in Flushers,
         At(w, x), Go(w, << y >>)
  PROVE  /\ PlanOK' /\ x \in Left(w) /\ Left(w) \ {x} \subseteq Steps \ Flushers
         /\ Left(w)' = {y} \cup (Left(w) \ {x})
         /\ \A v \in Workers : v # w => plan'[v] = plan[v] /\ Left(v)' = Left(v)
<1>1. << y >> \in Seq(Steps) /\ InOrder(<< y >>) /\ ToSet(<< y >>) = {y}
  BY SingleInOrder DEF Steps
<1>2. After(x) = Steps \ Flushers /\ After(y) = Steps \ Flushers
  BY AfterIs
<1>3. \A a \in ToSet(<< y >>) : (Left(w) \cap After(x)) \ {x} \subseteq After(a)
  BY <1>1, <1>2
<1>. QED BY <1>1, <1>2, <1>3, GoInOrder

LEMMA ContinueTypes ==
  ASSUME SyncTypeOK, JobOK, NEW w \in Workers, NEW buf \in Seq(Nat), NEW force \in BOOLEAN,
         NEW cut \in BOOLEAN, NEW index \in Nat, NEW rest,
         Continue(w, buf, force, cut, index, rest)
  PROVE  /\ clock' \in Nat /\ JobOK' /\ pending' \in Seq(Nat)
         /\ Leave(w, <<"write">> \o rest) \/ Leave(w, rest)
         /\ \A v \in Workers : v # w => job'[v] = job[v]
<1>1. CASE NextCut(buf, force) > 0
  <2>1. clock' \in Nat
    <3>1. clock' = clock \/ clock' = clock + 1
      BY <1>1 DEF Continue
    <3>2. clock \in Nat
      BY DEF SyncTypeOK
    <3>. QED BY <3>1, <3>2
  <2>2. ChunkName(index, clock') \in (Files \cup {None}) \X Nat
    BY <2>1 DEF ChunkName, SyncTypeOK
  <2>3. [buf |-> buf, force |-> force, cut |-> cut, target |-> ChunkName(index, clock')]
          \in Jobs
    BY <2>2 DEF Jobs
  <2>4. JobOK' /\ \A v \in Workers : v # w => job'[v] = job[v]
    BY <1>1, <2>3 DEF Continue, JobOK
  <2>. QED BY <1>1, <2>1, <2>4 DEF Continue, SyncTypeOK
<1>2. CASE ~(NextCut(buf, force) > 0)
  <2>1. NoJob(cut) \in Jobs
    <3>1. << >> \in Seq(Nat)
      OBVIOUS
    <3>. QED BY <3>1 DEF NoJob, Jobs
  <2>2. JobOK' /\ \A v \in Workers : v # w => job'[v] = job[v]
    BY <1>2, <2>1 DEF Continue, JobOK
  <2>. QED BY <1>2, <2>2 DEF Continue, SyncTypeOK
<1>. QED BY <1>1, <1>2

LEMMA PieceTypes ==
  ASSUME JobOK, NEW w \in Workers
  PROVE  /\ job[w].buf \in Seq(Nat) /\ job[w].force \in BOOLEAN /\ job[w].cut \in BOOLEAN
         /\ NextCut(job[w].buf, job[w].force) \in 0 .. Len(job[w].buf)
         /\ Piece(w) \in Seq(Nat) /\ Len(Piece(w)) = NextCut(job[w].buf, job[w].force)
         /\ SubSeq(job[w].buf, Len(Piece(w)) + 1, Len(job[w].buf)) \in Seq(Nat)
<1>1. job[w].buf \in Seq(Nat) /\ job[w].force \in BOOLEAN /\ job[w].cut \in BOOLEAN
  BY DEF JobOK, Jobs
<1>2. NextCut(job[w].buf, job[w].force) \in 0 .. Len(job[w].buf)
  BY <1>1, NextCutRange
<1>3. Piece(w) \in Seq(Nat) /\ Len(Piece(w)) = NextCut(job[w].buf, job[w].force)
  BY <1>1, <1>2, SubSeqProperties DEF Piece
<1>4. SubSeq(job[w].buf, Len(Piece(w)) + 1, Len(job[w].buf)) \in Seq(Nat)
  BY <1>1, <1>2, <1>3, SubSeqProperties
<1>. QED BY <1>1, <1>2, <1>3, <1>4

(* What the shared calls do to the plan: _flushPending and the two         *)
(* persisting calls come and go, the rest is as before.                    *)
LEMMA SharedPlan ==
  ASSUME SyncTypeOK, PlanOK, JobOK, NEW w \in Workers, Shared(w)
  PROVE  /\ PlanOK' /\ \A v \in Workers : v # w => plan'[v] = plan[v] /\ Left(v)' = Left(v)
         /\ Left(w)' \ (Flushers \cup Saves) = Left(w) \ (Flushers \cup Saves)
         /\ Left(w)' \cap Saves \subseteq Left(w)
         /\ PersistOffset(w)
            \/ (UNCHANGED savedOff /\ ("off" \in Left(w)' <=> "off" \in Left(w)))
<1>. USE DEF Flushers, Saves
<1>0. plan[w] \in Seq(Steps)
  BY DEF PlanOK
<1>1. ASSUME NEW x \in Flushers, At(w, x),
             Leave(w, <<"write">> \o Tail(plan[w])) \/ Leave(w, Tail(plan[w]))
      PROVE  Go(w, <<"write">>) \/ Go(w, << >>)
  <2>1. Tail(plan[w]) \in Seq(Steps)
    BY <1>0, <1>1, HeadTailProperties DEF At
  <2>2. << >> \o Tail(plan[w]) = Tail(plan[w])
    BY <2>1, ConcatEmptySeq
  <2>. QED BY <1>1, <2>2 DEF Leave, Go
<1>2. ASSUME NEW x \in Flushers, At(w, x), Go(w, <<"write">>) \/ Go(w, <<"count">>) \/ Go(w, << >>)
      PROVE  /\ PlanOK' /\ \A v \in Workers : v # w => plan'[v] = plan[v] /\ Left(v)' = Left(v)
             /\ Left(w)' \ Flushers = Left(w) \ Flushers
  <2>1. CASE Go(w, << >>)
    BY <1>2, <2>1, StepReturns
  <2>2. CASE Go(w, <<"write">>)
    BY <1>2, <2>2, FlusherGoes
  <2>3. CASE Go(w, <<"count">>)
    BY <1>2, <2>3, FlusherGoes
  <2>. QED BY <1>2, <2>1, <2>2, <2>3
<1>3. CASE Flush(w)
  <2>1. PICK force \in BOOLEAN :
           /\ At(w, IF force THEN "flushAll" ELSE "flush")
           /\ Continue(w, pending, force, FALSE, chunkIndex, Tail(plan[w]))
    BY <1>3 DEF Flush
  <2>2. Leave(w, <<"write">> \o Tail(plan[w])) \/ Leave(w, Tail(plan[w]))
    BY <2>1, ContinueTypes DEF SyncTypeOK
  <2>3. UNCHANGED savedOff
    BY <1>3 DEF Flush, kept, cursors
  <2>. QED BY <1>1, <1>2, <2>1, <2>2, <2>3
<1>4. CASE WriteChunk(w)
  <2>1. At(w, "write") /\ Go(w, <<"count">>) /\ UNCHANGED savedOff
    BY <1>4 DEF WriteChunk, cursors
  <2>. QED BY <1>2, <2>1
<1>5. CASE CountChunk(w)
  <2>1. /\ At(w, "count") /\ UNCHANGED savedOff
        /\ Continue(w, SubSeq(job[w].buf, Len(Piece(w)) + 1, Len(job[w].buf)),
                    job[w].force, TRUE, chunkIndex', Tail(plan[w]))
    BY <1>5 DEF CountChunk, kept, cursors
  <2>2. chunkIndex' \in Nat
    BY <1>5 DEF CountChunk, SyncTypeOK
  <2>3. Leave(w, <<"write">> \o Tail(plan[w])) \/ Leave(w, Tail(plan[w]))
    BY <2>1, <2>2, PieceTypes, ContinueTypes
  <2>. QED BY <1>1, <1>2, <2>1, <2>3
<1>6. CASE PersistOffset(w)
  <2>1. At(w, "off") /\ Go(w, << >>)
    BY <1>6 DEF PersistOffset
  <2>. QED BY <1>6, <2>1, StepReturns
<1>7. CASE PersistIndex(w)
  <2>1. At(w, "ci") /\ Go(w, << >>) /\ UNCHANGED savedOff
    BY <1>7 DEF PersistIndex
  <2>. QED BY <2>1, StepReturns
<1>8. CASE PersistPending(w)
  <2>1. At(w, "pend") /\ Go(w, << >>) /\ UNCHANGED savedOff
    BY <1>8 DEF PersistPending, cursors
  <2>. QED BY <2>1, StepReturns
<1>. QED BY <1>3, <1>4, <1>5, <1>6, <1>7, <1>8 DEF Shared
-----------------------------------------------------------------------------
(* Where each step of the loop goes: from the plan <<x>>, to one with the  *)
(* steps in s.                                                             *)
Moves(x, s) == /\ PlanOK' /\ Left("loop") = {x} /\ Left("loop")' = s
               /\ plan'["stop"] = plan["stop"] /\ Left("stop")' = Left("stop")

LEMMA AloneMoves ==
  ASSUME PlanOK, NEW x \in Alone, NEW s \in Seq(Steps), InOrder(s), InLoop(x, s)
  PROVE  Moves(x, ToSet(s))
BY AloneGoes DEF InLoop, Moves, Workers

LEMMA MovesToNothing ==
  ASSUME PlanOK, NEW x \in Alone, InLoop(x, << >>)
  PROVE  Moves(x, {})
<1>1. << >> \in Seq(Steps) /\ InOrder(<< >>) /\ ToSet(<< >>) = {}
  BY EmptyInOrder
<1>. QED BY <1>1, AloneMoves

LEMMA MovesToOne ==
  ASSUME PlanOK, NEW x \in Alone, NEW y \in Steps, InLoop(x, << y >>)
  PROVE  Moves(x, {y})
<1>1. << y >> \in Seq(Steps) /\ InOrder(<< y >>) /\ ToSet(<< y >>) = {y}
  BY SingleInOrder
<1>. QED BY <1>1, AloneMoves

LEMMA MovesToSave ==
  ASSUME PlanOK, NEW x \in Alone, NEW y \in {"list", "after"}, InLoop(x, Save \o << y >>)
  PROVE  Moves(x, Saves \cup {y})
<1>1. /\ Save \o << y >> \in Seq(Steps) /\ InOrder(Save \o << y >>)
      /\ ToSet(Save \o << y >>) = Saves \cup {y}
  BY SaveThen
<1>. QED BY <1>1, AloneMoves

(* A visit begins: with a change of file if it is another one.             *)
LEMMA MovesToVisit ==
  ASSUME PlanOK, NEW x \in Alone, NEW y \in {"shrunk", "window"}, NEW f,
         InLoop(x, (IF name = f THEN << >> ELSE Switch) \o << y >>)
  PROVE  Moves(x, IF name = f THEN {y} ELSE SwitchSteps \cup {y})
<1>0. y \in Steps
  BY DEF Steps, Alone
<1>1. CASE name = f
  <2>1. << >> \o << y >> = << y >>
    BY <1>0, ConcatEmptySeq, SingleInOrder
  <2>2. InLoop(x, << y >>)
    BY <1>1, <2>1
  <2>. QED BY <1>0, <1>1, <2>2, MovesToOne
<1>2. CASE name # f
  <2>1. /\ Switch \o << y >> \in Seq(Steps) /\ InOrder(Switch \o << y >>)
        /\ ToSet(Switch \o << y >>) = SwitchSteps \cup {y}
    BY SwitchThen
  <2>2. InLoop(x, Switch \o << y >>)
    BY <1>2
  <2>. QED BY <1>2, <2>1, <2>2, AloneMoves
<1>. QED BY <1>1, <1>2

LEMMA TopMoves ==
  ASSUME PlanOK, Top
  PROVE  Moves("top", IF running THEN {"open"} ELSE {})
<1>. USE DEF Alone, Steps
<1>1. CASE running
  <2>1. InLoop("top", <<"open">>)
    BY <1>1 DEF Top, Turn
  <2>. QED BY <1>1, <2>1, MovesToOne
<1>2. CASE ~running
  <2>1. InLoop("top", << >>)
    BY <1>2 DEF Top, Turn
  <2>. QED BY <1>2, <2>1, MovesToNothing
<1>. QED BY <1>1, <1>2

LEMMA OpenMoves == ASSUME PlanOK, OpenSession PROVE Moves("open", {"status"})
BY MovesToOne DEF OpenSession, Alone, Steps

LEMMA NoStatusMoves == ASSUME PlanOK, NoStatus PROVE Moves("status", {"list"})
BY MovesToOne DEF NoStatus, Alone, Steps

LEMMA StatusMoves ==
  ASSUME PlanOK, Status
  PROVE  Moves("status", IF name = current THEN {"shrunk"} ELSE SwitchSteps \cup {"shrunk"})
BY MovesToVisit DEF Status, Alone

LEMMA ShrunkMoves ==
  ASSUME PlanOK, CheckShrunk
  PROVE  /\ Moves("shrunk", Left("loop")')
         /\ Left("loop")' \in {{"list"}, {"fetch"}, Saves \cup {"list"}}
<1>1. InLoop("shrunk", <<"list">>) \/ InLoop("shrunk", <<"fetch">>)
        \/ InLoop("shrunk", Save \o <<"list">>)
  BY DEF CheckShrunk, InLoop
<1>2. CASE InLoop("shrunk", <<"list">>)
  <2>1. Moves("shrunk", {"list"})
    BY <1>2, MovesToOne DEF Alone, Steps
  <2>. QED BY <2>1 DEF Moves
<1>3. CASE InLoop("shrunk", <<"fetch">>)
  <2>1. Moves("shrunk", {"fetch"})
    BY <1>3, MovesToOne DEF Alone, Steps
  <2>. QED BY <2>1 DEF Moves
<1>4. CASE InLoop("shrunk", Save \o <<"list">>)
  <2>1. Moves("shrunk", Saves \cup {"list"})
    BY <1>4, MovesToSave DEF Alone
  <2>. QED BY <2>1 DEF Moves
<1>. QED BY <1>1, <1>2, <1>3, <1>4

LEMMA MoreMoves ==
  ASSUME PlanOK, MoreWindows
  PROVE  Moves("more", IF running /\ offset < committed /\ pulled < MaxPerPass
                       THEN {"fetch"} ELSE Saves \cup {"list"})
<1>. DEFINE on == running /\ offset < committed /\ pulled < MaxPerPass
<1>1. InLoop("more", IF on THEN <<"fetch">> ELSE Save \o <<"list">>)
  BY DEF MoreWindows, Turn
<1>. HIDE DEF on
<1>2. CASE on
  <2>1. InLoop("more", <<"fetch">>)
    BY <1>1, <1>2
  <2>2. Moves("more", {"fetch"})
    BY <2>1, MovesToOne DEF Alone, Steps
  <2>. QED BY <1>2, <2>2 DEF on
<1>3. CASE ~on
  <2>1. InLoop("more", Save \o <<"list">>)
    BY <1>1, <1>3
  <2>2. Moves("more", Saves \cup {"list"})
    BY <2>1, MovesToSave DEF Alone
  <2>. QED BY <1>3, <2>2 DEF on
<1>. QED BY <1>2, <1>3

LEMMA FetchMoves ==
  ASSUME PlanOK, FetchWindow
  PROVE  Moves("fetch", IF AtOffset = << >> THEN Saves \cup {"list"}
                        ELSE {"off", "ci", "flush", "mayPend", "more"})
<1>1. InLoop("fetch", IF AtOffset = << >> THEN Save \o <<"list">> ELSE Windows)
  BY DEF FetchWindow
<1>2. CASE AtOffset = << >>
  <2>1. InLoop("fetch", Save \o <<"list">>)
    BY <1>1, <1>2
  <2>2. Moves("fetch", Saves \cup {"list"})
    BY <2>1, MovesToSave DEF Alone
  <2>. QED BY <1>2, <2>2
<1>3. CASE AtOffset # << >>
  <2>1. InLoop("fetch", Windows)
    BY <1>1, <1>3
  <2>2. Moves("fetch", {"off", "ci", "flush", "mayPend", "more"})
    BY <2>1, WindowsInOrder, AloneMoves DEF Alone
  <2>. QED BY <1>3, <2>2
<1>. QED BY <1>2, <1>3

LEMMA NoElements ==
  ASSUME NEW S, NEW t \in Seq(S), ToSet(t) \subseteq {}
  PROVE  t = << >>
<1>1. Len(t) \in Nat /\ DOMAIN t = 1 .. Len(t)
  OBVIOUS
<1>2. CASE Len(t) # 0
  <2>1. 1 \in DOMAIN t
    BY <1>1, <1>2
  <2>2. t[1] \in ToSet(t)
    BY <2>1 DEF ToSet
  <2>. QED BY <2>2
<1>3. CASE Len(t) = 0
  BY <1>3, EmptySeq
<1>. QED BY <1>2, <1>3

LEMMA DrainThrowsMoves == ASSUME PlanOK, DrainThrows PROVE Moves("fetch", {"top"})
<1>1. At("loop", "fetch") /\ Leave("loop", <<"top">>)
  BY DEF DrainThrows
<1>2. After("fetch") = {}
  BY AfterIs DEF Alone
<1>3. plan["loop"] \in Seq(Steps) /\ InOrder(plan["loop"])
  BY DEF PlanOK, Workers
<1>4. /\ Tail(plan["loop"]) \in Seq(Steps) /\ Head(plan["loop"]) = "fetch"
      /\ ToSet(Tail(plan["loop"])) \subseteq {}
  BY <1>1, <1>2, <1>3, TailInOrder DEF At
<1>5. Tail(plan["loop"]) = << >>
  BY <1>4, NoElements
<1>6. <<"top">> \o Tail(plan["loop"]) = <<"top">>
  BY <1>5, SingleInOrder, ConcatEmptySeq DEF Steps, Alone
<1>7. InLoop("fetch", <<"top">>)
  BY <1>1, <1>6 DEF InLoop, Go, Leave
<1>. QED BY <1>7, MovesToOne DEF Alone, Steps

LEMMA ListMoves == ASSUME PlanOK, ListFiles PROVE Moves("list", {"next"})
BY MovesToOne DEF ListFiles, Alone, Steps

LEMMA ListFailsMoves == ASSUME PlanOK, ListFails PROVE Moves("list", {"top"})
BY MovesToOne DEF ListFails, Alone, Steps

LEMMA NextFileMoves ==
  ASSUME PlanOK, NextFile
  PROVE  Moves("next", IF ~running \/ todo = << >> THEN {"top"}
                       ELSE IF name = Head(todo) THEN {"window"} ELSE SwitchSteps \cup {"window"})
<1>1. CASE ~running \/ todo = << >>
  <2>1. InLoop("next", <<"top">>)
    BY <1>1 DEF NextFile
  <2>2. Moves("next", {"top"})
    BY <2>1, MovesToOne DEF Alone, Steps
  <2>. QED BY <1>1, <2>2
<1>2. CASE ~(~running \/ todo = << >>)
  <2>1. InLoop("next", (IF name = Head(todo) THEN << >> ELSE Switch) \o <<"window">>)
    BY <1>2 DEF NextFile
  <2>2. Moves("next", IF name = Head(todo) THEN {"window"} ELSE SwitchSteps \cup {"window"})
    BY <2>1, MovesToVisit DEF Alone
  <2>. QED BY <1>2, <2>2
<1>. QED BY <1>1, <1>2

LEMMA NextWindowMoves ==
  ASSUME PlanOK, NextWindow
  PROVE  Moves("window", {"fetchClosed"}) \/ Moves("window", {"finish"})
<1>1. InLoop("window", <<"fetchClosed">>) \/ InLoop("window", <<"finish">>)
  BY DEF NextWindow, Turn
<1>. QED BY <1>1, MovesToOne DEF Alone, Steps

LEMMA FetchClosedMoves ==
  ASSUME PlanOK, FetchClosed
  PROVE  LET bytes == IF legacy THEN << >> ELSE AtOffset
         IN  Moves("fetchClosed",
                   IF bytes # << >> THEN {"off", "ci", "flush", "mayPend", "check"}
                   ELSE IF committed' = 0 /\ offset = 0 /\ pulled = 0 THEN {"legacy"}
                   ELSE {"finish"})
<1>. DEFINE bytes == IF legacy THEN << >> ELSE AtOffset
            none  == committed' = 0 /\ offset = 0 /\ pulled = 0
<1>1. InLoop("fetchClosed", IF bytes # << >> THEN ClosedWindows
                            ELSE IF none THEN <<"legacy">> ELSE <<"finish">>)
  BY DEF FetchClosed
<1>. HIDE DEF bytes, none
<1>2. CASE bytes # << >>
  <2>1. InLoop("fetchClosed", ClosedWindows)
    BY <1>1, <1>2
  <2>2. Moves("fetchClosed", {"off", "ci", "flush", "mayPend", "check"})
    BY <2>1, WindowsInOrder, AloneMoves DEF Alone
  <2>. QED BY <1>2, <2>2 DEF bytes
<1>3. CASE bytes = << >> /\ none
  <2>1. InLoop("fetchClosed", <<"legacy">>)
    BY <1>1, <1>3
  <2>2. Moves("fetchClosed", {"legacy"})
    BY <2>1, MovesToOne DEF Alone, Steps
  <2>. QED BY <1>3, <2>2 DEF bytes, none
<1>4. CASE bytes = << >> /\ ~none
  <2>1. InLoop("fetchClosed", <<"finish">>)
    BY <1>1, <1>4
  <2>2. Moves("fetchClosed", {"finish"})
    BY <2>1, MovesToOne DEF Alone, Steps
  <2>. QED BY <1>4, <2>2 DEF bytes, none
<1>. QED BY <1>2, <1>3, <1>4

LEMMA FetchClosedThrowsMoves ==
  ASSUME PlanOK, FetchClosedThrows
  PROVE  Moves("fetchClosed", IF offset = 0 /\ pulled = 0 THEN {"legacyRetry"} ELSE {"skip"})
<1>1. CASE offset = 0 /\ pulled = 0
  <2>1. InLoop("fetchClosed", <<"legacyRetry">>)
    BY <1>1 DEF FetchClosedThrows
  <2>2. Moves("fetchClosed", {"legacyRetry"})
    BY <2>1, MovesToOne DEF Alone, Steps
  <2>. QED BY <1>1, <2>2
<1>2. CASE ~(offset = 0 /\ pulled = 0)
  <2>1. InLoop("fetchClosed", <<"skip">>)
    BY <1>2 DEF FetchClosedThrows
  <2>2. Moves("fetchClosed", {"skip"})
    BY <2>1, MovesToOne DEF Alone, Steps
  <2>. QED BY <1>2, <2>2
<1>. QED BY <1>1, <1>2

LEMMA FetchLegacyMoves ==
  ASSUME PlanOK, FetchLegacy
  PROVE  \E x \in {"legacy", "legacyRetry"} :
            Moves(x, {"off", "ci", "flushAll", "pend", "finish"})
<1>1. PICK x \in {"legacy", "legacyRetry"} :
         InLoop(x, <<"off", "ci", "flushAll", "pend", "finish">>)
  BY DEF FetchLegacy
<1>2. ASSUME NEW s, s = <<"off", "ci", "flushAll", "pend", "finish">>
      PROVE  Moves(x, {"off", "ci", "flushAll", "pend", "finish"})
  <2>1. InLoop(x, s)
    BY <1>1, <1>2
  <2>2. x \in Alone
    BY DEF Alone
  <2>3. s \in Seq(Steps) /\ InOrder(s) /\ ToSet(s) = {"off", "ci", "flushAll", "pend", "finish"}
    BY <1>2, LegacyInOrder
  <2>4. Moves(x, ToSet(s))
    BY <2>1, <2>2, <2>3, AloneMoves
  <2>. QED BY <2>3, <2>4
<1>. QED BY <1>2

LEMMA LegacyIsEmptyMoves ==
  ASSUME PlanOK, LegacyIsEmpty
  PROVE  Moves("legacy", {"finish"}) \/ Moves("legacyRetry", {"skip"})
<1>1. InLoop("legacy", <<"finish">>) \/ InLoop("legacyRetry", <<"skip">>)
  BY DEF LegacyIsEmpty, Turn
<1>. QED BY <1>1, MovesToOne DEF Alone, Steps

LEMMA LegacyThrowsMoves ==
  ASSUME PlanOK, LegacyThrows
  PROVE  Moves("legacy", {"skip"}) \/ Moves("legacyRetry", {"skip"})
<1>1. InLoop("legacy", <<"skip">>) \/ InLoop("legacyRetry", <<"skip">>)
  BY DEF LegacyThrows
<1>. QED BY <1>1, MovesToOne DEF Alone, Steps

LEMMA CheckMoves ==
  ASSUME PlanOK, CheckEnd
  PROVE  Moves("check", IF offset >= committed THEN {"finish"} ELSE {"window"})
<1>1. CASE offset >= committed
  <2>1. InLoop("check", <<"finish">>)
    BY <1>1 DEF CheckEnd, Turn
  <2>2. Moves("check", {"finish"})
    BY <2>1, MovesToOne DEF Alone, Steps
  <2>. QED BY <1>1, <2>2
<1>2. CASE ~(offset >= committed)
  <2>1. InLoop("check", <<"window">>)
    BY <1>2 DEF CheckEnd, Turn
  <2>2. Moves("check", {"window"})
    BY <2>1, MovesToOne DEF Alone, Steps
  <2>. QED BY <1>2, <2>2
<1>. QED BY <1>1, <1>2

LEMMA SkipMoves == ASSUME PlanOK, SkipFile PROVE Moves("skip", Saves \cup {"after"})
BY MovesToSave DEF SkipFile, Alone

AllFetched == committed >= 0 /\ offset >= committed
                 /\ ~(committed = 0 /\ offset = 0 /\ pulled = 0)

LEMMA FinishMoves ==
  ASSUME PlanOK, Finish
  PROVE  Moves("finish", IF AllFetched THEN {"flushAll", "done", "after"} \cup Saves
                         ELSE {"after"})
<1>1. InLoop("finish", IF AllFetched THEN <<"flushAll">> \o Save \o <<"done", "after">>
                       ELSE <<"after">>)
  BY DEF Finish, Turn, AllFetched
<1>2. CASE AllFetched
  <2>1. InLoop("finish", <<"flushAll">> \o Save \o <<"done", "after">>)
    BY <1>1, <1>2
  <2>2. Moves("finish", {"flushAll", "done", "after"} \cup Saves)
    BY <2>1, DoneInOrder, AloneMoves DEF Alone
  <2>. QED BY <1>2, <2>2
<1>3. CASE ~AllFetched
  <2>1. InLoop("finish", <<"after">>)
    BY <1>1, <1>3
  <2>2. Moves("finish", {"after"})
    BY <2>1, MovesToOne DEF Alone, Steps
  <2>. QED BY <1>3, <2>2
<1>. QED BY <1>2, <1>3

LEMMA AfterMoves ==
  ASSUME PlanOK, AfterFile
  PROVE  Moves("after", {"top"}) \/ Moves("after", {"next"})
<1>1. InLoop("after", <<"top">>) \/ InLoop("after", <<"next">>)
  BY DEF AfterFile
<1>. QED BY <1>1, MovesToOne DEF Alone, Steps

LEMMA LoadMoves ==
  ASSUME PlanOK, LoadCursor
  PROVE  /\ PlanOK' /\ "load" \in Left("loop") /\ Left("loop")' = Left("loop") \ {"load"}
         /\ Left("loop")' \subseteq {"empty", "fill", "shrunk", "window"}
         /\ plan'["stop"] = plan["stop"] /\ Left("stop")' = Left("stop")
<1>1. At("loop", "load") /\ Go("loop", << >>)
  BY DEF LoadCursor, InLoop
<1>. QED BY <1>1, StepReturns, AfterIs DEF Workers

LEMMA LoadPendingMoves ==
  ASSUME PlanOK, NEW x \in {"empty", "fill"}, InLoop(x, << >>)
  PROVE  /\ PlanOK' /\ x \in Left("loop") /\ Left("loop")' = Left("loop") \ {x}
         /\ Left("loop")' \subseteq {"fill", "shrunk", "window"}
         /\ plan'["stop"] = plan["stop"] /\ Left("stop")' = Left("stop")
<1>1. At("loop", x) /\ Go("loop", << >>)
  BY DEF InLoop
<1>. QED BY <1>1, StepReturns, AfterIs DEF Workers

LEMMA MarkDoneMoves ==
  ASSUME PlanOK, MarkDone
  PROVE  /\ PlanOK' /\ "done" \in Left("loop") /\ Left("loop")' = Left("loop") \ {"done"}
         /\ Left("loop")' \subseteq {"after"}
         /\ plan'["stop"] = plan["stop"] /\ Left("stop")' = Left("stop")
<1>1. At("loop", "done") /\ Go("loop", << >>)
  BY DEF MarkDone, InLoop
<1>. QED BY <1>1, StepReturns, AfterIs DEF Workers

LEMMA MayPersistMoves ==
  ASSUME PlanOK, MayPersistPending
  PROVE  /\ PlanOK' /\ "mayPend" \in Left("loop")
         /\ Left("loop") \subseteq {"mayPend", "more", "check"}
         /\ Left("loop")' \ {"pend"} = Left("loop") \ {"mayPend"}
         /\ plan'["stop"] = plan["stop"] /\ Left("stop")' = Left("stop")
<1>1. At("loop", "mayPend") /\ (Go("loop", <<"pend">>) \/ Go("loop", << >>))
  BY DEF MayPersistPending, Turn, InLoop
<1>2. CASE Go("loop", << >>)
  BY <1>1, <1>2, StepReturns, AfterIs DEF Workers
<1>3. CASE Go("loop", <<"pend">>)
  <2>1. <<"pend">> \in Seq(Steps) /\ InOrder(<<"pend">>) /\ ToSet(<<"pend">>) = {"pend"}
    BY SingleInOrder DEF Steps, Saves
  <2>2. After("mayPend") \subseteq After("pend")
    BY AfterIs DEF Steps, Saves, Flushers, Alone
  <2>3. \A a \in ToSet(<<"pend">>) :
           (Left("loop") \cap After("mayPend")) \ {"mayPend"} \subseteq After(a)
    BY <2>1, <2>2
  <2>4. /\ PlanOK' /\ "mayPend" \in Left("loop")
        /\ Left("loop") \ {"mayPend"} \subseteq After("mayPend")
        /\ Left("loop")' = {"pend"} \cup (Left("loop") \ {"mayPend"})
        /\ plan'["stop"] = plan["stop"] /\ Left("stop")' = Left("stop")
    BY <1>1, <1>3, <2>1, <2>3, GoInOrder DEF Workers
  <2>. QED BY <2>4, AfterIs
<1>. QED BY <1>1, <1>2, <1>3
-----------------------------------------------------------------------------
LEMMA Constants == Files \subseteq Nat \ {0} /\ None \notin Files /\ MaxSize \in Nat
                     /\ ChunkBytes \in Nat \ {0} /\ 1 \in Files
BY SyncAssumption DEF Files, MaxSize, ChunkBytes

(* Every recording has a size.                                             *)
LEMMA SizeIsNat == ASSUME SyncTypeOK, NEW f \in Files PROVE size[f] \in Nat
<1>1. size \in [Files -> 0 .. MaxSize] /\ MaxSize \in Nat
  BY Constants DEF SyncTypeOK
<1>. HIDE DEF MaxSize, Files
<1>2. size[f] \in 0 .. MaxSize
  BY <1>1
<1>. QED BY <1>1, <1>2

LEMMA InitInv == SyncInit => SyncInv
<1>. SUFFICES ASSUME SyncInit PROVE SyncInv
  OBVIOUS
<1>. USE SyncAssumption, Constants DEF SyncInit
<1>1. SyncTypeOK
  <2>1. /\ current \in 0 .. NFiles /\ latest \in Files /\ legacy \in BOOLEAN
        /\ size \in [Files -> 0 .. MaxSize] /\ base \in [Files -> Nat]
        /\ savedOff \in [Files -> Nat] /\ savedCi \in [Files -> Nat]
    OBVIOUS
  <2>2. << >> \in Seq(Nat) /\ << >> \in Seq(Files)
    BY EmptySeq
  <2>3. /\ savedPend \in [Files -> Seq(Nat)] /\ savedDone \subseteq Files
        /\ running \in BOOLEAN /\ sessionOpen \in BOOLEAN /\ name \in Files \cup {None}
        /\ offset \in Nat /\ chunkIndex \in Nat /\ pending \in Seq(Nat)
        /\ failed \subseteq Files /\ clock \in Nat
    BY <2>2
  <2>4. \A w \in Workers : job[w].buf \in Seq(Nat)
    <3>1. \A w \in Workers : job[w] = NoJob(FALSE)
      OBVIOUS
    <3>2. NoJob(FALSE).buf = << >>
      BY DEF NoJob
    <3>. QED BY <2>2, <3>1, <3>2
  <2>5. /\ stopName \in Files \cup {None} /\ todo \in Seq(Files)
        /\ committed \in Int /\ pulled \in Nat /\ windows \in Nat
    BY <2>2
  <2>. QED BY <2>1, <2>3, <2>4, <2>5 DEF SyncTypeOK
<1>2. plan = [w \in Workers |-> IF w = "loop" THEN <<"top">> ELSE << >>]
  OBVIOUS
<1>3. /\ plan["loop"] = <<"top">> /\ plan["stop"] = << >>
      /\ <<"top">> \in Seq(Steps) /\ InOrder(<<"top">>) /\ ToSet(<<"top">>) = {"top"}
      /\ << >> \in Seq(Steps) /\ InOrder(<< >>)
  BY <1>2, SingleInOrder, EmptyInOrder DEF Workers, Steps, Alone
<1>4. PlanOK
  BY <1>2, <1>3 DEF PlanOK, Workers
<1>5. VisitOK
  BY <1>3 DEF VisitOK, Has, Left, Visiting, Loads, Closed
<1>6. JobOK
  BY EmptySeq DEF JobOK, NoJob, Jobs
<1>7. FaultsOK
  BY DEF FaultsOK
<1>. QED BY <1>1, <1>4, <1>5, <1>6, <1>7 DEF SyncInv

LEMMA FaultTypes ==
  ASSUME FaultsOK, NEW k \in Faults, Fault(k)
  PROVE  FaultsOK' /\ \A j \in Faults : faults'[j] >= faults[j]
<1>1. faults' = [faults EXCEPT ![k] = faults[k] + 1] /\ faults[k] \in Nat
  BY DEF FaultsOK, Fault
<1>. QED BY <1>1 DEF FaultsOK

LEMMA SliceTypes ==
  ASSUME SyncTypeOK, NEW f \in Files, NEW from \in Nat, NEW to \in Nat
  PROVE  /\ Slice(f, from, to) \in Seq(Nat)
         /\ Len(Slice(f, from, to)) = IF to > from THEN to - from ELSE 0
<1>. DEFINE n == IF to > from THEN to - from ELSE 0
<1>1. n \in Nat /\ base[f] \in Nat
  BY DEF SyncTypeOK
<1>2. \A i \in 1 .. n : base[f] + from + i \in Nat
  BY <1>1
<1>. HIDE DEF n
<1>3. [i \in 1 .. n |-> base[f] + from + i] \in Seq(Nat)
      /\ Len([i \in 1 .. n |-> base[f] + from + i]) = n
  BY <1>1, <1>2
<1>. QED BY <1>3 DEF Slice, n

(* A window: what is there of it, from the cursor on.                      *)
LEMMA AtOffsetTypes ==
  ASSUME SyncTypeOK, name \in Files
  PROVE  /\ AtOffset \in Seq(Nat)
         /\ AtOffset # << >> => offset + Len(AtOffset) <= size[name] /\ Len(AtOffset) > 0
         /\ offset = size[name] => AtOffset = << >>
         /\ offset > size[name] => AtOffset = << >>
         /\ AtOffset = << >> => offset >= size[name]
<1>1. offset \in Nat /\ size[name] \in Nat /\ Window \in Nat \ {0}
  BY Constants, SyncAssumption DEF SyncTypeOK
<1>2. Smaller(offset + Window, size[name]) \in Nat
  BY <1>1 DEF Smaller
<1>3. /\ AtOffset \in Seq(Nat)
      /\ Len(AtOffset) = IF Smaller(offset + Window, size[name]) > offset
                         THEN Smaller(offset + Window, size[name]) - offset ELSE 0
  BY <1>1, <1>2, SliceTypes DEF AtOffset
<1>4. AtOffset = << >> <=> Len(AtOffset) = 0
  BY <1>3, EmptySeq
<1>. QED BY <1>1, <1>3, <1>4 DEF Smaller

LEMMA SharedInv ==
  ASSUME SyncInv, NEW w \in Workers, Shared(w)
  PROVE  SyncInv'
<1>. USE DEF SyncInv
<1>1. /\ PlanOK' /\ \A v \in Workers : v # w => plan'[v] = plan[v] /\ Left(v)' = Left(v)
      /\ Left(w)' \ (Flushers \cup Saves) = Left(w) \ (Flushers \cup Saves)
      /\ Left(w)' \cap Saves \subseteq Left(w)
  BY SharedPlan
<1>2. UNCHANGED <<current, latest, size, base, legacy, savedDone, running, sessionOpen, name,
                  offset, failed, todo, committed, pulled, windows, faults>>
  <2>1. CASE Flush(w)
    BY <2>1 DEF Flush, device, kept, locals, history
  <2>2. CASE WriteChunk(w)
    BY <2>2 DEF WriteChunk, device, object, locals
  <2>3. CASE CountChunk(w)
    BY <2>3 DEF CountChunk, device, kept, locals, history
  <2>4. CASE PersistOffset(w)
    BY <2>4 DEF PersistOffset, device, object, locals, history
  <2>5. CASE PersistIndex(w)
    BY <2>5 DEF PersistIndex, device, object, locals, history
  <2>6. CASE PersistPending(w)
    BY <2>6 DEF PersistPending, device, object, locals, history
  <2>. QED BY <2>1, <2>2, <2>3, <2>4, <2>5, <2>6 DEF Shared
<1>3. /\ savedOff' \in [Files -> Nat] /\ savedCi' \in [Files -> Nat]
      /\ savedPend' \in [Files -> Seq(Nat)] /\ chunkIndex' \in Nat /\ pending' \in Seq(Nat)
      /\ clock' \in Nat /\ stopName' \in Files \cup {None} /\ JobOK'
  <2>0. /\ savedOff \in [Files -> Nat] /\ savedCi \in [Files -> Nat]
        /\ savedPend \in [Files -> Seq(Nat)] /\ chunkIndex \in Nat /\ pending \in Seq(Nat)
        /\ clock \in Nat /\ stopName \in Files \cup {None} /\ offset \in Nat
        /\ name \in Files \cup {None}
    BY DEF SyncTypeOK
  <2>1. CASE Flush(w)
    <3>1. UNCHANGED <<savedOff, savedCi, savedPend, chunkIndex, stopName>>
      BY <2>1 DEF Flush, kept, cursors
    <3>2. PICK force \in BOOLEAN :
             Continue(w, pending, force, FALSE, chunkIndex, Tail(plan[w]))
      BY <2>1 DEF Flush
    <3>. QED BY <2>0, <3>1, <3>2, ContinueTypes
  <2>2. CASE WriteChunk(w)
    BY <2>0, <2>2 DEF WriteChunk, object, cursors, JobOK
  <2>3. CASE CountChunk(w)
    <3>1. UNCHANGED <<savedOff, savedCi, savedPend, stopName>> /\ chunkIndex' \in Nat
      BY <2>0, <2>3 DEF CountChunk, kept, cursors
    <3>2. Continue(w, SubSeq(job[w].buf, Len(Piece(w)) + 1, Len(job[w].buf)),
                   job[w].force, TRUE, chunkIndex', Tail(plan[w]))
      BY <2>3 DEF CountChunk
    <3>. QED BY <2>0, <3>1, <3>2, PieceTypes, ContinueTypes
  <2>4. CASE PersistOffset(w)
    BY <2>0, <2>4 DEF PersistOffset, object, JobOK, Capture
  <2>5. CASE PersistIndex(w)
    BY <2>0, <2>5 DEF PersistIndex, object, JobOK, Capture
  <2>6. CASE PersistPending(w)
    BY <2>0, <2>6 DEF PersistPending, object, cursors, JobOK, Capture
  <2>. QED BY <2>1, <2>2, <2>3, <2>4, <2>5, <2>6 DEF Shared
<1>4. SyncTypeOK'
  <2>1. \A v \in Workers : job'[v].buf \in Seq(Nat)
    BY <1>3 DEF JobOK, Jobs
  <2>. QED BY <1>2, <1>3, <2>1 DEF SyncTypeOK
<1>5. VisitOK'
  <2>1. /\ Left("loop")' \ (Flushers \cup Saves) = Left("loop") \ (Flushers \cup Saves)
        /\ "off" \in Left("loop")' => "off" \in Left("loop")
    BY <1>1 DEF Workers, Saves
  <2>2. Visiting \cap (Flushers \cup Saves) = {}
    BY DEF Visiting, Closed, Loads, Flushers, Saves
  <2>3. Has("loop", Visiting)' <=> Has("loop", Visiting)
    BY <2>1, <2>2 DEF Has
  <2>4. "load" \in Left("loop")' <=> "load" \in Left("loop")
    BY <2>1 DEF Flushers, Saves
  <2>5. Has("loop", {"off"})' => Has("loop", {"off"})
    BY <2>1 DEF Has
  <2>. QED BY <1>2, <2>3, <2>4, <2>5 DEF VisitOK
<1>. QED BY <1>1, <1>2, <1>3, <1>4, <1>5 DEF FaultsOK

(* A step of the loop that changes its plan alone, or an exception.        *)
LEMMA QuietInv ==
  ASSUME SyncInv, PlanOK', UNCHANGED <<device, kept, job, stopName, locals>>,
         UNCHANGED <<running, name, offset, chunkIndex, pending, failed, clock>>,
         sessionOpen' \in BOOLEAN,
         UNCHANGED faults \/ Fault("throw"),
         Has("loop", Visiting)' => Has("loop", Visiting),
         Has("loop", Visiting)' => ("load" \in Left("loop")' <=> "load" \in Left("loop")),
         "off" \in Left("loop")' => name # None
  PROVE  SyncInv'
<1>1. SyncTypeOK'
  BY DEF SyncInv, SyncTypeOK, device, kept, cursors, locals
<1>2. VisitOK'
  BY DEF SyncInv, VisitOK, locals, Has
<1>3. JobOK'
  BY DEF SyncInv, JobOK
<1>4. FaultsOK'
  BY FaultTypes DEF SyncInv, FaultsOK, Faults
<1>. QED BY <1>1, <1>2, <1>3, <1>4 DEF SyncInv

LEMMA NamedFile ==
  ASSUME SyncInv, Has("loop", Visiting)
  PROVE  /\ todo # << >> /\ Head(todo) \in Files /\ todo \in Seq(Files)
         /\ "load" \notin Left("loop") => name = Head(todo) /\ name \in Files
<1>1. todo # << >> /\ ("load" \notin Left("loop") => name = Head(todo))
  BY DEF SyncInv, VisitOK
<1>2. todo \in Seq(Files)
  BY DEF SyncInv, SyncTypeOK
<1>3. Head(todo) \in Files
  BY <1>1, <1>2, HeadTailProperties
<1>. QED BY <1>1, <1>2, <1>3

LEMMA TurnInv ==
  ASSUME SyncInv,
         Top \/ MoreWindows \/ NextWindow \/ CheckEnd \/ Finish \/ MayPersistPending
             \/ LegacyIsEmpty
  PROVE  SyncInv'
<1>. USE DEF SyncInv
<1>1. UNCHANGED <<device, kept, object, job, stopName, locals, history>>
  BY DEF Top, MoreWindows, NextWindow, CheckEnd, Finish, MayPersistPending, LegacyIsEmpty, Turn
<1>2. /\ PlanOK'
      /\ Has("loop", Visiting)' => Has("loop", Visiting)
      /\ Has("loop", Visiting)' => ("load" \in Left("loop")' <=> "load" \in Left("loop"))
      /\ "off" \in Left("loop")' => Has("loop", Visiting) /\ "load" \notin Left("loop")
  <2>. USE DEF Has, Visiting, Closed, Loads, Moves, Saves
  <2>1. CASE Top
    BY <2>1, TopMoves
  <2>2. CASE MoreWindows
    BY <2>2, MoreMoves
  <2>3. CASE NextWindow
    BY <2>3, NextWindowMoves
  <2>4. CASE CheckEnd
    BY <2>4, CheckMoves
  <2>5. CASE Finish
    BY <2>5, FinishMoves
  <2>6. CASE MayPersistPending
    BY <2>6, MayPersistMoves
  <2>7. CASE LegacyIsEmpty
    BY <2>7, LegacyIsEmptyMoves
  <2>. QED BY <2>1, <2>2, <2>3, <2>4, <2>5, <2>6, <2>7
<1>3. "off" \in Left("loop")' => name # None
  BY <1>2, NamedFile, Constants
<1>4. sessionOpen' \in BOOLEAN /\ UNCHANGED <<running, name, offset, chunkIndex, pending, failed, clock, faults>>
  BY <1>1 DEF object, history, SyncTypeOK
<1>. QED BY <1>1, <1>2, <1>3, <1>4, QuietInv

LEMMA ThrowInv ==
  ASSUME SyncInv,
         NoStatus \/ DrainThrows \/ ListFails \/ FetchClosedThrows \/ LegacyThrows \/ OpenSession
  PROVE  SyncInv'
<1>. USE DEF SyncInv
<1>1. /\ UNCHANGED <<device, kept, job, stopName, locals>>
      /\ UNCHANGED <<running, name, offset, chunkIndex, pending, failed, clock>>
      /\ sessionOpen' \in BOOLEAN
      /\ UNCHANGED faults \/ Fault("throw")
  BY DEF NoStatus, DrainThrows, ListFails, FetchClosedThrows, LegacyThrows, OpenSession,
         RequestFails, object, Outside, history, SyncTypeOK
<1>2. /\ PlanOK'
      /\ Has("loop", Visiting)' => Has("loop", Visiting)
      /\ Has("loop", Visiting)' => ("load" \in Left("loop")' <=> "load" \in Left("loop"))
      /\ "off" \notin Left("loop")'
  <2>. USE DEF Has, Visiting, Closed, Loads, Moves
  <2>1. CASE NoStatus
    BY <2>1, NoStatusMoves
  <2>2. CASE DrainThrows
    BY <2>2, DrainThrowsMoves
  <2>3. CASE ListFails
    BY <2>3, ListFailsMoves
  <2>4. CASE FetchClosedThrows
    BY <2>4, FetchClosedThrowsMoves
  <2>5. CASE LegacyThrows
    BY <2>5, LegacyThrowsMoves
  <2>6. CASE OpenSession
    BY <2>6, OpenMoves
  <2>. QED BY <2>1, <2>2, <2>3, <2>4, <2>5, <2>6
<1>. QED BY <1>1, <1>2, QuietInv

LEMMA StatusInv == ASSUME SyncInv, Status PROVE SyncInv'
<1>. USE DEF SyncInv
<1>1. /\ UNCHANGED <<device, kept, job, stopName, offset, pending, sessionOpen>>
      /\ UNCHANGED <<running, name, chunkIndex, failed, clock, faults>>
      /\ todo' = <<current>> /\ committed' = size[current] /\ pulled' = 0 /\ windows' = 0
      /\ current # 0
  BY DEF Status, Outside, history
<1>2. current \in Files /\ size[current] \in Int
  BY <1>1, Constants, SyncAssumption DEF SyncTypeOK, Files
<1>3. <<current>> \in Seq(Files) /\ Head(<<current>>) = current /\ <<current>> # << >>
  BY <1>2
<1>4. SyncTypeOK'
  BY <1>1, <1>2, <1>3 DEF SyncTypeOK, device, kept, cursors
<1>5. Moves("status", IF name = current THEN {"shrunk"} ELSE SwitchSteps \cup {"shrunk"})
  BY StatusMoves
<1>6. VisitOK'
  <2>1. "load" \in Left("loop")' <=> name # current
    BY <1>5 DEF Moves, SwitchSteps, Loads
  <2>2. "off" \in Left("loop")' => name # None
    BY <1>5 DEF Moves, SwitchSteps, Loads
  <2>. QED BY <1>1, <1>3, <2>1, <2>2 DEF VisitOK, Has
<1>. QED BY <1>1, <1>4, <1>5, <1>6 DEF JobOK, FaultsOK, Moves

LEMMA LoadCursorInv == ASSUME SyncInv, LoadCursor PROVE SyncInv'
<1>. USE DEF SyncInv
<1>1. /\ UNCHANGED <<device, kept, running, sessionOpen, pending, failed, clock, job,
                     stopName, locals, faults>>
      /\ name' = Head(todo) /\ offset' = savedOff[name'] /\ chunkIndex' = savedCi[name']
  BY DEF LoadCursor, history
<1>2. /\ PlanOK' /\ "load" \in Left("loop") /\ Left("loop")' = Left("loop") \ {"load"}
      /\ Left("loop")' \subseteq {"empty", "fill", "shrunk", "window"}
  BY LoadMoves
<1>3. Has("loop", Visiting)
  BY <1>2 DEF Has, Visiting, Loads
<1>4. todo # << >> /\ Head(todo) \in Files
  BY <1>3, NamedFile
<1>5. SyncTypeOK'
  BY <1>1, <1>4 DEF SyncTypeOK, device, kept, cursors, locals
<1>6. VisitOK'
  BY <1>1, <1>2, <1>4 DEF VisitOK, Has, locals
<1>. QED BY <1>1, <1>2, <1>5, <1>6 DEF JobOK, FaultsOK

LEMMA LoadPendingInv == ASSUME SyncInv, LoadPending PROVE SyncInv'
<1>. USE DEF SyncInv
<1>1. UNCHANGED <<device, kept, running, name, chunkIndex, failed, clock, job, stopName,
                  faults, sessionOpen, offset, locals>>
  BY DEF LoadPending, Outside, history
<1>2. PICK x \in {"empty", "fill"} :
         InLoop(x, << >>) /\ pending' = IF x = "empty" THEN << >> ELSE pending \o savedPend[name]
  BY DEF LoadPending
<1>3. /\ PlanOK' /\ x \in Left("loop") /\ Left("loop")' = Left("loop") \ {x}
      /\ Left("loop")' \subseteq {"fill", "shrunk", "window"}
  BY <1>2, LoadPendingMoves
<1>4. Has("loop", Visiting) /\ "load" \notin Left("loop")
  BY <1>3 DEF Has, Visiting, Loads
<1>5. name \in Files
  BY <1>4, NamedFile
<1>6. pending' \in Seq(Nat)
  BY <1>2, <1>5, ConcatProperties, EmptySeq DEF SyncTypeOK
<1>7. SyncTypeOK'
  BY <1>1, <1>6 DEF SyncTypeOK, device, kept, cursors, locals
<1>8. VisitOK'
  <2>1. "load" \notin Left("loop")' /\ "off" \notin Left("loop")'
    BY <1>3
  <2>. QED BY <1>1, <1>4, <2>1 DEF VisitOK, Has, locals
<1>. QED BY <1>1, <1>3, <1>7, <1>8 DEF JobOK, FaultsOK

LEMMA ShrunkInv == ASSUME SyncInv, CheckShrunk PROVE SyncInv'
<1>. USE DEF SyncInv
<1>1. UNCHANGED <<device, kept, running, sessionOpen, name, failed, clock, job, stopName,
                  locals, faults>>
  BY DEF CheckShrunk, history
<1>2. \/ offset' = offset /\ chunkIndex' = chunkIndex /\ pending' = pending
      \/ offset' = 0 /\ chunkIndex' = 0 /\ pending' = << >>
  BY DEF CheckShrunk
<1>3. /\ Moves("shrunk", Left("loop")')
      /\ Left("loop")' \in {{"list"}, {"fetch"}, Saves \cup {"list"}}
  BY ShrunkMoves
<1>4. Has("loop", Visiting) /\ "load" \notin Left("loop")
  BY <1>3 DEF Has, Visiting, Moves
<1>5. name \in Files /\ todo # << >> /\ name = Head(todo)
  BY <1>4, NamedFile
<1>6. offset' \in Nat /\ chunkIndex' \in Nat /\ pending' \in Seq(Nat)
  <2>1. offset \in Nat /\ chunkIndex \in Nat /\ pending \in Seq(Nat)
    BY DEF SyncTypeOK
  <2>2. << >> \in Seq(Nat)
    OBVIOUS
  <2>3. CASE offset' = offset /\ chunkIndex' = chunkIndex /\ pending' = pending
    BY <2>1, <2>3
  <2>4. CASE offset' = 0 /\ chunkIndex' = 0 /\ pending' = << >>
    BY <2>2, <2>4
  <2>. QED BY <1>2, <2>3, <2>4
<1>7. SyncTypeOK'
  BY <1>1, <1>6 DEF SyncTypeOK, device, kept, cursors, locals
<1>8. VisitOK'
  <2>1. "load" \notin Left("loop")'
    BY <1>3 DEF Saves
  <2>. QED BY <1>1, <1>5, <2>1, Constants DEF VisitOK, Has, locals
<1>. QED BY <1>1, <1>3, <1>7, <1>8 DEF JobOK, FaultsOK, Moves

LEMMA FetchInv == ASSUME SyncInv, FetchWindow \/ FetchClosed \/ FetchLegacy PROVE SyncInv'
<1>. USE DEF SyncInv
<1>1. UNCHANGED <<device, kept, running, name, chunkIndex, failed, clock, job, stopName, faults,
                  sessionOpen, todo>>
  BY DEF FetchWindow, FetchClosed, FetchLegacy, Outside, history
<1>2. /\ PlanOK' /\ Has("loop", Visiting) /\ "load" \notin Left("loop")
      /\ "load" \notin Left("loop")'
  <2>. USE DEF Has, Visiting, Closed, Moves, Saves
  <2>1. CASE FetchWindow
    BY <2>1, FetchMoves
  <2>2. CASE FetchClosed
    BY <2>2, FetchClosedMoves
  <2>3. CASE FetchLegacy
    BY <2>3, FetchLegacyMoves
  <2>. QED BY <2>1, <2>2, <2>3
<1>3. name \in Files /\ todo # << >> /\ name = Head(todo)
  BY <1>2, NamedFile
<1>4. /\ offset' \in Nat /\ pulled' \in Nat /\ windows' \in Nat /\ pending' \in Seq(Nat)
      /\ committed' \in Int
  <2>0. /\ offset \in Nat /\ pulled \in Nat /\ windows \in Nat /\ pending \in Seq(Nat)
        /\ committed \in Int /\ size[name] \in Nat
    BY <1>3, SizeIsNat DEF SyncTypeOK
  <2>1. ASSUME NEW bytes \in Seq(Nat), Received(bytes)
        PROVE  offset' \in Nat /\ pulled' \in Nat /\ windows' \in Nat /\ pending' \in Seq(Nat)
    BY <2>0, <2>1, ConcatProperties DEF Received
  <2>2. CASE FetchWindow
    BY <1>3, <2>0, <2>1, <2>2, AtOffsetTypes DEF FetchWindow
  <2>3. CASE FetchClosed
    <3>1. CASE legacy \/ AtOffset = << >>
      BY <2>0, <2>3, <3>1 DEF FetchClosed
    <3>2. CASE ~(legacy \/ AtOffset = << >>)
      <4>1. Received(AtOffset) /\ committed' = size[name]
        BY <2>3, <3>2 DEF FetchClosed
      <4>. QED BY <1>3, <2>0, <2>1, <4>1, AtOffsetTypes
    <3>. QED BY <3>1, <3>2
  <2>4. CASE FetchLegacy
    <3>. DEFINE bytes == Slice(name, 0, size[name])
    <3>1. bytes \in Seq(Nat)
      BY <1>3, <2>0, SliceTypes
    <3>2. /\ pending' = pending \o bytes /\ offset' = offset + Len(bytes)
          /\ pulled' = pulled + Len(bytes) /\ committed' = Len(bytes) /\ windows' = windows
      BY <2>4 DEF FetchLegacy
    <3>. HIDE DEF bytes
    <3>. QED BY <2>0, <3>1, <3>2, ConcatProperties
  <2>. QED BY <2>2, <2>3, <2>4
<1>5. SyncTypeOK'
  BY <1>1, <1>4 DEF SyncTypeOK, device, kept, cursors
<1>6. VisitOK'
  BY <1>1, <1>2, <1>3, Constants DEF VisitOK, Has
<1>. QED BY <1>1, <1>2, <1>5, <1>6 DEF JobOK, FaultsOK

LEMMA BacklogTypes ==
  ASSUME SyncTypeOK, NEW order \in Backlog
  PROVE  /\ order \in Seq(Files)
         /\ \A i \in DOMAIN order : /\ order[i] # current /\ order[i] <= latest
                                    /\ order[i] \notin savedDone /\ order[i] \notin failed
<1>. DEFINE files == {f \in 1 .. latest : f # current /\ f \notin savedDone /\ f \notin failed}
<1>1. order \in [1 .. Cardinality(files) -> files]
  BY DEF Backlog
<1>2. files \subseteq Files
  BY SyncAssumption DEF SyncTypeOK, Files
<1>3. IsFiniteSet(files) /\ Cardinality(files) \in Nat
  <2>1. IsFiniteSet(1 .. latest)
    BY FS_Interval DEF SyncTypeOK, Files
  <2>2. IsFiniteSet(files)
    BY <2>1, FS_Subset
  <2>. QED BY <2>2, FS_CardinalityType
<1>. HIDE DEF files
<1>4. order \in Seq(files) /\ order \in Seq(Files)
  BY <1>1, <1>2, <1>3
<1>5. \A i \in DOMAIN order : order[i] \in files
  BY <1>1
<1>. QED BY <1>4, <1>5 DEF files

LEMMA ListInv == ASSUME SyncInv, ListFiles PROVE SyncInv'
<1>. USE DEF SyncInv
<1>1. /\ UNCHANGED <<device, kept, running, name, chunkIndex, failed, clock, job, stopName,
                     faults, sessionOpen, offset, pending, committed, pulled, windows>>
      /\ todo' \in Backlog
  BY DEF ListFiles, Outside, history
<1>2. todo' \in Seq(Files)
  BY <1>1, BacklogTypes
<1>3. SyncTypeOK'
  BY <1>1, <1>2 DEF SyncTypeOK, device, kept, cursors
<1>4. Moves("list", {"next"})
  BY ListMoves
<1>5. VisitOK'
  BY <1>4 DEF VisitOK, Has, Moves, Visiting, Loads, Closed
<1>. QED BY <1>1, <1>3, <1>4, <1>5 DEF JobOK, FaultsOK, Moves

LEMMA NextFileInv == ASSUME SyncInv, NextFile PROVE SyncInv'
<1>. USE DEF SyncInv
<1>1. /\ UNCHANGED <<device, kept, running, name, chunkIndex, failed, clock, job, stopName,
                     faults, sessionOpen, offset, pending, todo>>
      /\ pulled' = 0 /\ windows' = 0 /\ committed' = -1
  BY DEF NextFile, Outside, history
<1>2. SyncTypeOK'
  <2>1. pulled' \in Nat /\ windows' \in Nat /\ committed' \in Int
    BY <1>1
  <2>. QED BY <1>1, <2>1 DEF SyncTypeOK, device, kept, cursors
<1>3. Moves("next", IF ~running \/ todo = << >> THEN {"top"}
                    ELSE IF name = Head(todo) THEN {"window"} ELSE SwitchSteps \cup {"window"})
  BY NextFileMoves
<1>4. VisitOK'
  <2>1. CASE ~running \/ todo = << >>
    BY <1>3, <2>1 DEF VisitOK, Has, Moves, Visiting, Loads, Closed
  <2>2. CASE ~(~running \/ todo = << >>)
    <3>1. "load" \in Left("loop")' <=> name # Head(todo)
      BY <1>3, <2>2 DEF Moves, SwitchSteps, Loads
    <3>2. "off" \in Left("loop")' => name # None
      BY <1>3, <2>2 DEF Moves, SwitchSteps, Loads
    <3>. QED BY <1>1, <2>2, <3>1, <3>2 DEF VisitOK, Has
  <2>. QED BY <2>1, <2>2
<1>. QED BY <1>1, <1>2, <1>3, <1>4 DEF JobOK, FaultsOK, Moves

LEMMA SkipInv == ASSUME SyncInv, SkipFile PROVE SyncInv'
<1>. USE DEF SyncInv
<1>1. /\ UNCHANGED <<device, kept, running, sessionOpen, name, offset, chunkIndex, pending,
                     clock, job, stopName, locals, faults>>
      /\ failed' = failed \cup {name}
  BY DEF SkipFile, history
<1>2. Moves("skip", Saves \cup {"after"})
  BY SkipMoves
<1>3. Has("loop", Visiting) /\ "load" \notin Left("loop")
  BY <1>2 DEF Has, Visiting, Closed, Moves
<1>4. name \in Files /\ todo # << >> /\ name = Head(todo)
  BY <1>3, NamedFile
<1>5. SyncTypeOK'
  BY <1>1, <1>4 DEF SyncTypeOK, device, kept, cursors, locals
<1>6. "load" \notin Left("loop")'
  BY <1>2 DEF Moves, Saves
<1>7. VisitOK'
  BY <1>1, <1>4, <1>6, Constants DEF VisitOK, Has, locals
<1>. QED BY <1>1, <1>2, <1>5, <1>7 DEF JobOK, FaultsOK, Moves

LEMMA MarkDoneInv == ASSUME SyncInv, MarkDone PROVE SyncInv'
<1>. USE DEF SyncInv
<1>1. /\ UNCHANGED <<device, cursors, savedPend, outbox, drive, object, job, stopName, locals,
                     faults>>
      /\ savedDone' = savedDone \cup {name}
  BY DEF MarkDone, history
<1>2. /\ PlanOK' /\ "done" \in Left("loop") /\ Left("loop")' = Left("loop") \ {"done"}
      /\ Left("loop")' \subseteq {"after"}
  BY MarkDoneMoves
<1>3. Has("loop", Visiting) /\ "load" \notin Left("loop")
  BY <1>2 DEF Has, Visiting, Closed
<1>4. name \in Files /\ todo # << >> /\ name = Head(todo)
  BY <1>3, NamedFile
<1>5. SyncTypeOK'
  BY <1>1, <1>4 DEF SyncTypeOK, device, cursors, object, locals
<1>6. "load" \notin Left("loop")' /\ "off" \notin Left("loop")'
  BY <1>2
<1>7. VisitOK'
  BY <1>1, <1>4, <1>6 DEF VisitOK, Has, locals, object
<1>. QED BY <1>1, <1>2, <1>5, <1>7 DEF JobOK, FaultsOK

LEMMA AfterInv == ASSUME SyncInv, AfterFile PROVE SyncInv'
<1>. USE DEF SyncInv
<1>1. /\ UNCHANGED <<device, kept, running, name, chunkIndex, failed, clock, job, stopName,
                     faults, sessionOpen, offset, pending, committed, pulled, windows>>
      /\ todo' = Tail(todo)
  BY DEF AfterFile, Outside, history
<1>2. Moves("after", {"top"}) \/ Moves("after", {"next"})
  BY AfterMoves
<1>3. Has("loop", Visiting)
  BY <1>2 DEF Has, Visiting, Closed, Moves
<1>4. todo # << >> /\ todo \in Seq(Files)
  BY <1>3, NamedFile
<1>5. todo' \in Seq(Files)
  BY <1>1, <1>4, HeadTailProperties
<1>6. SyncTypeOK'
  BY <1>1, <1>5 DEF SyncTypeOK, device, kept, cursors
<1>7. VisitOK'
  BY <1>2 DEF VisitOK, Has, Moves, Visiting, Loads, Closed
<1>. QED BY <1>1, <1>2, <1>6, <1>7 DEF JobOK, FaultsOK, Moves

LEMMA LoopInv == ASSUME SyncInv, Loop PROVE SyncInv'
<1>1. CASE Shared("loop")
  BY <1>1, SharedInv DEF Workers
<1>2. CASE ~Shared("loop")
  BY <1>2, TurnInv, ThrowInv, StatusInv, LoadCursorInv, LoadPendingInv, ShrunkInv, FetchInv,
     ListInv, NextFileInv, SkipInv, MarkDoneInv, AfterInv DEF Loop
<1>. QED BY <1>1, <1>2
-----------------------------------------------------------------------------
(* stop(), the end of the app and its new start, the uploads, the device.  *)
LEMMA StopMoves ==
  ASSUME SyncInv, Stop
  PROVE  /\ PlanOK' /\ plan'["loop"] = plan["loop"] /\ Left("loop")' = Left("loop")
         /\ name # None => \E index \in Nat :
               Continue("stop", pending, TRUE, FALSE, index, Save \o <<"close">>)
         /\ name = None => UNCHANGED <<pending, clock, job>>
<1>. USE DEF SyncInv
<1>0. plan \in [Workers -> Seq(Steps)] /\ "stop" \in Workers /\ "loop" \in Workers
  BY DEF PlanOK, Workers
<1>1. ASSUME NEW s \in Seq(Steps), InOrder(s), Leave("stop", s)
      PROVE  PlanOK' /\ plan'["loop"] = plan["loop"] /\ Left("loop")' = Left("loop")
  <2>1. plan' \in [Workers -> Seq(Steps)] /\ plan'["stop"] = s /\ plan'["loop"] = plan["loop"]
    BY <1>0, <1>1 DEF Leave
  <2>. QED BY <1>1, <2>1 DEF PlanOK, Left, Workers
<1>2. CASE name = None
  <2>1. <<"close">> \in Seq(Steps) /\ InOrder(<<"close">>)
    BY SingleInOrder DEF Steps, Alone
  <2>2. Leave("stop", <<"close">>) /\ UNCHANGED <<pending, clock, job>>
    BY <1>2 DEF Stop
  <2>. QED BY <1>1, <1>2, <2>1, <2>2
<1>3. CASE name # None
  <2>. DEFINE rest == Save \o <<"close">>
  <2>1. Continue("stop", pending, TRUE, FALSE, chunkIndex, rest)
    BY <1>3 DEF Stop
  <2>2. pending \in Seq(Nat) /\ chunkIndex \in Nat
    BY DEF SyncTypeOK
  <2>3. rest \in Seq(Steps) /\ InOrder(rest) /\ ToSet(rest) = Saves \cup {"close"}
    BY SaveThen
  <2>. HIDE DEF rest
  <2>4. Leave("stop", <<"write">> \o rest) \/ Leave("stop", rest)
    BY <1>0, <2>1, <2>2, ContinueTypes
  <2>5. CASE Leave("stop", rest)
    BY <1>1, <1>3, <2>1, <2>2, <2>3, <2>5 DEF rest
  <2>6. CASE Leave("stop", <<"write">> \o rest)
    <3>1. /\ <<"write">> \in Seq(Steps) /\ InOrder(<<"write">>)
          /\ ToSet(<<"write">>) = {"write"}
      BY SingleInOrder DEF Steps, Flushers
    <3>2. After("write") = Steps \ Flushers
      BY AfterIs DEF Flushers
    <3>3. Saves \cup {"close"} \subseteq After("write")
      BY <3>2 DEF Steps, Flushers, Saves, Alone
    <3>4. <<"write">> \o rest \in Seq(Steps) /\ InOrder(<<"write">> \o rest)
      BY <2>3, <3>1, <3>3, JoinedInOrder
    <3>. QED BY <1>1, <1>3, <2>1, <2>2, <2>6, <3>4 DEF rest
  <2>. QED BY <2>4, <2>5, <2>6
<1>. QED BY <1>2, <1>3

LEMMA StopInv == ASSUME SyncInv, Stop PROVE SyncInv'
<1>. USE DEF SyncInv
<1>1. /\ UNCHANGED <<device, kept, sessionOpen, name, offset, chunkIndex, failed, stopName,
                     locals>>
      /\ running' = FALSE /\ Fault("stop")
  BY DEF Stop
<1>2. /\ PlanOK' /\ Left("loop")' = Left("loop")
      /\ name # None => \E index \in Nat :
            Continue("stop", pending, TRUE, FALSE, index, Save \o <<"close">>)
      /\ name = None => UNCHANGED <<pending, clock, job>>
  BY StopMoves
<1>3. pending' \in Seq(Nat) /\ clock' \in Nat /\ JobOK'
  <2>0. pending \in Seq(Nat) /\ clock \in Nat
    BY DEF SyncTypeOK
  <2>1. CASE name = None
    BY <1>2, <2>0, <2>1 DEF JobOK
  <2>2. CASE name # None
    BY <1>2, <2>0, <2>2, ContinueTypes DEF Workers
  <2>. QED BY <2>1, <2>2
<1>4. \A w \in Workers : job'[w].buf \in Seq(Nat)
  BY <1>3 DEF JobOK, Jobs
<1>5. SyncTypeOK'
  BY <1>1, <1>3, <1>4 DEF SyncTypeOK, device, kept, cursors, locals
<1>6. VisitOK'
  BY <1>1, <1>2 DEF VisitOK, Has, locals
<1>7. FaultsOK'
  BY <1>1, FaultTypes DEF Faults
<1>. QED BY <1>2, <1>3, <1>5, <1>6, <1>7

LEMMA CloseInv == ASSUME SyncInv, CloseSession PROVE SyncInv'
<1>. USE DEF SyncInv
<1>1. /\ UNCHANGED <<device, kept, job, stopName, locals>>
      /\ UNCHANGED <<running, name, offset, chunkIndex, pending, failed, clock, faults>>
      /\ sessionOpen' \in BOOLEAN /\ At("stop", "close") /\ Go("stop", << >>)
  BY DEF CloseSession, history
<1>2. PlanOK' /\ Left("loop")' = Left("loop")
  BY <1>1, StepReturns DEF Workers
<1>3. "off" \in Left("loop")' => name # None
  BY <1>2 DEF VisitOK, Has
<1>4. Has("loop", Visiting)' <=> Has("loop", Visiting)
  BY <1>2 DEF Has
<1>. QED BY <1>1, <1>2, <1>3, <1>4, QuietInv

Fresh ==
    /\ sessionOpen' = FALSE /\ name' = None /\ offset' = 0 /\ chunkIndex' = 0
    /\ pending' = << >> /\ failed' = {} /\ job' = [w \in Workers |-> NoJob(FALSE)]
    /\ stopName' = None /\ todo' = << >> /\ committed' = 0 /\ pulled' = 0 /\ windows' = 0

LEMMA FreshInv ==
  ASSUME SyncInv, Fresh, UNCHANGED <<device, cursors, savedDone, drive, clock>>,
         running' \in BOOLEAN, savedPend' \in [Files -> Seq(Nat)], FaultsOK',
         PlanOK', Left("loop")' \subseteq {"top"}
  PROVE  SyncInv'
<1>. USE DEF SyncInv
<1>1. << >> \in Seq(Nat) /\ << >> \in Seq(Files)
  OBVIOUS
<1>2. NoJob(FALSE) \in Jobs
  BY <1>1 DEF NoJob, Jobs
<1>3. JobOK'
  BY <1>2 DEF JobOK, Fresh
<1>4. \A w \in Workers : job'[w].buf \in Seq(Nat)
  BY <1>3 DEF JobOK, Jobs
<1>5. SyncTypeOK'
  <2>1. /\ sessionOpen' \in BOOLEAN /\ name' \in Files \cup {None} /\ offset' \in Nat
        /\ chunkIndex' \in Nat /\ pending' \in Seq(Nat) /\ failed' \subseteq Files
    BY <1>1 DEF Fresh
  <2>2. /\ stopName' \in Files \cup {None} /\ todo' \in Seq(Files) /\ committed' \in Int
        /\ pulled' \in Nat /\ windows' \in Nat
    BY <1>1 DEF Fresh
  <2>. QED BY <1>4, <2>1, <2>2 DEF SyncTypeOK, device, cursors
<1>6. VisitOK'
  BY DEF VisitOK, Has, Visiting, Loads, Closed
<1>. QED BY <1>3, <1>5, <1>6

LEMMA KillInv == ASSUME SyncInv, Kill PROVE SyncInv'
<1>. USE DEF SyncInv
<1>1. /\ Fresh /\ UNCHANGED <<device, cursors, savedDone, drive, clock>>
      /\ running' \in BOOLEAN /\ Fault("kill") /\ plan' = [w \in Workers |-> << >>]
  BY DEF Kill, Fresh
<1>2. savedPend' = savedPend \/ \E f : savedPend' = [savedPend EXCEPT ![f] = << >>]
  BY DEF Kill
<1>3. savedPend' \in [Files -> Seq(Nat)]
  <2>1. << >> \in Seq(Nat) /\ savedPend \in [Files -> Seq(Nat)]
    BY EmptySeq DEF SyncTypeOK
  <2>. QED BY <1>2, <2>1
<1>4. FaultsOK'
  BY <1>1, FaultTypes DEF Faults
<1>5. /\ \A w \in Workers : plan'[w] = << >> /\ plan' \in [Workers -> Seq(Steps)]
      /\ InOrder(<< >>) /\ ToSet(<< >>) = {}
  BY <1>1, EmptyInOrder
<1>6. PlanOK' /\ Left("loop")' = {}
  BY <1>5 DEF PlanOK, Left, Workers
<1>. QED BY <1>1, <1>3, <1>4, <1>6, FreshInv

LEMMA StartMoves ==
  ASSUME PlanOK, Start
  PROVE  /\ PlanOK' /\ Left("loop")' = {"top"} /\ plan'["stop"] = << >>
         /\ Left("loop") = {} /\ Left("stop") = {}
<1>1. plan' = [plan EXCEPT !["loop"] = <<"top">>] /\ \A w \in Workers : plan[w] = << >>
  BY DEF Start, Leave
<1>2. /\ plan \in [Workers -> Seq(Steps)] /\ <<"top">> \in Seq(Steps)
      /\ InOrder(<<"top">>) /\ InOrder(<< >>) /\ ToSet(<<"top">>) = {"top"} /\ ToSet(<< >>) = {}
  BY SingleInOrder, EmptyInOrder DEF PlanOK, Steps, Alone
<1>3. plan'["loop"] = <<"top">> /\ plan'["stop"] = << >> /\ plan' \in [Workers -> Seq(Steps)]
  BY <1>1, <1>2 DEF Workers
<1>. QED BY <1>1, <1>2, <1>3 DEF PlanOK, Left, Workers

LEMMA StartInv == ASSUME SyncInv, Start PROVE SyncInv'
<1>. USE DEF SyncInv
<1>1. /\ Fresh /\ UNCHANGED <<device, cursors, savedDone, savedPend, drive, clock, faults>>
      /\ running' \in BOOLEAN
  BY DEF Start, Fresh, kept, history
<1>2. savedPend' \in [Files -> Seq(Nat)] /\ FaultsOK'
  BY <1>1 DEF SyncTypeOK, FaultsOK
<1>. QED BY <1>1, <1>2, StartMoves, FreshInv

LEMMA UploadInv == ASSUME SyncInv, NEW chunk, Upload(chunk) PROVE SyncInv'
<1>. USE DEF SyncInv
<1>1. UNCHANGED <<device, cursors, savedPend, savedDone, object, work, history>>
  BY DEF Upload
<1>2. SyncTypeOK'
  BY <1>1 DEF SyncTypeOK, device, cursors, object, work, locals
<1>. QED BY <1>1, <1>2 DEF PlanOK, VisitOK, Has, Left, JobOK, FaultsOK, object, work, locals, history

LEMMA DeviceInv == ASSUME SyncInv, Grow \/ Pause \/ Resume \/ ReuseName PROVE SyncInv'
<1>. USE DEF SyncInv
<1>1. UNCHANGED <<legacy, kept, object, work>>
  BY DEF Grow, Pause, Resume, ReuseName, history
<1>2. /\ current' \in 0 .. NFiles /\ latest' \in Files
      /\ size' \in [Files -> 0 .. MaxSize] /\ base' \in [Files -> Nat] /\ FaultsOK'
  <2>0. /\ current \in 0 .. NFiles /\ latest \in Files
        /\ size \in [Files -> 0 .. MaxSize] /\ base \in [Files -> Nat]
    BY DEF SyncTypeOK
  <2>1. CASE Grow
    <3>1. PICK n \in size[current] + 1 .. MaxSize : size' = [size EXCEPT ![current] = n]
      BY <2>1 DEF Grow
    <3>2. current \in Files
      BY <2>0, <2>1, SyncAssumption DEF Grow, Files
    <3>3. n \in 0 .. MaxSize
      BY <2>0, <3>2, Constants
    <3>4. UNCHANGED <<current, latest, base, faults>>
      BY <2>1 DEF Grow, history
    <3>. QED BY <2>0, <3>1, <3>3, <3>4 DEF FaultsOK
  <2>2. CASE Pause
    BY <2>0, <2>2, SyncAssumption DEF Pause, history, FaultsOK
  <2>3. CASE Resume
    BY <2>0, <2>3, SyncAssumption DEF Resume, history, FaultsOK, Files
  <2>4. CASE ReuseName
    <3>1. PICK f \in 1 .. latest \ Named :
             /\ current' = f /\ size' = [size EXCEPT ![f] = 0]
             /\ base' = [base EXCEPT ![f] = base[f] + MaxSize]
      BY <2>4 DEF ReuseName
    <3>2. f \in Files /\ base[f] + MaxSize \in Nat
      BY <2>0, <3>1, SyncAssumption, Constants DEF Files
    <3>3. FaultsOK' /\ latest' = latest
      BY <2>4, FaultTypes DEF ReuseName, Faults
    <3>. QED BY <2>0, <3>1, <3>2, <3>3, Constants, SyncAssumption DEF Files
  <2>. QED BY <2>1, <2>2, <2>3, <2>4
<1>3. SyncTypeOK'
  BY <1>1, <1>2 DEF SyncTypeOK, kept, cursors, object, work, locals
<1>. QED BY <1>1, <1>2, <1>3 DEF PlanOK, VisitOK, Has, Left, JobOK, object, work, locals

LEMMA OthersInv == ASSUME SyncInv, Others PROVE SyncInv'
BY SharedInv, CloseInv, StopInv, KillInv, StartInv, UploadInv, DeviceInv DEF Others, Workers

LEMMA StutterInv == ASSUME SyncInv, UNCHANGED vars PROVE SyncInv'
BY DEF SyncInv, SyncTypeOK, PlanOK, VisitOK, Has, Left, JobOK, FaultsOK, vars, device, kept,
       cursors, object, work, locals, history

LEMMA NextInv == ASSUME SyncInv, [SyncNext]_vars PROVE SyncInv'
BY LoopInv, OthersInv, StutterInv DEF SyncNext

(* In every state the phone's cursors, buffers and plans are what the code *)
(* between two awaits can work with: the file it is on is one of the       *)
(* device's, and no step is left to run that has lost its file.            *)
THEOREM SyncTypes == SyncSpec => []SyncTypeOK
<1>1. SyncInv => SyncTypeOK
  BY DEF SyncInv
<1>2. SyncInv /\ [SyncNext]_vars => SyncInv'
  BY NextInv
<1>. QED BY InitInv, <1>1, <1>2, PTL DEF SyncSpec
-----------------------------------------------------------------------------
LEMMA OneBeforeTheOther ==
  ASSUME PlanOK, NEW w \in Workers, NEW x \in Left(w), NEW y \in Left(w), x # y
  PROVE  y \in After(x) \/ x \in After(y)
<1>1. plan[w] \in Seq(Steps) /\ InOrder(plan[w])
  BY DEF PlanOK
<1>2. PICK i \in DOMAIN plan[w], j \in DOMAIN plan[w] : plan[w][i] = x /\ plan[w][j] = y
  BY DEF Left, ToSet
<1>3. i < j \/ j < i
  BY <1>1, <1>2
<1>. QED BY <1>1, <1>2, <1>3 DEF InOrder

(* At the end of a visit the file is in memory.                            *)
LEMMA EndIsLoaded ==
  ASSUME SyncInv, Has("loop", {"finish", "done"})
  PROVE  "load" \notin Left("loop") /\ name = Head(todo) /\ name \in Files /\ todo # << >>
<1>1. PICK x \in {"finish", "done"} : x \in Left("loop")
  BY DEF Has
<1>2. "load" \notin Left("loop")
  <2>1. x \notin After("load") /\ "load" \notin After(x) /\ x # "load"
    BY AfterIs DEF Alone
  <2>. QED BY <1>1, <2>1, OneBeforeTheOther DEF SyncInv, Workers
<1>3. Has("loop", Visiting)
  BY <1>1 DEF Has, Visiting, Closed
<1>. QED BY <1>2, <1>3, NamedFile

LEMMA SharedDone ==
  ASSUME SyncInv, CursorsOK, BacklogOK, ClosedOK, NEW w \in Workers, Shared(w)
  PROVE  CursorsOK' /\ BacklogOK' /\ ClosedOK'
<1>. USE DEF SyncInv
<1>1. /\ \A v \in Workers : v # w => plan'[v] = plan[v] /\ Left(v)' = Left(v)
      /\ Left(w)' \ (Flushers \cup Saves) = Left(w) \ (Flushers \cup Saves)
      /\ PersistOffset(w)
         \/ (UNCHANGED savedOff /\ ("off" \in Left(w)' <=> "off" \in Left(w)))
  BY SharedPlan
<1>2. UNCHANGED <<current, latest, size, base, legacy, savedDone, running, sessionOpen, name,
                  offset, failed, todo, committed, pulled, windows, faults>>
  <2>1. CASE Flush(w)
    BY <2>1 DEF Flush, device, kept, locals, history
  <2>2. CASE WriteChunk(w)
    BY <2>2 DEF WriteChunk, device, object, locals
  <2>3. CASE CountChunk(w)
    BY <2>3 DEF CountChunk, device, kept, locals, history
  <2>4. CASE PersistOffset(w)
    BY <2>4 DEF PersistOffset, device, object, locals, history
  <2>5. CASE PersistIndex(w)
    BY <2>5 DEF PersistIndex, device, object, locals, history
  <2>6. CASE PersistPending(w)
    BY <2>6 DEF PersistPending, device, object, locals, history
  <2>. QED BY <2>1, <2>2, <2>3, <2>4, <2>5, <2>6 DEF Shared
<1>3. savedOff' = savedOff \/ savedOff' = [savedOff EXCEPT ![name] = offset]
  BY <1>1 DEF PersistOffset
<1>4. savedOff \in [Files -> Nat]
  BY DEF SyncTypeOK
<1>5. CursorsOK'
  <2>1. \A f \in Files : savedOff'[f] = savedOff[f] \/ (f = name /\ savedOff'[f] = offset)
    BY <1>3, <1>4
  <2>. QED BY <1>2, <2>1 DEF CursorsOK, CursorOK, AtEnd
<1>6. Left("loop")' \ (Flushers \cup Saves) = Left("loop") \ (Flushers \cup Saves)
  BY <1>1 DEF Workers
<1>7. \A S : S \cap (Flushers \cup Saves) = {} => (Has("loop", S)' <=> Has("loop", S))
  BY <1>6 DEF Has
<1>8. BacklogOK'
  <2>1. (Closed \cup {"next"}) \cap (Flushers \cup Saves) = {}
    BY DEF Closed, Flushers, Saves
  <2>2. Has("loop", Closed \cup {"next"})' <=> Has("loop", Closed \cup {"next"})
    BY <1>7, <2>1
  <2>. QED BY <1>2, <2>2 DEF BacklogOK
<1>9. ShrunkOK'
  <2>1. "shrunk" \in Left("loop")' <=> "shrunk" \in Left("loop")
    BY <1>6 DEF Flushers, Saves
  <2>2. "shrunk" \in Left("loop") => Head(todo) \in Files
    BY NamedFile DEF Has, Visiting
  <2>3. Head(todo) \in Files /\ name # Head(todo) => savedOff'[Head(todo)] = savedOff[Head(todo)]
    BY <1>3, <1>4
  <2>. QED BY <1>2, <2>1, <2>2, <2>3 DEF ShrunkOK, ClosedOK
<1>10. AskedOK' /\ RouteOK'
  <2>1. /\ Has("loop", Asked)' <=> Has("loop", Asked)
        /\ "finish" \in Left("loop")' <=> "finish" \in Left("loop")
        /\ Has("loop", {"legacy", "legacyRetry"})' <=> Has("loop", {"legacy", "legacyRetry"})
        /\ Has("loop", {"check", "shrunk", "fetch", "more"})'
             <=> Has("loop", {"check", "shrunk", "fetch", "more"})
        /\ Has("loop", {"window", "fetchClosed", "legacy", "legacyRetry"})'
             <=> Has("loop", {"window", "fetchClosed", "legacy", "legacyRetry"})
    BY <1>6 DEF Has, Asked, Flushers, Saves
  <2>. QED BY <1>2, <2>1 DEF AskedOK, RouteOK, ClosedOK
<1>11. EndOK'
  <2>0. SUFFICES ASSUME "done" \in Left("loop")'
                 PROVE  /\ offset' = size'[name']
                        /\ "off" \notin Left("loop")' => savedOff'[name'] = size'[name']
    BY DEF EndOK
  <2>1. "done" \in Left("loop")
    BY <1>6, <2>0 DEF Flushers, Saves
  <2>2. name \in Files /\ offset = size[name]
    BY <2>1, EndIsLoaded DEF Has, ClosedOK, EndOK
  <2>3. CASE PersistOffset(w)
    BY <1>2, <1>4, <2>2, <2>3 DEF PersistOffset
  <2>4. CASE UNCHANGED savedOff /\ ("off" \in Left(w)' <=> "off" \in Left(w))
    <3>1. "off" \in Left("loop")' <=> "off" \in Left("loop")
      BY <1>1, <2>4 DEF Workers
    <3>. QED BY <1>2, <2>1, <2>2, <2>4, <3>1 DEF ClosedOK, EndOK
  <2>. QED BY <1>1, <2>3, <2>4
<1>. QED BY <1>5, <1>8, <1>9, <1>10, <1>11 DEF ClosedOK

(* Where neither the device nor the cursors change, nor the file at hand.  *)
LEMMA CursorFrame ==
  ASSUME CursorsOK, UNCHANGED <<device, savedOff, savedDone, name, offset>>
  PROVE  CursorsOK'
BY DEF CursorsOK, CursorOK, AtEnd, device

LEMMA TurnDone ==
  ASSUME SyncInv, CursorsOK, BacklogOK, ClosedOK,
         Top \/ MoreWindows \/ NextWindow \/ CheckEnd \/ Finish \/ MayPersistPending
             \/ LegacyIsEmpty
  PROVE  CursorsOK' /\ BacklogOK' /\ ClosedOK'
<1>. USE DEF SyncInv
<1>1. UNCHANGED <<device, kept, object, job, stopName, locals, history>>
  BY DEF Top, MoreWindows, NextWindow, CheckEnd, Finish, MayPersistPending, LegacyIsEmpty, Turn
<1>2. UNCHANGED <<current, latest, size, base, legacy, savedOff, savedDone, name, offset, todo,
                  committed, pulled>>
  BY <1>1 DEF device, kept, cursors, object, locals
<1>3. CursorsOK'
  BY <1>1, <1>2, CursorFrame
<1>4. CASE Top
  BY <1>2, <1>3, <1>4, TopMoves DEF Moves, Has, Closed, Asked, BacklogOK, ClosedOK, ShrunkOK,
     AskedOK, RouteOK, EndOK
<1>5. CASE MoreWindows
  BY <1>2, <1>3, <1>5, MoreMoves DEF Moves, Has, Closed, Asked, Saves, BacklogOK, ClosedOK,
     ShrunkOK, AskedOK, RouteOK, EndOK
<1>6. CASE NextWindow
  BY <1>2, <1>3, <1>6, NextWindowMoves DEF Moves, Has, Closed, Asked, BacklogOK, ClosedOK,
     ShrunkOK, AskedOK, RouteOK, EndOK
<1>7. CASE CheckEnd
  BY <1>2, <1>3, <1>7, CheckMoves DEF Moves, Has, Closed, Asked, BacklogOK, ClosedOK,
     ShrunkOK, AskedOK, RouteOK, EndOK
<1>8. CASE LegacyIsEmpty
  BY <1>2, <1>3, <1>8, LegacyIsEmptyMoves DEF Moves, Has, Closed, Asked, BacklogOK, ClosedOK,
     ShrunkOK, AskedOK, RouteOK, EndOK
<1>9. CASE MayPersistPending
  <2>1. /\ Left("loop") \subseteq {"mayPend", "more", "check"}
        /\ Left("loop")' \ {"pend"} = Left("loop") \ {"mayPend"}
    BY <1>9, MayPersistMoves
  <2>. QED BY <1>2, <1>3, <2>1 DEF Has, Closed, Asked, BacklogOK, ClosedOK, ShrunkOK, AskedOK,
           RouteOK, EndOK
<1>10. CASE Finish
  <2>1. Moves("finish", IF AllFetched THEN {"flushAll", "done", "after"} \cup Saves
                        ELSE {"after"})
    BY <1>10, FinishMoves
  <2>2. name = Head(todo) /\ name \in Files /\ todo # << >>
    BY <2>1, EndIsLoaded DEF Moves, Has
  <2>3. AllFetched => offset = size[name]
    <3>1. committed = -1 \/ committed = size[name] \/ (legacy /\ committed = 0)
      BY <2>1, <2>2 DEF Moves, Has, Asked, ClosedOK, AskedOK
    <3>2. legacy /\ pulled > 0 => offset = size[name]
      BY <2>1 DEF Moves, ClosedOK, RouteOK
    <3>3. offset <= size[name] /\ (legacy => offset = 0 \/ offset = size[name])
      BY <2>2 DEF CursorsOK, CursorOK, AtEnd
    <3>4. offset \in Nat /\ pulled \in Nat /\ size[name] \in Nat
      BY <2>2, SizeIsNat DEF SyncTypeOK
    <3>. QED BY <3>1, <3>2, <3>3, <3>4 DEF AllFetched
  <2>4. BacklogOK' /\ AskedOK' /\ RouteOK' /\ ShrunkOK'
    BY <1>2, <2>1 DEF Moves, Has, Closed, Asked, Saves, BacklogOK, AskedOK, RouteOK, ShrunkOK
  <2>5. EndOK'
    BY <1>2, <2>1, <2>3 DEF Moves, Saves, EndOK
  <2>. QED BY <1>3, <2>4, <2>5 DEF ClosedOK
<1>. QED BY <1>4, <1>5, <1>6, <1>7, <1>8, <1>9, <1>10

LEMMA ThrowDone ==
  ASSUME SyncInv, CursorsOK, BacklogOK, ClosedOK,
         NoStatus \/ DrainThrows \/ ListFails \/ FetchClosedThrows \/ LegacyThrows \/ OpenSession
  PROVE  CursorsOK' /\ BacklogOK' /\ ClosedOK'
<1>. USE DEF SyncInv
<1>1. UNCHANGED <<device, kept, locals, name, offset>>
  BY DEF NoStatus, DrainThrows, ListFails, FetchClosedThrows, LegacyThrows, OpenSession,
         RequestFails, object, Outside
<1>2. UNCHANGED <<current, latest, size, base, legacy, savedOff, savedDone, todo, committed,
                  pulled>>
  BY <1>1 DEF device, kept, cursors, locals
<1>3. CursorsOK'
  BY <1>1, <1>2, CursorFrame
<1>. USE DEF Moves, Has, Closed, Asked, BacklogOK, ClosedOK, ShrunkOK, AskedOK, RouteOK, EndOK
<1>4. CASE NoStatus
  BY <1>1, <1>2, <1>3, <1>4, NoStatusMoves
<1>5. CASE DrainThrows
  BY <1>1, <1>2, <1>3, <1>5, DrainThrowsMoves
<1>6. CASE ListFails
  BY <1>1, <1>2, <1>3, <1>6, ListFailsMoves
<1>7. CASE FetchClosedThrows
  BY <1>1, <1>2, <1>3, <1>7, FetchClosedThrowsMoves
<1>8. CASE LegacyThrows
  BY <1>1, <1>2, <1>3, <1>8, LegacyThrowsMoves
<1>9. CASE OpenSession
  BY <1>1, <1>2, <1>3, <1>9, OpenMoves
<1>. QED BY <1>4, <1>5, <1>6, <1>7, <1>8, <1>9

LEMMA StatusDone ==
  ASSUME SyncInv, CursorsOK, BacklogOK, ClosedOK, Status
  PROVE  CursorsOK' /\ BacklogOK' /\ ClosedOK'
<1>. USE DEF SyncInv
<1>1. /\ UNCHANGED <<device, kept, offset, name>>
      /\ todo' = <<current>> /\ committed' = size[current] /\ current # 0 /\ ~legacy
  BY DEF Status, Outside
<1>2. UNCHANGED <<current, latest, size, base, legacy, savedOff, savedDone>>
  BY <1>1 DEF device, kept, cursors
<1>3. CursorsOK'
  BY <1>1, <1>2, CursorFrame
<1>4. current \in Files /\ Head(<<current>>) = current
  BY <1>1, SyncAssumption DEF SyncTypeOK, Files
<1>5. Moves("status", IF name = current THEN {"shrunk"} ELSE SwitchSteps \cup {"shrunk"})
  BY StatusMoves
<1>6. Left("loop")' \subseteq {"shrunk"} \cup SwitchSteps
  BY <1>5 DEF Moves
<1>7. BacklogOK' /\ AskedOK' /\ RouteOK' /\ EndOK'
  BY <1>1, <1>2, <1>6 DEF SwitchSteps, Loads, Saves, Has, Closed, Asked, BacklogOK, AskedOK,
     RouteOK, EndOK
<1>8. ShrunkOK'
  BY <1>1, <1>2, <1>4 DEF ShrunkOK, CursorsOK, CursorOK
<1>. QED BY <1>3, <1>7, <1>8 DEF ClosedOK

LEMMA LoadDone ==
  ASSUME SyncInv, CursorsOK, BacklogOK, ClosedOK, LoadCursor
  PROVE  CursorsOK' /\ BacklogOK' /\ ClosedOK'
<1>. USE DEF SyncInv
<1>1. /\ UNCHANGED <<device, kept, locals>>
      /\ name' = Head(todo) /\ offset' = savedOff[name']
  BY DEF LoadCursor
<1>2. UNCHANGED <<current, latest, size, base, legacy, savedOff, savedDone, todo, committed,
                  pulled>>
  BY <1>1 DEF device, kept, cursors, locals
<1>3. /\ "load" \in Left("loop") /\ Left("loop")' = Left("loop") \ {"load"}
      /\ Left("loop")' \subseteq {"empty", "fill", "shrunk", "window"}
  BY LoadMoves
<1>4. Has("loop", Visiting)
  BY <1>3 DEF Has, Visiting, Loads
<1>5. Head(todo) \in Files /\ todo # << >> /\ name # Head(todo)
  BY <1>3, <1>4, NamedFile DEF VisitOK
<1>6. CursorsOK'
  BY <1>1, <1>2, <1>5 DEF CursorsOK, CursorOK, AtEnd
<1>7. ShrunkOK'
  BY <1>1, <1>2, <1>3, <1>5 DEF ShrunkOK, ClosedOK
<1>8. BacklogOK' /\ AskedOK' /\ RouteOK' /\ EndOK'
  BY <1>1, <1>2, <1>3 DEF Has, Closed, Asked, BacklogOK, AskedOK, RouteOK, EndOK, ClosedOK
<1>. QED BY <1>6, <1>7, <1>8 DEF ClosedOK

LEMMA LoadPendingDone ==
  ASSUME SyncInv, CursorsOK, BacklogOK, ClosedOK, LoadPending
  PROVE  CursorsOK' /\ BacklogOK' /\ ClosedOK'
<1>. USE DEF SyncInv
<1>1. UNCHANGED <<device, kept, locals, name, offset>>
  BY DEF LoadPending, Outside
<1>2. UNCHANGED <<current, latest, size, base, legacy, savedOff, savedDone, todo, committed,
                  pulled>>
  BY <1>1 DEF device, kept, cursors, locals
<1>3. PICK x \in {"empty", "fill"} : InLoop(x, << >>)
  BY DEF LoadPending
<1>4. Left("loop")' = Left("loop") \ {x} /\ Left("loop")' \subseteq {"fill", "shrunk", "window"}
  BY <1>3, LoadPendingMoves
<1>5. CursorsOK'
  BY <1>1, <1>2, CursorFrame
<1>6. BacklogOK' /\ ShrunkOK' /\ AskedOK' /\ RouteOK' /\ EndOK'
  BY <1>1, <1>2, <1>4 DEF Has, Closed, Asked, BacklogOK, ShrunkOK, AskedOK, RouteOK, EndOK,
     ClosedOK
<1>. QED BY <1>5, <1>6 DEF ClosedOK

LEMMA ShrunkDone ==
  ASSUME SyncInv, CursorsOK, BacklogOK, ClosedOK, CheckShrunk
  PROVE  CursorsOK' /\ BacklogOK' /\ ClosedOK'
<1>. USE DEF SyncInv
<1>1. UNCHANGED <<device, kept, locals, name>>
  BY DEF CheckShrunk
<1>2. UNCHANGED <<current, latest, size, base, legacy, savedOff, savedDone, todo, committed,
                  pulled>>
  BY <1>1 DEF device, kept, cursors, locals
<1>3. /\ Moves("shrunk", Left("loop")')
      /\ Left("loop")' \in {{"list"}, {"fetch"}, Saves \cup {"list"}}
  BY ShrunkMoves
<1>4. Has("loop", Visiting) /\ "load" \notin Left("loop") /\ "shrunk" \in Left("loop")
  BY <1>3 DEF Has, Visiting, Moves
<1>5. name = Head(todo)
  BY <1>4, NamedFile
<1>6. offset <= committed
  BY <1>4, <1>5 DEF ClosedOK, ShrunkOK
<1>7. offset' = offset
  BY <1>6 DEF CheckShrunk, SyncTypeOK
<1>8. CursorsOK'
  BY <1>1, <1>2, <1>7, CursorFrame
<1>9. ~legacy
  BY <1>4 DEF ClosedOK, RouteOK, Has
<1>10. BacklogOK' /\ ShrunkOK' /\ AskedOK' /\ RouteOK' /\ EndOK'
  BY <1>1, <1>2, <1>3, <1>9 DEF Has, Closed, Asked, Saves, BacklogOK, ShrunkOK, AskedOK,
     RouteOK, EndOK
<1>. QED BY <1>8, <1>10 DEF ClosedOK

LEMMA FetchWindowDone ==
  ASSUME SyncInv, CursorsOK, BacklogOK, ClosedOK, FetchWindow
  PROVE  CursorsOK' /\ BacklogOK' /\ ClosedOK'
<1>. USE DEF SyncInv
<1>1. UNCHANGED <<device, kept, name, todo, committed>> /\ ~legacy
  BY DEF FetchWindow, Outside
<1>2. UNCHANGED <<current, latest, size, base, legacy, savedOff, savedDone>>
  BY <1>1 DEF device, kept, cursors
<1>3. Moves("fetch", IF AtOffset = << >> THEN Saves \cup {"list"}
                     ELSE {"off", "ci", "flush", "mayPend", "more"})
  BY FetchMoves
<1>4. Has("loop", Visiting) /\ "load" \notin Left("loop")
  BY <1>3 DEF Has, Visiting, Moves
<1>5. name \in Files
  BY <1>4, NamedFile
<1>6. CursorsOK'
  <2>1. CASE AtOffset = << >>
    BY <1>1, <1>2, <2>1, CursorFrame DEF FetchWindow
  <2>2. CASE AtOffset # << >>
    <3>1. offset' = offset + Len(AtOffset)
      BY <2>2 DEF FetchWindow, Received
    <3>2. offset' <= size[name] /\ offset # size[name]
      BY <1>5, <2>2, <3>1, AtOffsetTypes
    <3>. QED BY <1>1, <1>2, <1>5, <3>2 DEF CursorsOK, CursorOK, AtEnd
  <2>. QED BY <2>1, <2>2
<1>7. BacklogOK' /\ ShrunkOK' /\ AskedOK' /\ RouteOK' /\ EndOK'
  BY <1>1, <1>2, <1>3 DEF Moves, Has, Closed, Asked, Saves, BacklogOK, ShrunkOK, AskedOK,
     RouteOK, EndOK
<1>. QED BY <1>6, <1>7 DEF ClosedOK

LEMMA ListDone ==
  ASSUME SyncInv, CursorsOK, BacklogOK, ClosedOK, ListFiles
  PROVE  CursorsOK' /\ BacklogOK' /\ ClosedOK'
<1>. USE DEF SyncInv
<1>1. UNCHANGED <<device, kept, name, offset, committed, pulled>> /\ todo' \in Backlog
  BY DEF ListFiles, Outside
<1>2. UNCHANGED <<current, latest, size, base, legacy, savedOff, savedDone>>
  BY <1>1 DEF device, kept, cursors
<1>3. Moves("list", {"next"})
  BY ListMoves
<1>4. CursorsOK'
  BY <1>1, <1>2, CursorFrame
<1>5. BacklogOK'
  BY <1>1, <1>2, BacklogTypes DEF BacklogOK
<1>6. ShrunkOK' /\ AskedOK' /\ RouteOK' /\ EndOK'
  BY <1>3 DEF Moves, Has, Asked, ShrunkOK, AskedOK, RouteOK, EndOK
<1>. QED BY <1>4, <1>5, <1>6 DEF ClosedOK

LEMMA NextFileDone ==
  ASSUME SyncInv, CursorsOK, BacklogOK, ClosedOK, NextFile
  PROVE  CursorsOK' /\ BacklogOK' /\ ClosedOK'
<1>. USE DEF SyncInv
<1>1. UNCHANGED <<device, kept, name, offset, todo>> /\ pulled' = 0 /\ committed' = -1
  BY DEF NextFile, Outside
<1>2. UNCHANGED <<current, latest, size, base, legacy, savedOff, savedDone>>
  BY <1>1 DEF device, kept, cursors
<1>3. Left("loop") = {"next"} /\ Left("loop")' \subseteq {"top", "window"} \cup SwitchSteps
  BY NextFileMoves DEF Moves
<1>4. CursorsOK'
  BY <1>1, <1>2, CursorFrame
<1>5. BacklogOK'
  BY <1>1, <1>2, <1>3 DEF BacklogOK, Has
<1>6. ShrunkOK' /\ AskedOK' /\ RouteOK' /\ EndOK'
  BY <1>1, <1>3 DEF SwitchSteps, Loads, Saves, Has, Asked, ShrunkOK, AskedOK, RouteOK, EndOK
<1>. QED BY <1>4, <1>5, <1>6 DEF ClosedOK

LEMMA FetchClosedDone ==
  ASSUME SyncInv, CursorsOK, BacklogOK, ClosedOK, FetchClosed
  PROVE  CursorsOK' /\ BacklogOK' /\ ClosedOK'
<1>. USE DEF SyncInv
<1>1. /\ UNCHANGED <<device, kept, name, todo>>
      /\ committed' = IF legacy THEN 0 ELSE size[name]
  BY DEF FetchClosed, Outside
<1>2. UNCHANGED <<current, latest, size, base, legacy, savedOff, savedDone>>
  BY <1>1 DEF device, kept, cursors
<1>3. Moves("fetchClosed",
            IF ~legacy /\ AtOffset # << >> THEN {"off", "ci", "flush", "mayPend", "check"}
            ELSE IF committed' = 0 /\ offset = 0 /\ pulled = 0 THEN {"legacy"} ELSE {"finish"})
  <2>1. CASE legacy
    BY <2>1, FetchClosedMoves
  <2>2. CASE ~legacy
    BY <2>2, FetchClosedMoves
  <2>. QED BY <2>1, <2>2
<1>4. Has("loop", Visiting) /\ "load" \notin Left("loop") /\ Left("loop") = {"fetchClosed"}
  BY <1>3 DEF Has, Visiting, Closed, Moves
<1>5. name \in Files /\ name = Head(todo)
  BY <1>4, NamedFile
<1>6. CASE ~legacy /\ AtOffset # << >>
  <2>1. offset' = offset + Len(AtOffset)
    BY <1>6 DEF FetchClosed, Received
  <2>2. offset' <= size[name] /\ offset # size[name]
    BY <1>5, <1>6, <2>1, AtOffsetTypes
  <2>3. CursorsOK'
    BY <1>1, <1>2, <1>5, <1>6, <2>2 DEF CursorsOK, CursorOK, AtEnd
  <2>4. Left("loop")' = {"off", "ci", "flush", "mayPend", "check"}
    BY <1>3, <1>6 DEF Moves
  <2>5. BacklogOK' /\ ShrunkOK' /\ RouteOK' /\ EndOK'
    BY <1>1, <1>2, <1>4, <1>6, <2>4 DEF Has, Closed, BacklogOK, ShrunkOK, RouteOK, EndOK
  <2>6. AskedOK'
    BY <1>1, <1>2, <1>5, <1>6 DEF AskedOK
  <2>. QED BY <2>3, <2>5, <2>6 DEF ClosedOK
<1>7. CASE ~(~legacy /\ AtOffset # << >>)
  <2>1. UNCHANGED <<offset, pulled>>
    BY <1>7 DEF FetchClosed
  <2>2. CursorsOK'
    BY <1>1, <1>2, <2>1, CursorFrame
  <2>3. Left("loop")' \subseteq {"legacy", "finish"} /\ ("legacy" \in Left("loop")' => offset = 0)
    BY <1>3, <1>7 DEF Moves
  <2>4. legacy => pulled = 0
    BY <1>4 DEF Has, ClosedOK, RouteOK
  <2>5. BacklogOK' /\ ShrunkOK' /\ EndOK'
    BY <1>1, <1>2, <1>4, <2>3 DEF Has, Closed, BacklogOK, ShrunkOK, EndOK
  <2>6. AskedOK'
    BY <1>1, <1>2, <1>5 DEF AskedOK
  <2>7. RouteOK'
    BY <1>2, <2>1, <2>3, <2>4 DEF Has, RouteOK
  <2>. QED BY <2>2, <2>5, <2>6, <2>7 DEF ClosedOK
<1>. QED BY <1>6, <1>7

LEMMA FetchLegacyDone ==
  ASSUME SyncInv, CursorsOK, BacklogOK, ClosedOK, FetchLegacy
  PROVE  CursorsOK' /\ BacklogOK' /\ ClosedOK'
<1>. USE DEF SyncInv
<1>1. UNCHANGED <<device, kept, name, todo>> /\ legacy /\ size[name] > 0
  BY DEF FetchLegacy, Outside
<1>2. UNCHANGED <<current, latest, size, base, legacy, savedOff, savedDone>>
  BY <1>1 DEF device, kept, cursors
<1>3. PICK x \in {"legacy", "legacyRetry"} :
         Moves(x, {"off", "ci", "flushAll", "pend", "finish"})
  BY FetchLegacyMoves
<1>4. Has("loop", Visiting) /\ "load" \notin Left("loop") /\ Left("loop") = {x}
  BY <1>3 DEF Has, Visiting, Closed, Moves
<1>5. name \in Files /\ name = Head(todo) /\ todo # << >> /\ todo \in Seq(Files)
  BY <1>4, NamedFile
<1>6. offset = 0 /\ size[name] \in Nat
  <2>1. Has("loop", {"legacy", "legacyRetry"})
    BY <1>4 DEF Has
  <2>2. size[name] \in Nat
    BY <1>5, SizeIsNat
  <2>. QED BY <2>1, <2>2 DEF ClosedOK, RouteOK
<1>7. offset' = size[name] /\ committed' = size[name]
  <2>1. Len(Slice(name, 0, size[name])) = IF size[name] > 0 THEN size[name] - 0 ELSE 0
    BY <1>5, <1>6, SliceTypes
  <2>2. Len(Slice(name, 0, size[name])) = size[name]
    BY <1>1, <1>6, <2>1
  <2>. QED BY <1>6, <2>2 DEF FetchLegacy
<1>8. name # current /\ name <= latest
  <2>1. 1 \in DOMAIN todo /\ Head(todo) = todo[1]
    BY <1>5
  <2>2. BacklogOK /\ Has("loop", Closed \cup {"next"})
    BY <1>4 DEF Has, Closed
  <2>. QED BY <1>5, <2>1, <2>2 DEF BacklogOK
<1>9. name \notin savedDone
  BY <1>1, <1>5, <1>6 DEF CursorsOK, CursorOK, AtEnd
<1>10. CursorsOK'
  BY <1>1, <1>2, <1>5, <1>6, <1>7, <1>8, <1>9 DEF CursorsOK, CursorOK, AtEnd
<1>11. Left("loop")' = {"off", "ci", "flushAll", "pend", "finish"}
  BY <1>3 DEF Moves
<1>12. BacklogOK'
  BY <1>1, <1>2, <1>4 DEF Has, Closed, BacklogOK
<1>13. ShrunkOK' /\ AskedOK' /\ RouteOK' /\ EndOK'
  BY <1>1, <1>2, <1>5, <1>7, <1>11 DEF Has, ShrunkOK, AskedOK, RouteOK, EndOK
<1>. QED BY <1>10, <1>12, <1>13 DEF ClosedOK

LEMMA SkipDone ==
  ASSUME SyncInv, CursorsOK, BacklogOK, ClosedOK, SkipFile
  PROVE  CursorsOK' /\ BacklogOK' /\ ClosedOK'
<1>. USE DEF SyncInv
<1>1. UNCHANGED <<device, kept, name, offset, locals>>
  BY DEF SkipFile
<1>2. UNCHANGED <<current, latest, size, base, legacy, savedOff, savedDone, todo>>
  BY <1>1 DEF device, kept, cursors, locals
<1>3. Left("loop") = {"skip"} /\ Left("loop")' = Saves \cup {"after"}
  BY SkipMoves DEF Moves
<1>4. CursorsOK'
  BY <1>1, <1>2, CursorFrame
<1>5. BacklogOK' /\ ShrunkOK' /\ AskedOK' /\ RouteOK' /\ EndOK'
  BY <1>2, <1>3 DEF Has, Closed, Asked, Saves, BacklogOK, ShrunkOK, AskedOK, RouteOK, EndOK
<1>. QED BY <1>4, <1>5 DEF ClosedOK

LEMMA MarkDoneDone ==
  ASSUME SyncInv, CursorsOK, BacklogOK, ClosedOK, MarkDone
  PROVE  CursorsOK' /\ BacklogOK' /\ ClosedOK'
<1>. USE DEF SyncInv
<1>1. UNCHANGED <<device, cursors, object, locals>> /\ savedDone' = savedDone \cup {name}
  BY DEF MarkDone
<1>2. UNCHANGED <<current, latest, size, base, legacy, savedOff, name, offset, todo>>
  BY <1>1 DEF device, cursors, object, locals
<1>3. /\ "done" \in Left("loop") /\ Left("loop")' = Left("loop") \ {"done"}
      /\ Left("loop")' \subseteq {"after"}
  BY MarkDoneMoves
<1>4. name \in Files /\ name = Head(todo) /\ todo # << >> /\ todo \in Seq(Files)
  BY <1>3, EndIsLoaded DEF Has, SyncTypeOK
<1>5. offset = size[name] /\ savedOff[name] = size[name]
  BY <1>3 DEF ClosedOK, EndOK
<1>6. name # current /\ name <= latest
  <2>1. 1 \in DOMAIN todo /\ Head(todo) = todo[1]
    BY <1>4
  <2>2. BacklogOK /\ Has("loop", Closed \cup {"next"})
    BY <1>3 DEF Has, Closed
  <2>. QED BY <1>4, <2>1, <2>2 DEF BacklogOK
<1>7. CursorsOK'
  BY <1>1, <1>2, <1>4, <1>5, <1>6 DEF CursorsOK, CursorOK, AtEnd
<1>8. BacklogOK' /\ ShrunkOK' /\ AskedOK' /\ RouteOK' /\ EndOK'
  BY <1>2, <1>3 DEF Has, Closed, Asked, BacklogOK, ShrunkOK, AskedOK, RouteOK, EndOK
<1>. QED BY <1>7, <1>8 DEF ClosedOK

LEMMA AfterDone ==
  ASSUME SyncInv, CursorsOK, BacklogOK, ClosedOK, AfterFile
  PROVE  CursorsOK' /\ BacklogOK' /\ ClosedOK'
<1>. USE DEF SyncInv
<1>1. UNCHANGED <<device, kept, name, offset>> /\ todo' = Tail(todo)
  BY DEF AfterFile, Outside
<1>2. UNCHANGED <<current, latest, size, base, legacy, savedOff, savedDone>>
  BY <1>1 DEF device, kept, cursors
<1>3. Left("loop") = {"after"} /\ Left("loop")' \subseteq {"top", "next"}
  BY AfterMoves DEF Moves
<1>4. CursorsOK'
  BY <1>1, <1>2, CursorFrame
<1>5. todo # << >> /\ todo \in Seq(Files)
  BY <1>3, NamedFile DEF Has, Visiting, Closed
<1>6. \A i \in DOMAIN todo' : i + 1 \in DOMAIN todo /\ todo'[i] = todo[i + 1]
  BY <1>1, <1>5
<1>7. BacklogOK'
  BY <1>2, <1>3, <1>6 DEF Has, Closed, BacklogOK
<1>8. ShrunkOK' /\ AskedOK' /\ RouteOK' /\ EndOK'
  BY <1>3 DEF Has, Asked, ShrunkOK, AskedOK, RouteOK, EndOK
<1>. QED BY <1>4, <1>7, <1>8 DEF ClosedOK

LEMMA LoopDone ==
  ASSUME SyncInv, CursorsOK, BacklogOK, ClosedOK, Loop
  PROVE  CursorsOK' /\ BacklogOK' /\ ClosedOK'
<1>1. CASE Shared("loop")
  BY <1>1, SharedDone DEF Workers
<1>2. CASE ~Shared("loop")
  BY <1>2, TurnDone, ThrowDone, StatusDone, LoadDone, LoadPendingDone, ShrunkDone,
     FetchWindowDone, ListDone, NextFileDone, FetchClosedDone, FetchLegacyDone, SkipDone,
     MarkDoneDone, AfterDone DEF Loop
<1>. QED BY <1>1, <1>2

LEMMA FreshDone ==
  ASSUME CursorsOK, Fresh, UNCHANGED <<device, cursors, savedDone>>,
         Left("loop")' \subseteq {"top"}
  PROVE  CursorsOK' /\ BacklogOK' /\ ClosedOK'
<1>1. CursorsOK'
  BY Constants DEF CursorsOK, CursorOK, AtEnd, Fresh, device, cursors
<1>2. BacklogOK' /\ ShrunkOK' /\ AskedOK' /\ RouteOK' /\ EndOK'
  BY DEF Has, Closed, Asked, BacklogOK, ShrunkOK, AskedOK, RouteOK, EndOK
<1>. QED BY <1>1, <1>2 DEF ClosedOK

(* Where only the other coroutine, the uploads or nothing moves.           *)
LEMMA BesideDone ==
  ASSUME CursorsOK, BacklogOK, ClosedOK, Left("loop")' = Left("loop"),
         UNCHANGED <<device, cursors, savedDone, name, offset, locals>>
  PROVE  CursorsOK' /\ BacklogOK' /\ ClosedOK'
BY DEF CursorsOK, CursorOK, AtEnd, BacklogOK, ClosedOK, ShrunkOK, AskedOK, RouteOK, EndOK, Has,
       device, cursors, locals

LEMMA DeviceDone ==
  ASSUME SyncInv, CursorsOK, BacklogOK, ClosedOK, Grow \/ Pause \/ Resume
  PROVE  CursorsOK' /\ BacklogOK' /\ ClosedOK'
<1>. USE DEF SyncInv
<1>1. UNCHANGED <<base, legacy, kept, object, work>>
  BY DEF Grow, Pause, Resume
<1>2. UNCHANGED <<legacy, savedOff, savedDone, name, offset, plan, todo, committed, pulled>>
  BY <1>1 DEF kept, cursors, object, work, locals
<1>0. /\ current \in 0 .. NFiles /\ latest \in Files /\ \A f \in Files : f \in Nat /\ f # 0
      /\ size \in [Files -> Nat] /\ MaxSize \in Nat /\ NFiles \in Nat
      /\ \A f \in Files : size[f] \in Nat
  <2>1. current \in 0 .. NFiles /\ latest \in Files /\ size \in [Files -> 0 .. MaxSize]
    BY DEF SyncTypeOK
  <2>2. NFiles \in Nat /\ MaxSize \in Nat
    BY Constants, SyncAssumption
  <2>3. \A f \in Files : f \in Nat /\ f # 0
    BY <2>2 DEF Files
  <2>4. \A f \in Files : size[f] \in Nat
    BY <2>1, <2>2
  <2>. QED BY <2>1, <2>2, <2>3, <2>4
<1>3. /\ latest' \in Nat /\ latest <= latest'
      /\ current' = current \/ \A f \in Files : f <= latest => f # current'
  <2>1. CASE Grow
    BY <1>0, <2>1 DEF Grow
  <2>2. CASE Pause
    BY <1>0, <2>2 DEF Pause
  <2>3. CASE Resume
    BY <1>0, <2>3 DEF Resume
  <2>. QED BY <2>1, <2>2, <2>3
<1>4. \A f \in Files : size'[f] \in Nat /\ size[f] <= size'[f] /\ (f # current => size'[f] = size[f])
  <2>1. CASE Grow
    <3>1. PICK n \in size[current] + 1 .. MaxSize : size' = [size EXCEPT ![current] = n]
      BY <2>1 DEF Grow
    <3>2. current \in Files /\ n \in Nat /\ n > size[current]
      BY <1>0, <2>1, <3>1 DEF Grow, Files
    <3>. QED BY <1>0, <3>1, <3>2
  <2>2. CASE UNCHANGED size
    BY <1>0, <2>2
  <2>. QED BY <2>1, <2>2 DEF Pause, Resume
<1>5. ASSUME NEW f \in Files, NEW off \in Nat, CursorOK(f, off)
      PROVE  CursorOK(f, off)'
  <2>1. AtEnd(f, off) => AtEnd(f, off)'
    BY <1>0, <1>3, <1>4 DEF AtEnd
  <2>2. off <= size'[f]
    BY <1>0, <1>4, <1>5 DEF CursorOK
  <2>. QED BY <1>2, <1>5, <2>1, <2>2 DEF CursorOK
<1>6. CursorsOK'
  BY <1>2, <1>5 DEF CursorsOK, SyncTypeOK
<1>7. \A S : Has("loop", S)' <=> Has("loop", S)
  BY <1>2 DEF Has, Left
<1>8. BacklogOK'
  <2>1. \A i \in DOMAIN todo : todo[i] \in Files
    BY DEF SyncTypeOK
  <2>2. SUFFICES ASSUME Has("loop", Closed \cup {"next"}), NEW i \in DOMAIN todo
                 PROVE  todo[i] # current' /\ todo[i] <= latest'
    BY <1>2, <1>7 DEF BacklogOK
  <2>3. todo[i] # current /\ todo[i] <= latest /\ todo[i] \in Files
    BY <2>1, <2>2 DEF BacklogOK
  <2>. QED BY <1>0, <1>3, <2>3
<1>9. Has("loop", Closed) => Head(todo) \in Files /\ Head(todo) # current
  <2>1. SUFFICES ASSUME Has("loop", Closed) PROVE Head(todo) \in Files /\ Head(todo) # current
    OBVIOUS
  <2>2. todo # << >> /\ todo \in Seq(Files) /\ Head(todo) \in Files
    BY <2>1, NamedFile DEF Has, Visiting
  <2>3. 1 \in DOMAIN todo /\ Head(todo) = todo[1]
    BY <2>2
  <2>. QED BY <2>1, <2>2, <2>3 DEF BacklogOK, Has
<1>10. ShrunkOK'
  BY <1>2 DEF ShrunkOK, ClosedOK, Left
<1>11. AskedOK'
  <2>1. Has("loop", Asked) => Has("loop", Closed)
    BY DEF Has, Asked, Closed
  <2>. QED BY <1>2, <1>4, <1>7, <1>9, <2>1 DEF AskedOK, ClosedOK
<1>12. Has("loop", {"finish", "done"}) => size'[name] = size[name] /\ name \in Files
  <2>1. Has("loop", {"finish", "done"}) => Has("loop", Closed)
    BY DEF Has, Closed
  <2>. QED BY <1>4, <1>9, <2>1, EndIsLoaded
<1>13. RouteOK' /\ EndOK'
  <2>1. /\ "finish" \in Left("loop") => Has("loop", {"finish", "done"})
        /\ "done" \in Left("loop") => Has("loop", {"finish", "done"})
        /\ Left("loop")' = Left("loop")
    BY <1>2 DEF Has, Left
  <2>. QED BY <1>2, <1>7, <1>12, <2>1 DEF RouteOK, EndOK, ClosedOK
<1>. QED BY <1>6, <1>8, <1>10, <1>11, <1>13 DEF ClosedOK

LEMMA OthersDone ==
  ASSUME SyncInv, CursorsOK, BacklogOK, ClosedOK, Others, ~ReuseName
  PROVE  CursorsOK' /\ BacklogOK' /\ ClosedOK'
<1>. USE DEF SyncInv
<1>1. CASE Shared("stop")
  BY <1>1, SharedDone DEF Workers
<1>2. CASE CloseSession
  <2>1. UNCHANGED <<device, kept, name, offset, locals>> /\ At("stop", "close") /\ Go("stop", << >>)
    BY <1>2 DEF CloseSession
  <2>2. Left("loop")' = Left("loop")
    BY <2>1, StepReturns DEF Workers
  <2>. QED BY <2>1, <2>2, BesideDone DEF kept
<1>3. CASE Stop
  <2>1. UNCHANGED <<device, kept, name, offset, locals>>
    BY <1>3 DEF Stop
  <2>. QED BY <1>3, <2>1, StopMoves, BesideDone DEF kept
<1>4. CASE Kill
  <2>1. Fresh /\ UNCHANGED <<device, cursors, savedDone>> /\ plan' = [w \in Workers |-> << >>]
    BY <1>4 DEF Kill, Fresh
  <2>2. Left("loop")' = {}
    BY <2>1, EmptyInOrder DEF Left, Workers
  <2>. QED BY <2>1, <2>2, FreshDone
<1>5. CASE Start
  <2>1. Fresh /\ UNCHANGED <<device, cursors, savedDone>>
    BY <1>5 DEF Start, Fresh, kept
  <2>. QED BY <1>5, <2>1, StartMoves, FreshDone
<1>6. CASE \E chunk \in outbox : Upload(chunk)
  <2>1. UNCHANGED <<device, cursors, savedDone, name, offset, locals, plan>>
    BY <1>6 DEF Upload, object, work
  <2>. QED BY <2>1, BesideDone DEF Left
<1>7. CASE Grow \/ Pause \/ Resume
  BY <1>7, DeviceDone
<1>. QED BY <1>1, <1>2, <1>3, <1>4, <1>5, <1>6, <1>7 DEF Others

LEMMA FormatsCounted ==
  ASSUME SyncInv, SyncNext
  PROVE  /\ \A k \in Faults : faults'[k] >= faults[k]
         /\ faults'.format = 0 => faults.format = 0 /\ ~ReuseName
<1>1. faults \in [Faults -> Nat] /\ "format" \in Faults
  BY DEF SyncInv, FaultsOK, Faults
<1>2. ReuseName => faults'.format # 0
  BY <1>1 DEF ReuseName, Fault
<1>3. UNCHANGED faults \/ \E k \in Faults : Fault(k)
  <2>1. CASE \E w \in Workers : Shared(w)
    BY <2>1 DEF Shared, Flush, WriteChunk, CountChunk, PersistOffset, PersistIndex,
       PersistPending, history
  <2>2. CASE Top \/ MoreWindows \/ NextWindow \/ CheckEnd \/ Finish \/ MayPersistPending
                 \/ LegacyIsEmpty
    BY <2>2 DEF Top, MoreWindows, NextWindow, CheckEnd, Finish, MayPersistPending,
       LegacyIsEmpty, Turn, history
  <2>3. CASE NoStatus \/ DrainThrows \/ ListFails \/ FetchClosedThrows \/ LegacyThrows
    BY <2>3 DEF NoStatus, DrainThrows, ListFails, FetchClosedThrows, LegacyThrows,
       RequestFails, Faults
  <2>4. CASE OpenSession \/ Status \/ LoadPending \/ FetchWindow \/ ListFiles \/ NextFile
                 \/ FetchClosed \/ FetchLegacy \/ AfterFile
    BY <2>4 DEF OpenSession, Status, LoadPending, FetchWindow, ListFiles, NextFile,
       FetchClosed, FetchLegacy, AfterFile, Outside, history
  <2>5. CASE LoadCursor \/ CheckShrunk \/ SkipFile \/ MarkDone
    BY <2>5 DEF LoadCursor, CheckShrunk, SkipFile, MarkDone, history
  <2>6. CASE CloseSession \/ Stop \/ Kill \/ Start \/ (\E chunk \in outbox : Upload(chunk))
    BY <2>6 DEF CloseSession, Stop, Kill, Start, Upload, Faults, history
  <2>7. CASE Grow \/ Pause \/ Resume \/ ReuseName
    BY <2>7 DEF Grow, Pause, Resume, ReuseName, Faults, history
  <2>. QED BY <2>1, <2>2, <2>3, <2>4, <2>5, <2>6, <2>7 DEF SyncNext, Loop, Others, Workers
<1>4. \A k \in Faults : faults'[k] >= faults[k] /\ faults[k] \in Nat /\ faults'[k] \in Nat
  <2>1. CASE UNCHANGED faults
    BY <1>1, <2>1
  <2>2. CASE \E k \in Faults : Fault(k)
    BY <1>1, <2>2, FaultTypes DEF SyncInv, FaultsOK
  <2>. QED BY <1>3, <2>1, <2>2
<1>. QED BY <1>1, <1>2, <1>4

LEMMA InitDone == SyncInit => DoneInv
<1>. SUFFICES ASSUME SyncInit PROVE CursorsOK /\ BacklogOK /\ ClosedOK
  BY DEF DoneInv
<1>1. Left("loop") = {"top"}
  BY SingleInOrder DEF SyncInit, Left, Workers, Steps, Alone
<1>2. CursorsOK
  BY Constants DEF SyncInit, CursorsOK, CursorOK, AtEnd
<1>3. BacklogOK /\ ShrunkOK /\ AskedOK /\ RouteOK /\ EndOK
  BY <1>1 DEF Has, Closed, Asked, BacklogOK, ShrunkOK, AskedOK, RouteOK, EndOK
<1>. QED BY <1>2, <1>3 DEF ClosedOK

LEMMA NextDone == ASSUME SyncInv, DoneInv, [SyncNext]_vars PROVE DoneInv'
<1>. SUFFICES ASSUME faults'.format = 0 PROVE CursorsOK' /\ BacklogOK' /\ ClosedOK'
  BY DEF DoneInv
<1>1. CASE SyncNext
  <2>1. faults.format = 0 /\ ~ReuseName
    BY <1>1, FormatsCounted
  <2>. QED BY <1>1, <2>1, LoopDone, OthersDone DEF SyncNext, DoneInv
<1>2. CASE UNCHANGED vars
  <2>1. /\ faults.format = 0 /\ Left("loop")' = Left("loop")
        /\ UNCHANGED <<device, cursors, savedDone, name, offset, locals>>
    BY <1>2 DEF vars, device, kept, cursors, object, work, locals, history, Left
  <2>. QED BY <2>1, BesideDone DEF DoneInv
<1>. QED BY <1>1, <1>2

(* A recording is marked as done only when the cursor has reached its end  *)
(* and it grows no more, whatever fails, stops or ends the app before: for *)
(* any number of files, faults and sizes, with old and new firmware.       *)
THEOREM DoneIsFetched == SyncSpec => []DoneMeansFetched
<1>1. SyncInv /\ DoneInv => DoneMeansFetched
  BY DEF SyncInv, SyncTypeOK, DoneInv, DoneMeansFetched, CursorsOK, CursorOK, AtEnd
<1>2. SyncInv /\ DoneInv /\ [SyncNext]_vars => (SyncInv /\ DoneInv)'
  BY NextInv, NextDone
<1>. QED BY InitInv, InitDone, <1>1, <1>2, PTL DEF SyncSpec
=============================================================================
