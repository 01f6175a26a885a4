---------------------------- MODULE StreamProofs ----------------------------
(***************************************************************************)
(* Theorems about SdSync: while nothing kills or stops the app and nobody  *)
(* formats the card, the sync implements ChunkStream; and as long as       *)
(* stop() is not called, a kill costs at most a chunk and two windows.     *)
(***************************************************************************)
EXTENDS SyncProofs
-----------------------------------------------------------------------------
(* The bytes of f that are fetched and not yet in a chunk: at hand in      *)
(* _flushPending, saved while the file is loaded or another one is open,   *)
(* otherwise in `pending`.                                                 *)
Writing  == "write" \in Left("loop")
Counting == "count" \in Left("loop")
Opening  == "fill" \in Left("loop") /\ "load" \notin Left("loop")

Remainder == SubSeq(job["loop"].buf, Len(Piece("loop")) + 1, Len(job["loop"].buf))

Rest(f) ==
    IF name # f \/ Opening THEN savedPend[f]
    ELSE IF Writing THEN job["loop"].buf ELSE IF Counting THEN Remainder ELSE pending

RestIsNext ==
    \A f \in Files : /\ Stream!Sent(f) <= Fetched(f)
                     /\ Rest(f) = Stream!Bytes(Stream!Sent(f) + 1, Fetched(f) - Stream!Sent(f))

(* Only the last chunk of a recording that has come to its end is short.   *)
ShortIsLast ==
    \A f \in Files : Stream!Open(f) \/ (Stream!Sent(f) = Fetched(f) /\ AtEnd(f, Fetched(f)))

Forced == "flushAll" \in Left("loop") \/ ((Writing \/ Counting) /\ job["loop"].force)

FlushOK ==
    /\ Forced => AtEnd(name, offset)
    /\ Has("loop", Flushers) => name # None
    /\ Writing \/ Counting => NextCut(job["loop"].buf, job["loop"].force) > 0

(* A change of file: what is in memory has been saved when the next file   *)
(* is loaded.                                                              *)
ChangeOK ==
    /\ "load" \in Left("loop") =>
          /\ {"empty", "fill"} \subseteq Left("loop")
          /\ name # None /\ "off" \notin Left("loop") => savedOff[name] = offset
          /\ name # None /\ "pend" \notin Left("loop") =>
                savedPend[name] = pending /\ ~Has("loop", Flushers)
    /\ "empty" \in Left("loop") => "fill" \in Left("loop")
    /\ Opening => /\ Left("loop") \subseteq {"empty", "fill", "shrunk", "window"}
                  /\ "empty" \notin Left("loop") => pending = << >>

AloneOK == /\ running /\ plan["stop"] = << >> /\ base = [f \in Files |-> 0]
           /\ cuts \in [Files -> Seq(Seq(Nat))]

StreamOK  == AloneOK /\ RestIsNext /\ ShortIsLast /\ FlushOK /\ ChangeOK
StreamInv == Undisturbed => StreamOK
-----------------------------------------------------------------------------
(* Runs of positions.                                                      *)
LEMMA RunTypes ==
  ASSUME NEW m \in Nat, NEW n \in Nat
  PROVE  /\ Stream!Bytes(m, n) \in Seq(Int) /\ Len(Stream!Bytes(m, n)) = n
         /\ \A i \in 1 .. n : Stream!Bytes(m, n)[i] = m + i - 1
         /\ m > 0 => Stream!Bytes(m, n) \in Seq(Nat)
         /\ n = 0 => Stream!Bytes(m, n) = << >>
BY DEF Stream!Bytes

LEMMA RunsJoined ==
  ASSUME NEW m \in Nat, NEW n \in Nat, NEW k \in Nat
  PROVE  Stream!Bytes(m, n) \o Stream!Bytes(m + n, k) = Stream!Bytes(m, n + k)
<1>. DEFINE a == Stream!Bytes(m, n)
            b == Stream!Bytes(m + n, k)
            c == Stream!Bytes(m, n + k)
<1>1. a \in Seq(Int) /\ Len(a) = n /\ \A i \in 1 .. n : a[i] = m + i - 1
  BY RunTypes
<1>2. b \in Seq(Int) /\ Len(b) = k /\ \A i \in 1 .. k : b[i] = (m + n) + i - 1
  <2>1. m + n \in Nat
    OBVIOUS
  <2>. QED BY <2>1, RunTypes
<1>3. c \in Seq(Int) /\ Len(c) = n + k /\ \A i \in 1 .. n + k : c[i] = m + i - 1
  <2>1. n + k \in Nat
    OBVIOUS
  <2>. QED BY <2>1, RunTypes
<1>. HIDE DEF a, b, c
<1>4. /\ a \o b \in Seq(Int) /\ Len(a \o b) = n + k
      /\ \A i \in 1 .. n + k : (a \o b)[i] = IF i <= n THEN a[i] ELSE b[i - n]
  BY <1>1, <1>2, ConcatProperties
<1>5. ASSUME NEW i \in 1 .. n + k PROVE (a \o b)[i] = c[i]
  <2>1. CASE i <= n
    <3>1. i \in 1 .. n
      BY <2>1
    <3>. QED BY <1>1, <1>3, <1>4, <2>1, <3>1
  <2>2. CASE ~(i <= n)
    <3>1. i - n \in 1 .. k /\ (m + n) + (i - n) - 1 = m + i - 1
      BY <2>2
    <3>2. b[i - n] = (m + n) + (i - n) - 1
      BY <1>2, <3>1
    <3>3. (a \o b)[i] = b[i - n]
      BY <1>4, <2>2
    <3>. QED BY <1>3, <3>1, <3>2, <3>3
  <2>. QED BY <2>1, <2>2
<1>6. a \o b = c
  BY <1>3, <1>4, <1>5, SeqEqual
<1>7. a \o b = c <=> Stream!Bytes(m, n) \o Stream!Bytes(m + n, k) = Stream!Bytes(m, n + k)
  BY DEF a, b, c
<1>. QED BY <1>6, <1>7

LEMMA RunCut ==
  ASSUME NEW m \in Nat, NEW n \in Nat, NEW k \in 0 .. n
  PROVE  /\ SubSeq(Stream!Bytes(m, n), 1, k) = Stream!Bytes(m, k)
         /\ SubSeq(Stream!Bytes(m, n), k + 1, n) = Stream!Bytes(m + k, n - k)
<1>. DEFINE a == Stream!Bytes(m, n)
            b == Stream!Bytes(m, k)
            c == Stream!Bytes(m + k, n - k)
<1>0. k \in Nat /\ n - k \in Nat /\ m + k \in Nat /\ k <= n
  OBVIOUS
<1>1. a \in Seq(Int) /\ Len(a) = n /\ \A i \in 1 .. n : a[i] = m + i - 1
  BY RunTypes
<1>2. b \in Seq(Int) /\ Len(b) = k /\ \A i \in 1 .. k : b[i] = m + i - 1
  BY <1>0, RunTypes
<1>3. c \in Seq(Int) /\ Len(c) = n - k /\ \A i \in 1 .. n - k : c[i] = (m + k) + i - 1
  BY <1>0, RunTypes
<1>. HIDE DEF a, b, c
<1>4. \A i \in 1 .. n : a[i] \in Int
  BY <1>1
<1>5. SubSeq(a, 1, k) = b
  <2>1. \A i \in 1 .. k : a[i] \in Int
    BY <1>0, <1>4
  <2>2. /\ SubSeq(a, 1, k) \in Seq(Int)
        /\ Len(SubSeq(a, 1, k)) = IF 1 <= k THEN k - 1 + 1 ELSE 0
        /\ \A i \in 1 .. k - 1 + 1 : SubSeq(a, 1, k)[i] = a[1 + i - 1]
    BY <1>0, <2>1, SubSeqProperties
  <2>3. Len(SubSeq(a, 1, k)) = k /\ \A i \in 1 .. k : SubSeq(a, 1, k)[i] = a[i]
    BY <1>0, <2>2
  <2>4. \A i \in 1 .. k : SubSeq(a, 1, k)[i] = b[i]
    BY <1>0, <1>1, <1>2, <2>3
  <2>. QED BY <1>2, <2>2, <2>3, <2>4, SeqEqual
<1>6. SubSeq(a, k + 1, n) = c
  <2>1. \A i \in k + 1 .. n : a[i] \in Int
    BY <1>0, <1>4
  <2>2. /\ SubSeq(a, k + 1, n) \in Seq(Int)
        /\ Len(SubSeq(a, k + 1, n)) = IF k + 1 <= n THEN n - (k + 1) + 1 ELSE 0
        /\ \A i \in 1 .. n - (k + 1) + 1 : SubSeq(a, k + 1, n)[i] = a[(k + 1) + i - 1]
    BY <1>0, <2>1, SubSeqProperties
  <2>3. /\ Len(SubSeq(a, k + 1, n)) = n - k
        /\ \A i \in 1 .. n - k : SubSeq(a, k + 1, n)[i] = a[k + i]
    BY <1>0, <2>2
  <2>4. \A i \in 1 .. n - k : k + i \in 1 .. n /\ m + (k + i) - 1 = (m + k) + i - 1
    BY <1>0
  <2>5. \A i \in 1 .. n - k : SubSeq(a, k + 1, n)[i] = c[i]
    BY <1>1, <1>3, <2>3, <2>4
  <2>. QED BY <1>3, <2>2, <2>3, <2>5, SeqEqual
<1>. QED BY <1>5, <1>6 DEF a, b, c

LEMMA OddAfterEven ==
  ASSUME NEW k \in Nat PROVE (2 * k + 1) % 2 = 1
OBVIOUS

(* _chunkBoundary of a run that starts at a length: a chunk of ChunkBytes  *)
(* if there are as many.                                                   *)
LEMMA BoundaryOfRun ==
  ASSUME NEW k \in Nat, NEW n \in Nat
  PROVE  LET run == Stream!Bytes(2 * k + 1, n)
         IN  Boundary(run) = IF n >= ChunkBytes THEN ChunkBytes ELSE -1
<1>. DEFINE run == Stream!Bytes(2 * k + 1, n)
<1>1. /\ run \in Seq(Nat) /\ Len(run) = n /\ 2 * k + 1 \in Nat
      /\ \A i \in 1 .. n : run[i] = 2 * k + 1 + i - 1
  <2>1. 2 * k + 1 \in Nat /\ 2 * k + 1 > 0
    OBVIOUS
  <2>. QED BY <2>1, RunTypes
<1>. HIDE DEF run
<1>2. PICK end : /\ Boundary(run) = end[FramesPerChunk] /\ end[0] = 0
                 /\ \A j \in 1 .. FramesPerChunk : end[j] = RecordEnd(run, end[j - 1])
  BY <1>1, BoundaryIsAnEnd
<1>. DEFINE S == {j \in Nat : j \in 0 .. FramesPerChunk =>
                                 end[j] = IF 2 * j <= n THEN 2 * j ELSE -1}
<1>3. 0 \in S
  BY <1>2
<1>4. ASSUME NEW j \in S, j + 1 \in 0 .. FramesPerChunk
      PROVE  end[j + 1] = IF 2 * (j + 1) <= n THEN 2 * (j + 1) ELSE -1
  <2>1. end[j + 1] = RecordEnd(run, end[j])
    BY <1>2, <1>4
  <2>2. end[j] = IF 2 * j <= n THEN 2 * j ELSE -1
    BY <1>4, SyncAssumption
  <2>3. CASE 2 * j < n
    <3>1. 2 * j + 1 \in 1 .. n /\ run[2 * j + 1] = 2 * (k + j) + 1
      BY <1>1, <2>3
    <3>2. LengthByte(run[2 * j + 1]) = 1
      <4>1. k + j \in Nat
        OBVIOUS
      <4>. QED BY <3>1, <4>1, OddAfterEven DEF LengthByte
    <3>3. end[j] = 2 * j
      BY <2>2, <2>3
    <3>4. RecordEnd(run, 2 * j) = IF 2 * j + 1 + 1 > n THEN -1 ELSE 2 * j + 1 + 1
      BY <1>1, <2>3, <3>2 DEF RecordEnd
    <3>. QED BY <1>1, <2>1, <3>3, <3>4
  <2>4. CASE ~(2 * j < n)
    <3>1. RecordEnd(run, end[j]) = -1
      BY <1>1, <2>2, <2>4 DEF RecordEnd
    <3>. QED BY <2>1, <2>4, <3>1
  <2>. QED BY <2>3, <2>4
<1>5. \A j \in S : j + 1 \in S
  BY <1>4
<1>. HIDE DEF S
<1>6. FramesPerChunk \in S
  BY <1>3, <1>5, AllNumbers, SyncAssumption DEF S
<1>7. Boundary(run) = IF n >= ChunkBytes THEN ChunkBytes ELSE -1
  BY <1>2, <1>6, SyncAssumption DEF S, ChunkBytes
<1>. QED BY <1>7 DEF run

(* What _flushPending cuts off a run: a full chunk if there is one, else   *)
(* the rest if it is forced.                                               *)
LEMMA CutOfRun ==
  ASSUME NEW k \in Nat, NEW n \in Nat, NEW force \in BOOLEAN
  PROVE  NextCut(Stream!Bytes(2 * k + 1, n), force) =
            IF n >= ChunkBytes THEN ChunkBytes ELSE IF force THEN n ELSE 0
<1>1. 2 * k + 1 \in Nat /\ Len(Stream!Bytes(2 * k + 1, n)) = n
  BY RunTypes
<1>2. Boundary(Stream!Bytes(2 * k + 1, n)) = IF n >= ChunkBytes THEN ChunkBytes ELSE -1
  BY BoundaryOfRun
<1>3. ChunkBytes \in Nat \ {0}
  BY Constants
<1>. QED BY <1>1, <1>2, <1>3 DEF NextCut
-----------------------------------------------------------------------------
LEMMA Products == \A a \in Nat, b \in Nat : a * b \in Nat
OBVIOUS

(* Full chunks end before a length.                                        *)
LEMMA SentIsEven ==
  ASSUME AloneOK, NEW f \in Files
  PROVE  /\ Stream!Sent(f) \in Nat
         /\ Stream!Open(f) => \E k \in Nat : Stream!Sent(f) = 2 * k
<1>. DEFINE n == Len(cuts[f])
<1>1. cuts[f] \in Seq(Seq(Nat)) /\ n \in Nat
  BY DEF AloneOK
<1>2. ChunkBytes \in Nat /\ FramesPerChunk \in Nat /\ ChunkBytes = 2 * FramesPerChunk
  BY SyncAssumption DEF ChunkBytes
<1>3. Stream!Sent(f) \in Nat
  <2>1. CASE cuts[f] = << >>
    BY <2>1 DEF Stream!Sent
  <2>2. CASE cuts[f] # << >>
    <3>1. n - 1 \in Nat /\ cuts[f][n] \in Seq(Nat)
      BY <1>1, <2>2
    <3>2. Len(cuts[f][n]) \in Nat
      BY <3>1
    <3>3. Stream!Sent(f) = ChunkBytes * (n - 1) + Len(cuts[f][n])
      BY <2>2 DEF Stream!Sent
    <3>. HIDE DEF n
    <3>4. ChunkBytes * (n - 1) \in Nat
      BY <1>2, <3>1, Products
    <3>. QED BY <3>2, <3>3, <3>4
  <2>. QED BY <2>1, <2>2
<1>4. ASSUME Stream!Open(f) PROVE \E k \in Nat : Stream!Sent(f) = 2 * k
  <2>1. Stream!Sent(f) = ChunkBytes * n
    BY <1>4 DEF Stream!Open
  <2>. HIDE DEF n
  <2>2. FramesPerChunk * n \in Nat /\ ChunkBytes * n = 2 * (FramesPerChunk * n)
    BY <1>1, <1>2, Products
  <2>. QED BY <2>1, <2>2
<1>. QED BY <1>3, <1>4

(* One more chunk.                                                         *)
LEMMA Appended ==
  ASSUME NEW s \in Seq(Seq(Nat)), NEW p \in Seq(Nat)
  PROVE  /\ Append(s, p) # << >> /\ Len(Append(s, p)) = Len(s) + 1
         /\ Append(s, p)[Len(s) + 1] = p
BY AppendProperties

LEMMA OneMore ==
  ASSUME AloneOK, NEW f \in Files, Stream!Open(f), NEW p \in Seq(Nat), Len(p) > 0,
         cuts' = [cuts EXCEPT ![f] = Append(@, p)]
  PROVE  /\ Stream!Sent(f)' = Stream!Sent(f) + Len(p)
         /\ Len(p) = ChunkBytes => Stream!Open(f)'
         /\ \A g \in Files : g # f => /\ Stream!Sent(g)' = Stream!Sent(g)
                                      /\ Stream!Open(g)' = Stream!Open(g)
         /\ cuts' \in [Files -> Seq(Seq(Nat))]
<1>. DEFINE n == Len(cuts[f])
<1>1. cuts \in [Files -> Seq(Seq(Nat))] /\ cuts[f] \in Seq(Seq(Nat)) /\ n \in Nat
  BY DEF AloneOK
<1>2. /\ cuts'[f] = Append(cuts[f], p) /\ cuts' \in [Files -> Seq(Seq(Nat))]
      /\ \A g \in Files : g # f => cuts'[g] = cuts[g]
  BY <1>1
<1>3. cuts'[f] # << >> /\ Len(cuts'[f]) = n + 1 /\ cuts'[f][n + 1] = p
  BY <1>1, <1>2, Appended
<1>4. Stream!Sent(f) = ChunkBytes * n
  BY DEF Stream!Open
<1>5. Stream!Sent(f)' = ChunkBytes * ((n + 1) - 1) + Len(p)
  BY <1>3 DEF Stream!Sent
<1>. HIDE DEF n
<1>6. ChunkBytes \in Nat /\ ChunkBytes * n \in Nat /\ ChunkBytes * (n + 1) = ChunkBytes * n + ChunkBytes
      /\ (n + 1) - 1 = n
  BY <1>1, Constants, Products
<1>7. Stream!Sent(f)' = Stream!Sent(f) + Len(p)
  BY <1>4, <1>5, <1>6
<1>8. ASSUME Len(p) = ChunkBytes PROVE Stream!Open(f)'
  BY <1>3, <1>4, <1>6, <1>7, <1>8 DEF Stream!Open
<1>9. ASSUME NEW g \in Files, g # f
      PROVE  Stream!Sent(g)' = Stream!Sent(g) /\ Stream!Open(g)' = Stream!Open(g)
  BY <1>2, <1>9 DEF Stream!Sent, Stream!Open
<1>. QED BY <1>2, <1>7, <1>8, <1>9

(* A step that moves no byte of what is fetched and cuts no chunk.         *)
LEMMA DataKept ==
  ASSUME AloneOK, RestIsNext, ShortIsLast, UNCHANGED <<size, base, current, latest, running, cuts>>,
         plan'["stop"] = plan["stop"],
         \A f \in Files : Rest(f)' = Rest(f) /\ Fetched(f)' = Fetched(f)
  PROVE  AloneOK' /\ RestIsNext' /\ ShortIsLast' /\ UNCHANGED Stream!stream
<1>1. AloneOK'
  BY DEF AloneOK
<1>2. \A f \in Files : Stream!Sent(f)' = Stream!Sent(f) /\ Stream!Open(f)' = Stream!Open(f)
  BY DEF Stream!Sent, Stream!Open
<1>3. RestIsNext'
  BY <1>2 DEF RestIsNext
<1>4. ShortIsLast'
  BY <1>2 DEF ShortIsLast, AtEnd
<1>5. UNCHANGED Stream!stream
  BY DEF Stream!stream
<1>. QED BY <1>1, <1>3, <1>4, <1>5
-----------------------------------------------------------------------------
(* A step of the loop that ends with its turn.                             *)
LEMMA AloneKeeps ==
  ASSUME NEW x \in Alone, NEW s, Moves(x, s),
         s \cap {"write", "count"} = {},
         s \cap Loads # {} => Loads \subseteq s /\ (name' # None => {"off", "pend"} \subseteq s),
         s \cap {"flush", "flushAll"} # {} => name' # None,
         "flushAll" \in s => AtEnd(name, offset)'
  PROVE  /\ FlushOK' /\ ChangeOK'
         /\ \A f \in Files : Rest(f) = IF name # f THEN savedPend[f] ELSE pending
         /\ \A f \in Files : Rest(f)' = IF name' # f THEN savedPend'[f] ELSE pending'
<1>1. Left("loop") = {x} /\ Left("loop")' = s
  BY DEF Moves
<1>2. x \notin Loads \cup Flushers
  BY DEF Alone, Loads, Flushers
<1>3. ~Writing /\ ~Counting /\ ~Opening
  BY <1>1, <1>2 DEF Writing, Counting, Opening, Loads, Flushers
<1>4. ~Writing' /\ ~Counting' /\ ~Opening'
  BY <1>1 DEF Writing, Counting, Opening, Loads
<1>5. FlushOK'
  BY <1>1, <1>4 DEF FlushOK, Forced, Has, Flushers
<1>6. ChangeOK'
  BY <1>1, <1>4 DEF ChangeOK, Loads
<1>7. \A f \in Files : Rest(f) = IF name # f THEN savedPend[f] ELSE pending
  BY <1>3 DEF Rest
<1>8. \A f \in Files : Rest(f)' = IF name' # f THEN savedPend'[f] ELSE pending'
  BY <1>4 DEF Rest
<1>. QED BY <1>5, <1>6, <1>7, <1>8

LEMMA TurnKeeps ==
  ASSUME StreamOK, NEW x \in Alone, NEW s, Moves(x, s),
         s \cap {"write", "count"} = {},
         s \cap Loads # {} => Loads \subseteq s /\ (name # None => {"off", "pend"} \subseteq s),
         s \cap {"flush", "flushAll"} # {} => name # None,
         "flushAll" \in s => AtEnd(name, offset)',
         UNCHANGED <<size, base, current, latest, running, cuts, name, offset, savedOff,
                     savedPend, pending>>
  PROVE  StreamOK' /\ UNCHANGED Stream!stream
<1>1. /\ FlushOK' /\ ChangeOK'
      /\ \A f \in Files : Rest(f) = IF name # f THEN savedPend[f] ELSE pending
      /\ \A f \in Files : Rest(f)' = IF name' # f THEN savedPend'[f] ELSE pending'
  BY AloneKeeps
<1>2. plan'["stop"] = plan["stop"]
  BY DEF Moves
<1>3. \A f \in Files : Rest(f)' = Rest(f) /\ Fetched(f)' = Fetched(f)
  BY <1>1 DEF Fetched
<1>. QED BY <1>1, <1>2, <1>3, DataKept DEF StreamOK

(* Bytes arrive: the next ones of the open file.                           *)
LEMMA BytesKept ==
  ASSUME SyncInv, CursorsOK, StreamOK, NEW x \in Alone, NEW s, Moves(x, s),
         s \cap ({"write", "count"} \cup Loads) = {},
         name \in Files, "flushAll" \in s => AtEnd(name, offset)',
         NEW n \in Nat, n > 0, offset + n <= size[name],
         pending' = pending \o Stream!Bytes(offset + 1, n), offset' = offset + n,
         UNCHANGED <<size, base, current, latest, running, cuts, name, savedOff, savedPend>>
  PROVE  StreamOK' /\ Stream!Get(name)
<1>0. AloneOK /\ RestIsNext /\ ShortIsLast
  BY DEF StreamOK
<1>1. /\ FlushOK' /\ ChangeOK'
      /\ \A f \in Files : Rest(f) = IF name # f THEN savedPend[f] ELSE pending
      /\ \A f \in Files : Rest(f)' = IF name' # f THEN savedPend'[f] ELSE pending'
  BY AloneKeeps, Constants
<1>2. /\ \A f \in Files : Fetched(f)' = IF f = name THEN offset + n ELSE Fetched(f)
      /\ Fetched(name) = offset
  BY DEF Fetched
<1>3. offset \in Nat /\ Stream!Sent(name) \in Nat
  BY <1>0, SentIsEven DEF SyncInv, SyncTypeOK
<1>4. Stream!Open(name)
  <2>1. size[name] \in Nat
    BY Constants DEF SyncInv, SyncTypeOK
  <2>2. ~AtEnd(name, offset)
    BY <1>3, <2>1 DEF AtEnd
  <2>. QED BY <1>0, <1>2, <2>2 DEF ShortIsLast
<1>5. \A f \in Files : Stream!Sent(f)' = Stream!Sent(f) /\ Stream!Open(f)' = Stream!Open(f)
  BY DEF Stream!Sent, Stream!Open
<1>6. AloneOK'
  BY <1>0 DEF AloneOK, Moves
<1>7. RestIsNext'
  <2>1. ASSUME NEW f \in Files, f # name
        PROVE  /\ Stream!Sent(f)' <= Fetched(f)'
               /\ Rest(f)' = Stream!Bytes(Stream!Sent(f)' + 1, Fetched(f)' - Stream!Sent(f)')
    BY <1>0, <1>1, <1>2, <1>5, <2>1 DEF RestIsNext
  <2>2. /\ Stream!Sent(name) <= offset
        /\ pending = Stream!Bytes(Stream!Sent(name) + 1, offset - Stream!Sent(name))
    BY <1>0, <1>1, <1>2 DEF RestIsNext
  <2>. DEFINE m == Stream!Sent(name)
              k == offset - m
  <2>3. m \in Nat /\ k \in Nat /\ m <= offset + n /\ (m + 1) + k = offset + 1
        /\ k + n = (offset + n) - m
    BY <1>3, <2>2
  <2>. HIDE DEF m, k
  <2>4. m + 1 \in Nat
    BY <2>3
  <2>5. Stream!Bytes(m + 1, k) \o Stream!Bytes((m + 1) + k, n) = Stream!Bytes(m + 1, k + n)
    BY <2>3, <2>4, RunsJoined
  <2>6. pending' = Stream!Bytes(m + 1, (offset + n) - m)
    BY <2>2, <2>3, <2>5 DEF m, k
  <2>7. /\ Stream!Sent(name)' <= Fetched(name)'
        /\ Rest(name)' = Stream!Bytes(Stream!Sent(name)' + 1, Fetched(name)' - Stream!Sent(name)')
    BY <1>1, <1>2, <1>5, <2>3, <2>6 DEF m
  <2>. QED BY <2>1, <2>7 DEF RestIsNext
<1>8. ShortIsLast'
  BY <1>0, <1>2, <1>4, <1>5 DEF ShortIsLast, AtEnd
<1>9. Stream!Get(name)
  <2>1. [f \in Files |-> Fetched(f)]' = [[f \in Files |-> Fetched(f)] EXCEPT ![name] = offset + n]
    BY <1>2
  <2>2. /\ [f \in Files |-> Fetched(f)][name] = offset
        /\ [f \in Files |-> Fetched(f)]'[name] = offset + n
        /\ offset + n > offset
    BY <1>2, <1>3
  <2>. QED BY <1>4, <2>1, <2>2 DEF Stream!Get
<1>. QED BY <1>1, <1>6, <1>7, <1>8, <1>9 DEF StreamOK
-----------------------------------------------------------------------------
(* Most turns of the loop neither flush nor change the file.               *)
LEMMA PlainMoves ==
  ASSUME PlanOK, Top \/ MoreWindows \/ NextWindow \/ CheckEnd \/ LegacyIsEmpty \/ NoStatus
                     \/ DrainThrows \/ ListFails \/ FetchClosedThrows \/ LegacyThrows
                     \/ OpenSession \/ ListFiles \/ SkipFile \/ AfterFile \/ CheckShrunk
  PROVE  \E x \in Alone : \E s :
            Moves(x, s) /\ s \cap (Flushers \cup Loads) = {} /\ "shrunk" \notin s
<1>. USE DEF Alone, Flushers, Loads, Saves
<1>1. ASSUME NEW x \in Alone, NEW s, Moves(x, s), s \cap (Flushers \cup Loads) = {},
             "shrunk" \notin s
      PROVE  \E y \in Alone : \E t :
                Moves(y, t) /\ t \cap (Flushers \cup Loads) = {} /\ "shrunk" \notin t
  BY <1>1
<1>. HIDE DEF Flushers, Loads
<1>2. \A t \in {{}, {"open"}, {"fetch"}, Saves \cup {"list"}, {"fetchClosed"}, {"finish"},
                {"window"}, {"skip"}, {"list"}, {"top"}, {"legacyRetry"}, {"status"}, {"next"},
                Saves \cup {"after"}} : t \cap (Flushers \cup Loads) = {} /\ "shrunk" \notin t
  BY DEF Flushers, Loads
<1>3. CASE Top
  BY <1>1, <1>2, <1>3, TopMoves
<1>4. CASE MoreWindows
  BY <1>1, <1>2, <1>4, MoreMoves
<1>5. CASE NextWindow
  BY <1>1, <1>2, <1>5, NextWindowMoves
<1>6. CASE CheckEnd
  BY <1>1, <1>2, <1>6, CheckMoves
<1>7. CASE LegacyIsEmpty
  BY <1>1, <1>2, <1>7, LegacyIsEmptyMoves
<1>8. CASE NoStatus
  BY <1>1, <1>2, <1>8, NoStatusMoves
<1>9. CASE DrainThrows
  BY <1>1, <1>2, <1>9, DrainThrowsMoves
<1>10. CASE ListFails
  BY <1>1, <1>2, <1>10, ListFailsMoves
<1>11. CASE FetchClosedThrows
  BY <1>1, <1>2, <1>11, FetchClosedThrowsMoves
<1>12. CASE LegacyThrows
  BY <1>1, <1>2, <1>12, LegacyThrowsMoves
<1>13. CASE OpenSession
  BY <1>1, <1>2, <1>13, OpenMoves
<1>14. CASE ListFiles
  BY <1>1, <1>2, <1>14, ListMoves
<1>15. CASE SkipFile
  BY <1>1, <1>2, <1>15, SkipMoves
<1>16. CASE AfterFile
  BY <1>1, <1>2, <1>16, AfterMoves
<1>17. CASE CheckShrunk
  <2>1. Moves("shrunk", Left("loop")') /\ Left("loop")' \cap (Flushers \cup Loads) = {}
    BY <1>2, <1>17, ShrunkMoves
  <2>2. "shrunk" \notin Left("loop")'
    BY <1>2, <1>17, ShrunkMoves
  <2>. QED BY <1>1, <2>1, <2>2
<1>. QED BY <1>3, <1>4, <1>5, <1>6, <1>7, <1>8, <1>9, <1>10, <1>11, <1>12, <1>13, <1>14, <1>15,
            <1>16, <1>17

LEMMA PlainStream ==
  ASSUME SyncInv, ClosedOK, StreamOK,
         Top \/ MoreWindows \/ NextWindow \/ CheckEnd \/ LegacyIsEmpty \/ NoStatus
             \/ DrainThrows \/ ListFails \/ FetchClosedThrows \/ LegacyThrows
             \/ OpenSession \/ ListFiles \/ SkipFile \/ AfterFile \/ CheckShrunk
  PROVE  StreamOK' /\ UNCHANGED Stream!stream
<1>0. PICK x \in Alone : \E s : Moves(x, s) /\ s \cap (Flushers \cup Loads) = {}
  BY PlainMoves DEF SyncInv
<1>1. PICK s : Moves(x, s) /\ s \cap (Flushers \cup Loads) = {}
  BY <1>0
<1>2. UNCHANGED <<device, kept, cuts, running, name>>
  BY DEF Top, MoreWindows, NextWindow, CheckEnd, LegacyIsEmpty, NoStatus, DrainThrows, ListFails,
     FetchClosedThrows, LegacyThrows, OpenSession, ListFiles, SkipFile, AfterFile, CheckShrunk,
     Turn, Outside, object, history
<1>3. UNCHANGED <<offset, pending>>
  <2>1. CASE CheckShrunk
    <3>1. Moves("shrunk", Left("loop")')
      BY <2>1, ShrunkMoves DEF SyncInv
    <3>2. name = Head(todo)
      BY <3>1, NamedFile DEF Has, Visiting, Moves, Loads
    <3>3. offset <= committed /\ offset \in Nat /\ committed \in Int
      BY <3>1, <3>2 DEF Moves, ClosedOK, ShrunkOK, SyncInv, SyncTypeOK
    <3>. QED BY <2>1, <3>3 DEF CheckShrunk
  <2>2. CASE ~CheckShrunk
    BY <2>2 DEF Top, MoreWindows, NextWindow, CheckEnd, LegacyIsEmpty, NoStatus, DrainThrows,
       ListFails, FetchClosedThrows, LegacyThrows, OpenSession, ListFiles, SkipFile, AfterFile,
       Turn, object
  <2>. QED BY <2>1, <2>2
<1>4. UNCHANGED <<size, base, current, latest, running, cuts, name, offset, savedOff, savedPend,
                  pending>>
  BY <1>2, <1>3 DEF device, kept, cursors
<1>5. /\ s \cap {"write", "count"} = {} /\ s \cap Loads = {} /\ s \cap {"flush", "flushAll"} = {}
      /\ "flushAll" \notin s
  BY <1>1 DEF Flushers
<1>. QED BY <1>1, <1>4, <1>5, TurnKeeps

(* A visit begins.                                                         *)
LEMMA VisitStream ==
  ASSUME SyncInv, StreamOK, Status \/ NextFile
  PROVE  StreamOK' /\ UNCHANGED Stream!stream
<1>0. PICK x \in Alone : \E s :
         /\ Moves(x, s)
         /\ s \in {{"shrunk"}, {"top"}, {"window"}, SwitchSteps \cup {"shrunk"},
                   SwitchSteps \cup {"window"}}
  <2>1. CASE Status
    BY <2>1, StatusMoves DEF Alone, SyncInv
  <2>2. CASE NextFile
    BY <2>2, NextFileMoves DEF Alone, SyncInv
  <2>. QED BY <2>1, <2>2
<1>1. PICK s :
         /\ Moves(x, s)
         /\ s \in {{"shrunk"}, {"top"}, {"window"}, SwitchSteps \cup {"shrunk"},
                   SwitchSteps \cup {"window"}}
  BY <1>0
<1>2. UNCHANGED <<size, base, current, latest, running, cuts, name, offset, savedOff, savedPend,
                  pending>>
  BY DEF Status, NextFile, Outside, device, kept, cursors, history
<1>3. /\ s \cap {"write", "count"} = {} /\ "flushAll" \notin s
      /\ s \cap Loads # {} => Loads \subseteq s /\ (name # None => {"off", "pend"} \subseteq s)
      /\ s \cap {"flush", "flushAll"} # {} => name # None
  BY <1>1 DEF SwitchSteps, Loads, Saves
<1>. QED BY <1>1, <1>2, <1>3, TurnKeeps

(* The last flush of a closed file.                                        *)
LEMMA FinishStream ==
  ASSUME SyncInv, CursorsOK, BacklogOK, ClosedOK, StreamOK, Finish
  PROVE  StreamOK' /\ UNCHANGED Stream!stream
<1>1. Moves("finish", IF AllFetched THEN {"flushAll", "done", "after"} \cup Saves ELSE {"after"})
  BY FinishMoves DEF SyncInv
<1>2. UNCHANGED <<size, base, current, latest, running, cuts, name, offset, savedOff, savedPend,
                  pending, todo>>
  BY DEF Finish, Turn, device, kept, cursors, object, history, locals
<1>3. name = Head(todo) /\ name \in Files /\ todo # << >> /\ todo \in Seq(Files)
  BY <1>1, NamedFile DEF Moves, Has, Visiting, Closed, Loads
<1>4. CASE AllFetched
  <2>1. "done" \in Left("loop")' /\ Left("loop") = {"finish"}
    BY <1>1, <1>4 DEF Moves
  <2>2. offset = size[name]
    <3>1. CursorsOK' /\ BacklogOK' /\ ClosedOK'
      BY TurnDone
    <3>. QED BY <1>2, <2>1, <3>1 DEF ClosedOK, EndOK
  <2>3. name # current /\ name <= latest
    <3>1. 1 \in DOMAIN todo /\ Head(todo) = todo[1]
      BY <1>3
    <3>2. Has("loop", Closed \cup {"next"})
      BY <2>1 DEF Has, Closed
    <3>. QED BY <1>3, <3>1, <3>2 DEF BacklogOK
  <2>4. AtEnd(name, offset)'
    BY <1>2, <2>2, <2>3 DEF AtEnd
  <2>. DEFINE s == {"flushAll", "done", "after"} \cup Saves
  <2>5. Moves("finish", s) /\ "finish" \in Alone
    BY <1>1, <1>4 DEF Alone
  <2>6. s \cap {"write", "count"} = {} /\ s \cap Loads = {} /\ name # None
    BY <1>3, Constants DEF Saves, Loads
  <2>. HIDE DEF s
  <2>. QED BY <1>2, <2>4, <2>5, <2>6, TurnKeeps
<1>5. CASE ~AllFetched
  <2>1. Moves("finish", {"after"}) /\ "finish" \in Alone
    BY <1>1, <1>5 DEF Alone
  <2>2. /\ {"after"} \cap {"write", "count"} = {} /\ {"after"} \cap Loads = {}
        /\ {"after"} \cap {"flush", "flushAll"} = {} /\ "flushAll" \notin {"after"}
    BY DEF Loads
  <2>. QED BY <1>2, <2>1, <2>2, TurnKeeps
<1>. QED BY <1>4, <1>5

LEMMA SliceIsRun ==
  ASSUME AloneOK, NEW f \in Files, NEW from \in Nat, NEW n \in Nat
  PROVE  Slice(f, from, from + n) = Stream!Bytes(from + 1, n)
<1>1. base[f] = 0
  BY DEF AloneOK
<1>2. (IF from + n > from THEN (from + n) - from ELSE 0) = n
  OBVIOUS
<1>3. Slice(f, from, from + n) = [i \in 1 .. n |-> 0 + from + i]
  BY <1>1, <1>2 DEF Slice
<1>4. \A i \in 1 .. n : 0 + from + i = from + 1 + i - 1
  OBVIOUS
<1>. QED BY <1>3, <1>4 DEF Stream!Bytes

(* What a request for a window brings.                                     *)
LEMMA WindowIsRun ==
  ASSUME SyncInv, CursorsOK, AloneOK, name \in Files, AtOffset # << >>
  PROVE  \E n \in Nat : /\ n > 0 /\ offset + n <= size[name]
                        /\ AtOffset = Stream!Bytes(offset + 1, n) /\ Len(AtOffset) = n
<1>. DEFINE to == Smaller(offset + Window, size[name])
            n  == to - offset
<1>1. offset \in Nat /\ size[name] \in Nat /\ Window \in Nat
  BY Constants, SyncAssumption DEF SyncInv, SyncTypeOK
<1>2. offset <= size[name]
  BY DEF CursorsOK, CursorOK
<1>3. to \in Nat /\ to >= offset /\ to <= size[name]
  BY <1>1, <1>2 DEF Smaller
<1>4. n \in Nat /\ to = offset + n
  BY <1>1, <1>3
<1>5. AtOffset = Slice(name, offset, to)
  BY DEF AtOffset
<1>. HIDE DEF n, to
<1>6. AtOffset = Stream!Bytes(offset + 1, n)
  BY <1>1, <1>4, <1>5, SliceIsRun
<1>7. offset + 1 \in Nat
  BY <1>1
<1>8. Len(AtOffset) = n /\ (n = 0 => AtOffset = << >>)
  BY <1>4, <1>6, <1>7, RunTypes
<1>. QED BY <1>1, <1>3, <1>4, <1>6, <1>8

LEMMA FetchWindowStream ==
  ASSUME SyncInv, CursorsOK, StreamOK, FetchWindow
  PROVE  StreamOK' /\ (UNCHANGED Stream!stream \/ \E f \in Files : Stream!Get(f))
<1>1. Moves("fetch", IF AtOffset = << >> THEN Saves \cup {"list"}
                     ELSE {"off", "ci", "flush", "mayPend", "more"})
  BY FetchMoves DEF SyncInv
<1>2. UNCHANGED <<size, base, current, latest, running, cuts, name, savedOff, savedPend>>
  BY DEF FetchWindow, Outside, device, kept, cursors, history
<1>3. name \in Files /\ "fetch" \in Alone
  BY <1>1, NamedFile DEF Moves, Has, Visiting, Loads, Alone
<1>4. CASE AtOffset = << >>
  <2>1. Moves("fetch", Saves \cup {"list"}) /\ UNCHANGED <<offset, pending>>
    BY <1>1, <1>4 DEF FetchWindow
  <2>2. (Saves \cup {"list"}) \cap (Flushers \cup Loads) = {}
    BY DEF Saves, Flushers, Loads
  <2>. QED BY <1>2, <1>3, <2>1, <2>2, TurnKeeps DEF Flushers
<1>5. CASE AtOffset # << >>
  <2>. DEFINE s == {"off", "ci", "flush", "mayPend", "more"}
  <2>1. Moves("fetch", s)
    BY <1>1, <1>5
  <2>2. pending' = pending \o AtOffset /\ offset' = offset + Len(AtOffset)
    BY <1>5 DEF FetchWindow, Received
  <2>3. PICK n \in Nat : /\ n > 0 /\ offset + n <= size[name]
                         /\ AtOffset = Stream!Bytes(offset + 1, n) /\ Len(AtOffset) = n
    BY <1>3, <1>5, WindowIsRun DEF StreamOK
  <2>4. s \cap ({"write", "count"} \cup Loads) = {} /\ "flushAll" \notin s
    BY DEF Loads
  <2>. HIDE DEF s
  <2>. QED BY <1>2, <1>3, <2>1, <2>2, <2>3, <2>4, BytesKept
<1>. QED BY <1>4, <1>5

LEMMA FetchClosedStream ==
  ASSUME SyncInv, CursorsOK, StreamOK, FetchClosed
  PROVE  StreamOK' /\ (UNCHANGED Stream!stream \/ \E f \in Files : Stream!Get(f))
<1>1. Moves("fetchClosed",
            IF ~legacy /\ AtOffset # << >> THEN {"off", "ci", "flush", "mayPend", "check"}
            ELSE IF committed' = 0 /\ offset = 0 /\ pulled = 0 THEN {"legacy"} ELSE {"finish"})
  <2>1. CASE legacy
    BY <2>1, FetchClosedMoves DEF SyncInv
  <2>2. CASE ~legacy
    BY <2>2, FetchClosedMoves DEF SyncInv
  <2>. QED BY <2>1, <2>2
<1>2. UNCHANGED <<size, base, current, latest, running, cuts, name, savedOff, savedPend>>
  BY DEF FetchClosed, Outside, device, kept, cursors, history
<1>3. name \in Files /\ "fetchClosed" \in Alone
  BY <1>1, NamedFile DEF Moves, Has, Visiting, Closed, Loads, Alone
<1>4. CASE ~(~legacy /\ AtOffset # << >>)
  <2>1. UNCHANGED <<offset, pending>>
    BY <1>4 DEF FetchClosed
  <2>2. PICK s \in {{"legacy"}, {"finish"}} : Moves("fetchClosed", s)
    BY <1>1, <1>4
  <2>3. s \cap (Flushers \cup Loads) = {}
    BY <2>2 DEF Flushers, Loads
  <2>. QED BY <1>2, <1>3, <2>1, <2>2, <2>3, TurnKeeps DEF Flushers
<1>5. CASE ~legacy /\ AtOffset # << >>
  <2>. DEFINE s == {"off", "ci", "flush", "mayPend", "check"}
  <2>1. Moves("fetchClosed", s)
    BY <1>1, <1>5
  <2>2. pending' = pending \o AtOffset /\ offset' = offset + Len(AtOffset)
    BY <1>5 DEF FetchClosed, Received
  <2>3. PICK n \in Nat : /\ n > 0 /\ offset + n <= size[name]
                         /\ AtOffset = Stream!Bytes(offset + 1, n) /\ Len(AtOffset) = n
    BY <1>3, <1>5, WindowIsRun DEF StreamOK
  <2>4. s \cap ({"write", "count"} \cup Loads) = {} /\ "flushAll" \notin s
    BY DEF Loads
  <2>. HIDE DEF s
  <2>. QED BY <1>2, <1>3, <2>1, <2>2, <2>3, <2>4, BytesKept
<1>. QED BY <1>4, <1>5

LEMMA FetchLegacyStream ==
  ASSUME SyncInv, CursorsOK, BacklogOK, ClosedOK, StreamOK, FetchLegacy
  PROVE  StreamOK' /\ \E f \in Files : Stream!Get(f)
<1>1. PICK x \in {"legacy", "legacyRetry"} :
         Moves(x, {"off", "ci", "flushAll", "pend", "finish"})
  BY FetchLegacyMoves DEF SyncInv
<1>2. /\ UNCHANGED <<size, base, current, latest, running, cuts, name, savedOff, savedPend>>
      /\ size[name] > 0
  BY DEF FetchLegacy, Outside, device, kept, cursors, history
<1>3. /\ x \in Alone /\ name \in Files /\ name = Head(todo) /\ todo # << >>
      /\ todo \in Seq(Files)
  BY <1>1, NamedFile DEF Moves, Has, Visiting, Closed, Loads, Alone
<1>4. size[name] \in Nat
  BY <1>3, SizeIsNat DEF SyncInv
<1>5. offset = 0
  <2>1. Has("loop", {"legacy", "legacyRetry"})
    BY <1>1 DEF Moves, Has
  <2>. QED BY <2>1 DEF ClosedOK, RouteOK
<1>6. Slice(name, 0, size[name]) = Stream!Bytes(1, size[name])
  <2>1. 0 \in Nat /\ 0 + 1 = 1 /\ 0 + size[name] = size[name]
    BY <1>4
  <2>2. Slice(name, 0, 0 + size[name]) = Stream!Bytes(0 + 1, size[name])
    BY <1>3, <1>4, <2>1, SliceIsRun DEF StreamOK
  <2>. QED BY <2>1, <2>2
<1>7. Len(Stream!Bytes(1, size[name])) = size[name]
  BY <1>4, RunTypes
<1>8. pending' = pending \o Stream!Bytes(1, size[name]) /\ offset' = offset + size[name]
  BY <1>6, <1>7 DEF FetchLegacy
<1>9. name # current /\ name <= latest
  <2>1. 1 \in DOMAIN todo /\ Head(todo) = todo[1]
    BY <1>3
  <2>2. Has("loop", Closed \cup {"next"})
    BY <1>1 DEF Moves, Has, Closed
  <2>. QED BY <1>3, <2>1, <2>2 DEF BacklogOK
<1>. DEFINE s == {"off", "ci", "flushAll", "pend", "finish"}
<1>10. Moves(x, s) /\ s \cap ({"write", "count"} \cup Loads) = {}
  BY <1>1 DEF Loads
<1>. HIDE DEF s
<1>11. AtEnd(name, offset)'
  BY <1>2, <1>4, <1>5, <1>8, <1>9 DEF AtEnd
<1>12. offset + 1 = 1 /\ offset + size[name] <= size[name]
  BY <1>4, <1>5
<1>. QED BY <1>2, <1>3, <1>4, <1>8, <1>10, <1>11, <1>12, BytesKept
-----------------------------------------------------------------------------
(* The next file is loaded: what was in memory of the one before is saved. *)
LEMMA LoadStream ==
  ASSUME SyncInv, StreamOK, LoadCursor
  PROVE  StreamOK' /\ UNCHANGED Stream!stream
<1>1. /\ "load" \in Left("loop") /\ Left("loop")' = Left("loop") \ {"load"}
      /\ Left("loop")' \subseteq {"empty", "fill", "shrunk", "window"}
      /\ plan'["stop"] = plan["stop"]
  BY LoadMoves DEF SyncInv
<1>2. /\ name' = Head(todo) /\ offset' = savedOff[name']
      /\ UNCHANGED <<size, base, current, latest, running, cuts, savedOff, savedPend, pending>>
  BY DEF LoadCursor, device, kept, cursors, history
<1>3. /\ {"empty", "fill"} \subseteq Left("loop") /\ "off" \notin Left("loop")
      /\ "pend" \notin Left("loop")
  BY <1>1 DEF StreamOK, ChangeOK
<1>4. name # None => savedOff[name] = offset /\ savedPend[name] = pending
  BY <1>1, <1>3 DEF StreamOK, ChangeOK
<1>5. ~Writing /\ ~Counting /\ ~Opening /\ ~Writing' /\ ~Counting' /\ Opening'
  BY <1>1, <1>3 DEF Writing, Counting, Opening
<1>6. ASSUME NEW f \in Files PROVE Rest(f)' = Rest(f) /\ Fetched(f)' = Fetched(f)
  <2>1. name = f => savedOff[f] = offset /\ savedPend[f] = pending
    BY <1>4, Constants
  <2>. QED BY <1>2, <1>5, <2>1 DEF Rest, Fetched
<1>7. FlushOK'
  BY <1>1, <1>5 DEF FlushOK, Forced, Has, Flushers
<1>8. ChangeOK'
  BY <1>1, <1>3 DEF ChangeOK
<1>. QED BY <1>1, <1>2, <1>6, <1>7, <1>8, DataKept DEF StreamOK

LEMMA LoadPendingStream ==
  ASSUME SyncInv, StreamOK, LoadPending
  PROVE  StreamOK' /\ UNCHANGED Stream!stream
<1>1. PICK x \in {"empty", "fill"} :
         /\ InLoop(x, << >>)
         /\ pending' = IF x = "empty" THEN << >> ELSE pending \o savedPend[name]
  BY DEF LoadPending
<1>2. /\ x \in Left("loop") /\ Left("loop")' = Left("loop") \ {x}
      /\ Left("loop")' \subseteq {"fill", "shrunk", "window"} /\ plan'["stop"] = plan["stop"]
  BY <1>1, LoadPendingMoves DEF SyncInv
<1>3. UNCHANGED <<size, base, current, latest, running, cuts, name, offset, savedOff, savedPend>>
  BY DEF LoadPending, Outside, device, kept, cursors, history
<1>4. "fill" \in Left("loop") /\ Opening
  BY <1>2 DEF StreamOK, ChangeOK, Opening
<1>5. ~Writing' /\ ~Counting'
  BY <1>2 DEF Writing, Counting
<1>6. \A f \in Files : Rest(f) = savedPend[f] /\ Fetched(f)' = Fetched(f)
  BY <1>3, <1>4 DEF Rest, Fetched
<1>7. FlushOK'
  BY <1>2, <1>5 DEF FlushOK, Forced, Has, Flushers
<1>8. CASE x = "empty"
  <2>1. Opening' /\ "load" \notin Left("loop")' /\ "empty" \notin Left("loop")'
    BY <1>2, <1>4, <1>8 DEF Opening
  <2>2. \A f \in Files : Rest(f)' = savedPend[f]
    BY <1>3, <2>1 DEF Rest
  <2>3. ChangeOK'
    BY <1>1, <1>2, <1>8, <2>1 DEF ChangeOK, Opening
  <2>. QED BY <1>2, <1>3, <1>6, <1>7, <2>2, <2>3, DataKept DEF StreamOK
<1>9. CASE x = "fill"
  <2>1. ~Opening' /\ "load" \notin Left("loop")' /\ "empty" \notin Left("loop")
    BY <1>2, <1>9 DEF Opening
  <2>2. pending = << >>
    BY <1>4, <2>1 DEF StreamOK, ChangeOK
  <2>3. name \in Files
    BY <1>4, NamedFile DEF Opening, Has, Visiting, Loads
  <2>4. savedPend[name] \in Seq(Nat)
    BY <2>3 DEF SyncInv, SyncTypeOK
  <2>5. pending' = savedPend[name]
    BY <1>1, <1>9, <2>2, <2>4, ConcatEmptySeq
  <2>6. \A f \in Files : Rest(f)' = savedPend[f]
    BY <1>3, <1>5, <2>1, <2>5 DEF Rest
  <2>7. ChangeOK'
    BY <1>2, <2>1 DEF ChangeOK
  <2>. QED BY <1>2, <1>3, <1>6, <1>7, <2>6, <2>7, DataKept DEF StreamOK
<1>. QED BY <1>8, <1>9

LEMMA QuietKeeps ==
  ASSUME StreamOK, plan'["stop"] = plan["stop"],
         Left("loop") \cap (Flushers \cup Loads) = {},
         Left("loop")' \cap (Flushers \cup Loads) = {},
         UNCHANGED <<size, base, current, latest, running, cuts, name, offset, savedOff,
                     savedPend, pending>>
  PROVE  StreamOK' /\ UNCHANGED Stream!stream
<1>1. /\ ~Writing /\ ~Counting /\ ~Opening /\ ~Writing' /\ ~Counting' /\ ~Opening'
      /\ "load" \notin Left("loop")' /\ "empty" \notin Left("loop")'
  BY DEF Writing, Counting, Opening, Flushers, Loads
<1>2. \A f \in Files : Rest(f)' = Rest(f) /\ Fetched(f)' = Fetched(f)
  BY <1>1 DEF Rest, Fetched
<1>3. FlushOK' /\ ChangeOK'
  BY <1>1 DEF FlushOK, Forced, Has, Flushers, ChangeOK
<1>. QED BY <1>2, <1>3, DataKept DEF StreamOK

LEMMA MarkStream ==
  ASSUME SyncInv, StreamOK, MarkDone \/ MayPersistPending
  PROVE  StreamOK' /\ UNCHANGED Stream!stream
<1>1. UNCHANGED <<size, base, current, latest, running, cuts, name, offset, savedOff, savedPend,
                  pending>>
  BY DEF MarkDone, MayPersistPending, Turn, device, kept, cursors, object, history
<1>2. /\ Left("loop") \subseteq {"done", "after", "mayPend", "more", "check"}
      /\ Left("loop")' \subseteq {"after", "pend", "mayPend", "more", "check"}
      /\ plan'["stop"] = plan["stop"]
  <2>1. CASE MarkDone
    BY <2>1, MarkDoneMoves DEF SyncInv
  <2>2. CASE MayPersistPending
    BY <2>2, MayPersistMoves DEF SyncInv
  <2>. QED BY <2>1, <2>2
<1>3. /\ Left("loop") \cap (Flushers \cup Loads) = {}
      /\ Left("loop")' \cap (Flushers \cup Loads) = {}
  BY <1>2 DEF Flushers, Loads
<1>. QED BY <1>1, <1>2, <1>3, QuietKeeps
-----------------------------------------------------------------------------
(* The persisting calls.                                                   *)
LEMMA PersistStream ==
  ASSUME SyncInv, StreamOK, PersistOffset("loop") \/ PersistIndex("loop") \/ PersistPending("loop")
  PROVE  StreamOK' /\ UNCHANGED Stream!stream
<1>1. PICK x \in Saves : At("loop", x) /\ Go("loop", << >>)
  BY DEF PersistOffset, PersistIndex, PersistPending, Saves
<1>2. /\ x \in Left("loop") /\ Left("loop")' = Left("loop") \ {x} /\ Left("loop")' \subseteq After(x)
      /\ plan'["stop"] = plan["stop"]
  BY <1>1, StepReturns DEF Workers, SyncInv
<1>3. UNCHANGED <<size, base, current, latest, running, cuts, name, offset, pending, job>>
  BY DEF PersistOffset, PersistIndex, PersistPending, device, object, history
<1>4. /\ Writing' = Writing /\ Counting' = Counting /\ ~Opening /\ ~Opening'
      /\ "flushAll" \in Left("loop")' <=> "flushAll" \in Left("loop")
      /\ Has("loop", Flushers)' = Has("loop", Flushers)
  BY <1>2 DEF Writing, Counting, Opening, Saves, StreamOK, ChangeOK, Has, Flushers
<1>5. FlushOK'
  BY <1>3, <1>4 DEF StreamOK, FlushOK, Forced, AtEnd
<1>6. name \in Files \cup {None}
  BY DEF SyncInv, SyncTypeOK
<1>7. CASE PersistOffset("loop")
  <2>1. x = "off" /\ savedOff' = [savedOff EXCEPT ![name] = offset] /\ UNCHANGED savedPend
    BY <1>1, <1>7 DEF PersistOffset, At
  <2>2. name \in Files
    BY <1>2, <1>6, <2>1 DEF SyncInv, VisitOK, Has
  <2>3. savedOff'[name] = offset /\ \A f \in Files : f # name => savedOff'[f] = savedOff[f]
    BY <2>1, <2>2 DEF SyncInv, SyncTypeOK
  <2>4. \A f \in Files : Rest(f)' = Rest(f) /\ Fetched(f)' = Fetched(f)
    BY <1>3, <1>4, <2>1, <2>3 DEF Rest, Fetched, Remainder, Piece
  <2>5. ChangeOK'
    BY <1>2, <1>3, <1>4, <2>1, <2>3 DEF StreamOK, ChangeOK
  <2>. QED BY <1>2, <1>3, <1>5, <2>4, <2>5, DataKept DEF StreamOK
<1>8. CASE PersistIndex("loop")
  <2>1. x = "ci" /\ UNCHANGED <<savedOff, savedPend>>
    BY <1>1, <1>8 DEF PersistIndex, At
  <2>2. \A f \in Files : Rest(f)' = Rest(f) /\ Fetched(f)' = Fetched(f)
    BY <1>3, <1>4, <2>1 DEF Rest, Fetched, Remainder, Piece
  <2>3. ChangeOK'
    BY <1>2, <1>3, <1>4, <2>1 DEF StreamOK, ChangeOK
  <2>. QED BY <1>2, <1>3, <1>5, <2>2, <2>3, DataKept DEF StreamOK
<1>9. CASE PersistPending("loop")
  <2>1. /\ x = "pend" /\ savedPend' = [savedPend EXCEPT ![name] = pending] /\ UNCHANGED savedOff
    BY <1>1, <1>9 DEF PersistPending, At, Captured, cursors
  <2>2. ~Has("loop", Flushers)
    BY <1>2, <1>4, <2>1, AfterIs DEF Has
  <2>3. ~Writing /\ ~Counting
    BY <2>2 DEF Has, Writing, Counting, Flushers
  <2>4. /\ name \in Files => savedPend'[name] = pending
        /\ \A f \in Files : f # name => savedPend'[f] = savedPend[f]
    BY <2>1 DEF SyncInv, SyncTypeOK
  <2>5. \A f \in Files : Rest(f)' = Rest(f) /\ Fetched(f)' = Fetched(f)
    BY <1>3, <1>4, <2>1, <2>3, <2>4 DEF Rest, Fetched
  <2>6. ChangeOK'
    BY <1>2, <1>3, <1>4, <1>6, <2>1, <2>2, <2>4 DEF StreamOK, ChangeOK
  <2>. QED BY <1>2, <1>3, <1>5, <2>5, <2>6, DataKept DEF StreamOK
<1>. QED BY <1>7, <1>8, <1>9
-----------------------------------------------------------------------------
(* _flushPending.                                                          *)
LEMMA ContinueStream ==
  ASSUME SyncInv, StreamOK, NEW x \in Flushers, At("loop", x), NEW buf \in Seq(Nat),
         NEW force \in BOOLEAN, NEW cut \in BOOLEAN, NEW index,
         Continue("loop", buf, force, cut, index, Tail(plan["loop"])),
         Rest(name) = buf, cut \/ pending = buf, force => Forced,
         UNCHANGED <<size, base, current, latest, running, cuts, name, offset, savedOff,
                     savedPend>>
  PROVE  StreamOK' /\ UNCHANGED Stream!stream
<1>0. plan["loop"] \in Seq(Steps) /\ plan["loop"] # << >> /\ Tail(plan["loop"]) \in Seq(Steps)
  BY HeadTailProperties DEF SyncInv, PlanOK, Workers, At
<1>1. x \in Left("loop")
  BY <1>0 DEF At, Left, ToSet
<1>2. ~Opening /\ name \in Files
  BY <1>1, Constants DEF StreamOK, ChangeOK, FlushOK, Has, Flushers, SyncInv, SyncTypeOK
<1>3. "load" \in Left("loop") => "pend" \in Left("loop")
  BY <1>1, <1>2, Constants DEF StreamOK, ChangeOK, Has
<1>4. NextCut(buf, force) \in 0 .. Len(buf)
  BY NextCutRange
<1>5. CASE NextCut(buf, force) > 0
  <2>1. /\ Leave("loop", <<"write">> \o Tail(plan["loop"])) /\ UNCHANGED pending
        /\ job'["loop"].buf = buf /\ job'["loop"].force = force
    BY <1>5 DEF Continue, SyncInv, JobOK, Workers
  <2>2. Go("loop", <<"write">>)
    BY <2>1 DEF Leave, Go
  <2>3. /\ Left("loop") \ {x} \subseteq Steps \ Flushers
        /\ Left("loop")' = {"write"} \cup (Left("loop") \ {x})
        /\ plan'["stop"] = plan["stop"]
    BY <2>2, FlusherGoes DEF Flushers, Workers, SyncInv
  <2>4. Writing' /\ ~Counting' /\ ~Opening' /\ "flushAll" \notin Left("loop")'
    BY <1>2, <2>3 DEF Writing, Counting, Opening, Flushers
  <2>5. \A f \in Files : Rest(f)' = Rest(f) /\ Fetched(f)' = Fetched(f)
    BY <1>2, <2>1, <2>4 DEF Rest, Fetched
  <2>6. FlushOK'
    BY <1>2, <1>5, <2>1, <2>4, Constants DEF StreamOK, FlushOK, Forced, AtEnd
  <2>7. ChangeOK'
    BY <1>1, <1>3, <2>1, <2>3, <2>4 DEF StreamOK, ChangeOK, Flushers
  <2>. QED BY <2>3, <2>5, <2>6, <2>7, DataKept DEF StreamOK
<1>6. CASE ~(NextCut(buf, force) > 0)
  <2>1. Leave("loop", Tail(plan["loop"])) /\ pending' = buf
    BY <1>6 DEF Continue
  <2>2. << >> \o Tail(plan["loop"]) = Tail(plan["loop"])
    BY <1>0, ConcatEmptySeq
  <2>3. Go("loop", << >>)
    BY <2>1, <2>2 DEF Leave, Go
  <2>4. /\ Left("loop")' = Left("loop") \ {x} /\ Left("loop")' \subseteq Steps \ Flushers
        /\ plan'["stop"] = plan["stop"]
    BY <2>3, StepReturns, AfterIs DEF Workers, SyncInv
  <2>5. ~Writing' /\ ~Counting' /\ ~Opening' /\ ~Has("loop", Flushers)'
    BY <1>1, <1>2, <2>4 DEF Writing, Counting, Opening, Flushers, Has
  <2>6. \A f \in Files : Rest(f)' = Rest(f) /\ Fetched(f)' = Fetched(f)
    BY <1>2, <2>1, <2>5 DEF Rest, Fetched
  <2>7. FlushOK'
    BY <2>5 DEF FlushOK, Forced, Has, Flushers
  <2>8. ChangeOK'
    BY <1>1, <1>3, <2>1, <2>4, <2>5 DEF StreamOK, ChangeOK, Flushers
  <2>. QED BY <2>4, <2>6, <2>7, <2>8, DataKept DEF StreamOK
<1>. QED BY <1>5, <1>6

LEMMA FlushStream ==
  ASSUME SyncInv, StreamOK, Flush("loop")
  PROVE  StreamOK' /\ UNCHANGED Stream!stream
<1>1. PICK force \in BOOLEAN :
         /\ At("loop", IF force THEN "flushAll" ELSE "flush")
         /\ Continue("loop", pending, force, FALSE, chunkIndex, Tail(plan["loop"]))
  BY DEF Flush
<1>. DEFINE x == IF force THEN "flushAll" ELSE "flush"
<1>2. UNCHANGED <<size, base, current, latest, running, cuts, name, offset, savedOff, savedPend>>
  BY DEF Flush, device, kept, cursors, history
<1>3. plan["loop"] \in Seq(Steps) /\ InOrder(plan["loop"]) /\ plan["loop"] # << >>
      /\ Head(plan["loop"]) = x
  BY <1>1 DEF SyncInv, PlanOK, Workers, At
<1>4. x \in Flushers /\ x \in Left("loop") /\ Left("loop") \ {x} \subseteq Steps \ Flushers
  <2>1. x \in Flushers /\ After(x) = Steps \ Flushers
    BY AfterIs DEF Flushers
  <2>. HIDE DEF x
  <2>. QED BY <1>3, <2>1, TailInOrder DEF Left
<1>5. ~Writing /\ ~Counting /\ ~Opening
  BY <1>4 DEF Writing, Counting, Opening, Flushers, StreamOK, ChangeOK
<1>6. Rest(name) = pending /\ pending \in Seq(Nat) /\ (force => Forced)
  BY <1>4, <1>5 DEF Rest, Forced, SyncInv, SyncTypeOK
<1>7. At("loop", x)
  BY <1>1
<1>. HIDE DEF x
<1>. QED BY <1>1, <1>2, <1>4, <1>6, <1>7, ContinueStream

LEMMA CountStream ==
  ASSUME SyncInv, StreamOK, CountChunk("loop")
  PROVE  StreamOK' /\ UNCHANGED Stream!stream
<1>1. /\ At("loop", "count")
      /\ Continue("loop", Remainder, job["loop"].force, TRUE, chunkIndex', Tail(plan["loop"]))
  BY DEF CountChunk, Remainder
<1>2. UNCHANGED <<size, base, current, latest, running, cuts, name, offset, savedOff, savedPend>>
  BY DEF CountChunk, device, kept, cursors, history
<1>3. plan["loop"] \in Seq(Steps) /\ InOrder(plan["loop"]) /\ plan["loop"] # << >>
      /\ Head(plan["loop"]) = "count"
  BY <1>1 DEF SyncInv, PlanOK, Workers, At
<1>4. /\ "count" \in Flushers /\ "count" \in Left("loop")
      /\ Left("loop") \ {"count"} \subseteq Steps \ Flushers
  <2>1. "count" \in Flushers /\ After("count") = Steps \ Flushers
    BY AfterIs DEF Flushers
  <2>. QED BY <1>3, <2>1, TailInOrder DEF Left
<1>5. ~Writing /\ Counting /\ ~Opening
  BY <1>4 DEF Writing, Counting, Opening, Flushers, StreamOK, ChangeOK
<1>6. /\ Rest(name) = Remainder /\ (job["loop"].force => Forced)
      /\ Remainder \in Seq(Nat) /\ job["loop"].force \in BOOLEAN
  BY <1>5, PieceTypes DEF Rest, Forced, Remainder, SyncInv, Workers
<1>. QED BY <1>1, <1>2, <1>4, <1>6, ContinueStream

(* A chunk is cut: full, or the last one of a recording at its end.        *)
LEMMA WriteStream ==
  ASSUME SyncInv, StreamOK, Undisturbed, WriteChunk("loop")
  PROVE  StreamOK' /\ \E f \in Files : Stream!Cut(f)
<1>. DEFINE buf   == job["loop"].buf
            force == job["loop"].force
            n     == NextCut(buf, force)
            sent  == Stream!Sent(name)
            len   == Fetched(name) - sent
<1>0. AloneOK /\ RestIsNext /\ ShortIsLast /\ FlushOK /\ ChangeOK
  BY DEF StreamOK
<1>1. At("loop", "write") /\ Go("loop", <<"count">>)
  BY DEF WriteChunk
<1>2. /\ "write" \in Left("loop") /\ Left("loop") \ {"write"} \subseteq Steps \ Flushers
      /\ Left("loop")' = {"count"} \cup (Left("loop") \ {"write"})
      /\ plan'["stop"] = plan["stop"]
  BY <1>1, FlusherGoes DEF SyncInv, Workers, Flushers
<1>3. /\ UNCHANGED <<size, base, current, latest, running, name, offset, savedOff, savedPend,
                     pending, job>>
      /\ cuts' = [cuts EXCEPT ![name] = Append(@, Piece("loop"))]
  BY DEF WriteChunk, device, cursors, object
<1>4. Writing /\ ~Opening /\ ~Writing' /\ Counting' /\ ~Opening' /\ "flushAll" \notin Left("loop")'
  BY <1>0, <1>2 DEF Writing, Counting, Opening, Flushers, ChangeOK
<1>5. name \in Files
  BY <1>0, <1>2 DEF FlushOK, Has, Flushers, SyncInv, SyncTypeOK
<1>6. /\ buf \in Seq(Nat) /\ force \in BOOLEAN /\ n \in 1 .. Len(buf)
      /\ Piece("loop") = SubSeq(buf, 1, n) /\ Piece("loop") \in Seq(Nat) /\ Len(Piece("loop")) = n
  <2>1. n > 0
    BY <1>0, <1>4 DEF FlushOK
  <2>. QED BY <2>1, PieceTypes DEF Piece, SyncInv, Workers
<1>7. sent \in Nat /\ Fetched(name) \in Nat /\ len \in Nat /\ sent + len = Fetched(name)
      /\ buf = Stream!Bytes(sent + 1, len)
  <2>1. Fetched(name) \in Nat
    BY DEF Fetched, SyncInv, SyncTypeOK
  <2>2. sent \in Nat
    BY <1>0, <1>5, SentIsEven
  <2>3. Rest(name) = buf
    BY <1>4 DEF Rest
  <2>. QED BY <1>0, <1>5, <2>1, <2>2, <2>3 DEF RestIsNext
<1>. HIDE DEF n, sent, len, buf, force
<1>8. Len(buf) = len
  BY <1>7, RunTypes
<1>9. Stream!Open(name) /\ \E k \in Nat : sent = 2 * k
  <2>1. Stream!Open(name)
    BY <1>0, <1>5, <1>6, <1>7, <1>8 DEF ShortIsLast, sent
  <2>. QED BY <1>0, <1>5, <2>1, SentIsEven DEF sent
<1>10. n = IF len >= ChunkBytes THEN ChunkBytes ELSE IF force THEN len ELSE 0
  BY <1>6, <1>7, <1>9, CutOfRun DEF n
<1>11. ChunkBytes \in Nat \ {0}
  BY Constants
<1>12. n \in 1 .. len /\ n <= ChunkBytes /\ (n = ChunkBytes \/ (n = len /\ force))
  BY <1>6, <1>7, <1>8, <1>10, <1>11
<1>13. /\ Piece("loop") = Stream!Bytes(sent + 1, n)
       /\ Remainder = Stream!Bytes((sent + 1) + n, len - n)
  <2>1. sent + 1 \in Nat /\ n \in 0 .. len
    BY <1>7, <1>12
  <2>2. /\ SubSeq(Stream!Bytes(sent + 1, len), 1, n) = Stream!Bytes(sent + 1, n)
        /\ SubSeq(Stream!Bytes(sent + 1, len), n + 1, len) = Stream!Bytes((sent + 1) + n, len - n)
    BY <1>7, <2>1, RunCut
  <2>. QED BY <1>6, <1>7, <1>8, <2>2 DEF Remainder, buf
<1>14. /\ Stream!Sent(name)' = sent + n /\ (n = ChunkBytes => Stream!Open(name)')
       /\ \A g \in Files : g # name => /\ Stream!Sent(g)' = Stream!Sent(g)
                                       /\ Stream!Open(g)' = Stream!Open(g)
       /\ cuts' \in [Files -> Seq(Seq(Nat))]
  <2>. SUFFICES ASSUME NEW f \in Files, f = name, name' = f
                PROVE  /\ Stream!Sent(f)' = sent + n /\ (n = ChunkBytes => Stream!Open(f)')
                       /\ \A g \in Files : g # f => /\ Stream!Sent(g)' = Stream!Sent(g)
                                                    /\ Stream!Open(g)' = Stream!Open(g)
                       /\ cuts' \in [Files -> Seq(Seq(Nat))]
    BY <1>3, <1>5
  <2>1. cuts' = [cuts EXCEPT ![f] = Append(@, Piece("loop"))] /\ Stream!Open(f)
    BY <1>3, <1>9
  <2>2. sent = Stream!Sent(f) /\ Len(Piece("loop")) > 0
    BY <1>6 DEF sent
  <2>. QED BY <1>0, <1>6, <2>1, <2>2, OneMore
<1>15. \A f \in Files : Fetched(f)' = Fetched(f)
  BY <1>3 DEF Fetched
<1>16. AloneOK'
  BY <1>0, <1>2, <1>3, <1>14 DEF AloneOK
<1>17. RestIsNext'
  <2>1. ASSUME NEW f \in Files, f # name
        PROVE  /\ Stream!Sent(f)' <= Fetched(f)'
               /\ Rest(f)' = Stream!Bytes(Stream!Sent(f)' + 1, Fetched(f)' - Stream!Sent(f)')
    <3>1. Rest(f)' = Rest(f)
      BY <1>3, <2>1 DEF Rest
    <3>. QED BY <1>0, <1>14, <1>15, <2>1, <3>1 DEF RestIsNext
  <2>2. Rest(name)' = Remainder
    BY <1>3, <1>4 DEF Rest, Remainder, Piece
  <2>3. /\ sent + n <= Fetched(name) /\ (sent + 1) + n = (sent + n) + 1
        /\ len - n = Fetched(name) - (sent + n)
    BY <1>7, <1>12
  <2>4. /\ Stream!Sent(name)' <= Fetched(name)'
        /\ Rest(name)' = Stream!Bytes(Stream!Sent(name)' + 1, Fetched(name)' - Stream!Sent(name)')
    BY <1>3, <1>5, <1>13, <1>14, <1>15, <2>2, <2>3
  <2>. QED BY <1>3, <2>1, <2>4 DEF RestIsNext
<1>18. ShortIsLast'
  <2>1. n = len /\ force => sent + n = Fetched(name) /\ AtEnd(name, Fetched(name))
    BY <1>0, <1>4, <1>7 DEF FlushOK, Forced, Fetched, force
  <2>2. Stream!Open(name)' \/ (Stream!Sent(name)' = Fetched(name)' /\ AtEnd(name, Fetched(name))')
    BY <1>3, <1>5, <1>12, <1>14, <1>15, <2>1 DEF AtEnd
  <2>. QED BY <1>0, <1>3, <1>14, <1>15, <2>2 DEF ShortIsLast, AtEnd
<1>19. FlushOK'
  BY <1>0, <1>3, <1>4, <1>5, Constants DEF FlushOK, Forced, AtEnd
<1>20. ChangeOK'
  BY <1>0, <1>2, <1>3, <1>4 DEF ChangeOK, Has, Flushers
<1>21. Stream!Cut(name)
  <2>1. [f \in Files |-> Fetched(f)]' = [f \in Files |-> Fetched(f)]
    BY <1>15
  <2>2. [f \in Files |-> Fetched(f)][name] = Fetched(name)
    BY <1>5
  <2>3. sent < Fetched(name) /\ sent + n <= Fetched(name) /\ n \in 1 .. ChunkBytes
        /\ (n = ChunkBytes \/ sent + n = Fetched(name))
    BY <1>7, <1>11, <1>12
  <2>. QED BY <1>3, <1>9, <1>13, <2>1, <2>2, <2>3 DEF Stream!Cut, sent
<1>. QED BY <1>5, <1>16, <1>17, <1>18, <1>19, <1>20, <1>21 DEF StreamOK
-----------------------------------------------------------------------------
(* Everything beside the loop.                                             *)
LEMMA BesideStream ==
  ASSUME SyncInv, StreamOK, Left("loop")' = Left("loop"), plan'["stop"] = plan["stop"],
         \A f \in Files : \A off \in Nat : AtEnd(f, off) => AtEnd(f, off)',
         UNCHANGED <<base, running, cuts, name, offset, savedOff, savedPend, pending, job>>
  PROVE  StreamOK' /\ UNCHANGED Stream!stream
<1>0. AloneOK /\ RestIsNext /\ ShortIsLast /\ FlushOK /\ ChangeOK
  BY DEF StreamOK
<1>1. Writing' = Writing /\ Counting' = Counting /\ Opening' = Opening
  BY DEF Writing, Counting, Opening
<1>2. \A f \in Files : Rest(f)' = Rest(f) /\ Fetched(f)' = Fetched(f) /\ Fetched(f) \in Nat
  BY <1>1 DEF Rest, Remainder, Piece, Fetched, SyncInv, SyncTypeOK
<1>3. \A f \in Files : Stream!Sent(f)' = Stream!Sent(f) /\ Stream!Open(f)' = Stream!Open(f)
  BY DEF Stream!Sent, Stream!Open
<1>4. AloneOK' /\ ChangeOK'
  BY <1>0, <1>1 DEF AloneOK, ChangeOK, Has
<1>5. RestIsNext'
  BY <1>0, <1>2, <1>3 DEF RestIsNext
<1>6. ShortIsLast'
  <2>1. ASSUME NEW f \in Files
        PROVE  Stream!Open(f)' \/ (Stream!Sent(f)' = Fetched(f)' /\ AtEnd(f, Fetched(f))')
    <3>1. AtEnd(f, Fetched(f)) => AtEnd(f, Fetched(f))'
      <4>1. PICK off \in Nat : off = Fetched(f) /\ off = Fetched(f)'
        BY <1>2
      <4>2. AtEnd(f, off) => AtEnd(f, off)'
        OBVIOUS
      <4>. QED BY <4>1, <4>2 DEF AtEnd
    <3>. QED BY <1>0, <1>2, <1>3, <3>1 DEF ShortIsLast
  <2>. QED BY <2>1 DEF ShortIsLast
<1>7. FlushOK'
  <2>1. AtEnd(name, offset) /\ name # None => AtEnd(name, offset)'
    <3>1. SUFFICES ASSUME name \in Files, AtEnd(name, offset) PROVE AtEnd(name, offset)'
      BY DEF SyncInv, SyncTypeOK
    <3>2. PICK f \in Files, off \in Nat : f = name /\ off = offset /\ f = name' /\ off = offset'
      BY <3>1 DEF SyncInv, SyncTypeOK
    <3>3. AtEnd(f, off) => AtEnd(f, off)'
      OBVIOUS
    <3>. QED BY <3>1, <3>2, <3>3 DEF AtEnd
  <2>2. Forced' = Forced
    BY <1>1 DEF Forced
  <2>3. Forced => Has("loop", Flushers)
    BY DEF Forced, Writing, Counting, Has, Flushers
  <2>. QED BY <1>0, <1>1, <2>1, <2>2, <2>3 DEF FlushOK, Has
<1>8. UNCHANGED Stream!stream
  BY <1>2 DEF Stream!stream
<1>. QED BY <1>4, <1>5, <1>6, <1>7, <1>8 DEF StreamOK

LEMMA DeviceStream ==
  ASSUME SyncInv, StreamOK, Grow \/ Pause \/ Resume
  PROVE  StreamOK' /\ UNCHANGED Stream!stream
<1>1. /\ Left("loop")' = Left("loop") /\ plan'["stop"] = plan["stop"]
      /\ UNCHANGED <<base, running, cuts, name, offset, savedOff, savedPend, pending, job>>
  BY DEF Grow, Pause, Resume, Left, kept, cursors, object, work, history
<1>2. ASSUME NEW f \in Files, NEW off \in Nat, AtEnd(f, off)
      PROVE  AtEnd(f, off)'
  <2>1. f \in Nat \ {0} /\ latest \in Nat /\ f # current /\ f <= latest /\ off = size[f]
    BY <1>2, Constants DEF AtEnd, SyncInv, SyncTypeOK
  <2>2. CASE Grow
    <3>1. PICK n \in size[current] + 1 .. MaxSize : size' = [size EXCEPT ![current] = n]
      BY <2>2 DEF Grow
    <3>2. size \in [Files -> 0 .. MaxSize]
      BY DEF SyncInv, SyncTypeOK
    <3>3. size'[f] = size[f]
      BY <2>1, <3>1, <3>2
    <3>4. UNCHANGED <<current, latest>>
      BY <2>2 DEF Grow
    <3>. QED BY <2>1, <3>3, <3>4 DEF AtEnd
  <2>3. CASE Pause
    BY <2>1, <2>3 DEF Pause, AtEnd
  <2>4. CASE Resume
    BY <2>1, <2>4 DEF Resume, AtEnd
  <2>. QED BY <2>2, <2>3, <2>4
<1>. QED BY <1>1, <1>2, BesideStream

LEMMA LoopStream ==
  ASSUME SyncInv, CursorsOK, BacklogOK, ClosedOK, StreamOK, Undisturbed, Loop
  PROVE  StreamOK' /\ (Stream!StreamNext \/ UNCHANGED Stream!stream)
<1>1. CASE Shared("loop")
  BY <1>1, FlushStream, WriteStream, CountStream, PersistStream DEF Shared, Stream!StreamNext
<1>2. CASE FetchWindow \/ FetchClosed \/ FetchLegacy
  BY <1>2, FetchWindowStream, FetchClosedStream, FetchLegacyStream DEF Stream!StreamNext
<1>3. CASE Status \/ NextFile \/ Finish \/ LoadCursor \/ LoadPending \/ MarkDone
             \/ MayPersistPending
  BY <1>3, VisitStream, FinishStream, LoadStream, LoadPendingStream, MarkStream
<1>4. CASE Top \/ MoreWindows \/ NextWindow \/ CheckEnd \/ LegacyIsEmpty \/ NoStatus
             \/ DrainThrows \/ ListFails \/ FetchClosedThrows \/ LegacyThrows
             \/ OpenSession \/ ListFiles \/ SkipFile \/ AfterFile \/ CheckShrunk
  BY <1>4, PlainStream
<1>. QED BY <1>1, <1>2, <1>3, <1>4 DEF Loop

LEMMA OthersStream ==
  ASSUME SyncInv, StreamOK, Others, ~Stop, ~Kill, ~ReuseName
  PROVE  StreamOK' /\ UNCHANGED Stream!stream
<1>0. plan["stop"] = << >> /\ running
  BY DEF StreamOK, AloneOK
<1>1. ~Shared("stop") /\ ~CloseSession
  BY <1>0 DEF At, Shared, Flush, WriteChunk, CountChunk, PersistOffset, PersistIndex,
     PersistPending, CloseSession
<1>2. ~Start
  BY <1>0 DEF Start
<1>3. CASE \E chunk \in outbox : Upload(chunk)
  <2>1. /\ Left("loop")' = Left("loop") /\ plan'["stop"] = plan["stop"]
        /\ UNCHANGED <<base, running, cuts, name, offset, savedOff, savedPend, pending, job>>
        /\ UNCHANGED <<size, current, latest>>
    BY <1>3 DEF Upload, Left, device, cursors, object, work, history
  <2>2. \A f \in Files : \A off \in Nat : AtEnd(f, off) => AtEnd(f, off)'
    BY <2>1 DEF AtEnd
  <2>. QED BY <2>1, <2>2, BesideStream
<1>4. CASE Grow \/ Pause \/ Resume
  BY <1>4, DeviceStream
<1>. QED BY <1>1, <1>2, <1>3, <1>4 DEF Others

LEMMA DisturbancesCounted ==
  ASSUME SyncInv, SyncNext, Undisturbed'
  PROVE  Undisturbed /\ faults.format = 0 /\ ~Stop /\ ~Kill /\ ~ReuseName
<1>1. /\ {"kill", "stop", "format"} \subseteq Faults /\ faults \in [Faults -> Nat]
      /\ faults' \in [Faults -> Nat]
  BY NextInv DEF Faults, SyncInv, FaultsOK
<1>2. \A k \in Faults : faults'[k] >= faults[k]
  BY FormatsCounted
<1>3. Undisturbed /\ faults.format = 0
  BY <1>1, <1>2 DEF Undisturbed
<1>4. \A k \in {"kill", "stop", "format"} : ~Fault(k)
  BY <1>1, <1>3 DEF Fault, Undisturbed
<1>. QED BY <1>3, <1>4 DEF Stop, Kill, ReuseName

LEMMA StreamStep ==
  ASSUME SyncInv, DoneInv, StreamInv, [SyncNext]_vars, Undisturbed'
  PROVE  StreamOK' /\ (Stream!StreamNext \/ UNCHANGED Stream!stream)
<1>1. CASE SyncNext
  <2>1. Undisturbed /\ faults.format = 0 /\ ~Stop /\ ~Kill /\ ~ReuseName
    BY <1>1, DisturbancesCounted
  <2>2. CursorsOK /\ BacklogOK /\ ClosedOK /\ StreamOK
    BY <2>1 DEF DoneInv, StreamInv
  <2>. QED BY <1>1, <2>1, <2>2, LoopStream, OthersStream DEF SyncNext
<1>2. CASE UNCHANGED vars
  <2>1. /\ Left("loop")' = Left("loop") /\ plan'["stop"] = plan["stop"]
        /\ UNCHANGED <<base, running, cuts, name, offset, savedOff, savedPend, pending, job>>
        /\ UNCHANGED <<size, current, latest, faults>>
    BY <1>2 DEF vars, Left, device, kept, cursors, object, work, history
  <2>2. \A f \in Files : \A off \in Nat : AtEnd(f, off) => AtEnd(f, off)'
    BY <2>1 DEF AtEnd
  <2>3. StreamOK
    BY <2>1 DEF StreamInv, Undisturbed
  <2>. QED BY <2>1, <2>2, <2>3, BesideStream
<1>. QED BY <1>1, <1>2

LEMMA InitStream == SyncInit => StreamInv /\ Stream!StreamInit
<1>. SUFFICES ASSUME SyncInit PROVE StreamOK /\ Stream!StreamInit
  BY DEF StreamInv
<1>1. Left("loop") = {"top"}
  BY SingleInOrder DEF SyncInit, Left, Workers, Steps, Alone
<1>2. ~Writing /\ ~Counting /\ ~Opening
  BY <1>1 DEF Writing, Counting, Opening
<1>3. \A f \in Files : /\ Fetched(f) = 0 /\ Rest(f) = << >>
                       /\ Stream!Sent(f) = 0 /\ Stream!Open(f)
  <2>1. ASSUME NEW f \in Files PROVE cuts[f] = << >> /\ savedPend[f] = << >> /\ name # f /\ savedOff[f] = 0
    BY Constants DEF SyncInit
  <2>2. ChunkBytes * 0 = 0
    BY Constants
  <2>. QED BY <1>2, <2>1, <2>2 DEF Fetched, Rest, Stream!Sent, Stream!Open
<1>4. RestIsNext
  <2>1. Stream!Bytes(0 + 1, 0 - 0) = << >>
    BY RunTypes
  <2>. QED BY <1>3, <2>1 DEF RestIsNext
<1>5. AloneOK
  <2>1. << >> \in Seq(Seq(Nat))
    OBVIOUS
  <2>. QED BY <2>1 DEF SyncInit, AloneOK, Workers
<1>6. ShortIsLast /\ FlushOK /\ ChangeOK
  BY <1>1, <1>2, <1>3 DEF ShortIsLast, FlushOK, Forced, Has, Flushers, ChangeOK
<1>7. Stream!StreamInit
  BY <1>3 DEF SyncInit, Stream!StreamInit
<1>. QED BY <1>4, <1>5, <1>6, <1>7 DEF StreamOK

(* Undisturbed by kills, stops and formats, the sync implements            *)
(* ChunkStream: every recording is fetched in order and leaves in full     *)
(* chunks, each byte once, across changes of file, failed requests and     *)
(* pauses of the device, whatever the sizes of chunk, window and pass.     *)
THEOREM SyncImplementsStream == SyncSpec => StreamWhileUndisturbed
<1>1. SyncInit => SyncInv /\ DoneInv /\ StreamInv /\ Stream!StreamInit
  BY InitInv, InitDone, InitStream
<1>2. SyncInv /\ DoneInv /\ StreamInv /\ [SyncNext]_vars
        => (SyncInv /\ DoneInv /\ StreamInv)'
  BY NextInv, NextDone, StreamStep DEF StreamInv
<1>3. SyncInv /\ DoneInv /\ StreamInv /\ [SyncNext]_vars
        => [Undisturbed' => Stream!StreamNext]_(Stream!stream)
  BY StreamStep
<1>. QED BY <1>1, <1>2, <1>3, PTL DEF SyncSpec, StreamWhileUndisturbed

-----------------------------------------------------------------------------
(* What a kill costs.  A recording may owe bytes: those that are lost, and *)
(* those that will be.  A chunk in the outbox from the index on which the  *)
(* cursor is at will be overwritten (`Stale`); a chunk whose name and size *)
(* one on Drive has will be dropped (`Clash`).  Of these only the index    *)
(* and the size count.                                                     *)
Sizes(files, f) == {<<c[1][2], Len(c[2])>> : c \in {d \in files : d[1][1] = f}}

Pairs     == Nat \X Nat
Tokens(S) == UNION {{s} \X (1 .. s[2]) : s \in S}
Weight(S) == Cardinality(Tokens(S))

LEMMA TokensAre ==
  ASSUME NEW S \in SUBSET Pairs, NEW T \in SUBSET Pairs
  PROVE  /\ Tokens({}) = {} /\ Tokens(S \cup T) = Tokens(S) \cup Tokens(T)
         /\ S \subseteq T => Tokens(S) \subseteq Tokens(T)
         /\ S \cap T = {} => Tokens(S) \cap Tokens(T) = {}
         /\ \A s \in Pairs : Tokens({s}) = {s} \X (1 .. s[2])
BY DEF Tokens

LEMMA WeightType ==
  ASSUME NEW S \in SUBSET Pairs, IsFiniteSet(S)
  PROVE  IsFiniteSet(Tokens(S)) /\ Weight(S) \in Nat
<1>. DEFINE T == {{s} \X (1 .. s[2]) : s \in S}
            f == [s \in S |-> {s} \X (1 .. s[2])]
<1>1. f \in Surjection(S, T)
  BY DEF Surjection
<1>2. IsFiniteSet(T)
  <2>. HIDE DEF T, f
  <2>. QED BY <1>1, FS_Surjection
<1>3. ASSUME NEW t \in T PROVE IsFiniteSet(t)
  <2>1. PICK s \in S : t = {s} \X (1 .. s[2])
    OBVIOUS
  <2>2. 1 \in Int /\ s[2] \in Int
    BY DEF Pairs
  <2>3. IsFiniteSet({s}) /\ IsFiniteSet(1 .. s[2])
    BY <2>2, FS_Singleton, FS_Interval
  <2>. QED BY <2>1, <2>3, FS_Product
<1>4. IsFiniteSet(UNION T)
  <2>. HIDE DEF T
  <2>. QED BY <1>2, <1>3, FS_UNION
<1>5. IsFiniteSet(Tokens(S))
  BY <1>4 DEF Tokens
<1>. QED BY <1>5, FS_CardinalityType DEF Weight

LEMMA WeightOfNone == Weight({}) = 0
BY FS_EmptySet, TokensAre DEF Weight, Pairs

LEMMA WeightOfOne ==
  ASSUME NEW s \in Pairs
  PROVE  Weight({s}) = s[2] /\ IsFiniteSet({s}) /\ {s} \in SUBSET Pairs
<1>. DEFINE n == s[2]
<1>1. n \in Nat /\ n \in Int /\ 1 \in Int
  BY DEF Pairs
<1>2. Tokens({s}) = {s} \X (1 .. n)
  BY DEF Tokens
<1>. HIDE DEF n
<1>3. IsFiniteSet(1 .. n) /\ Cardinality(1 .. n) = n
  <2>1. IsFiniteSet(1 .. n) /\ Cardinality(1 .. n) = IF 1 > n THEN 0 ELSE n - 1 + 1
    BY <1>1, FS_Interval
  <2>. QED BY <1>1, <2>1
<1>4. IsFiniteSet({s}) /\ Cardinality({s}) = 1
  BY FS_Singleton
<1>5. Cardinality({s} \X (1 .. n)) = 1 * n
  <2>1. PICK S : S = {s}
    OBVIOUS
  <2>2. PICK T : T = 1 .. n
    OBVIOUS
  <2>3. Cardinality(S \X T) = Cardinality(S) * Cardinality(T)
    BY <1>3, <1>4, <2>1, <2>2, FS_Product
  <2>. QED BY <1>3, <1>4, <2>1, <2>2, <2>3
<1>6. Weight({s}) = n
  BY <1>1, <1>2, <1>5 DEF Weight
<1>. QED BY <1>4, <1>6 DEF n

LEMMA WeightGrows ==
  ASSUME NEW T \in SUBSET Pairs, IsFiniteSet(T), NEW S \in SUBSET T
  PROVE  Weight(S) <= Weight(T) /\ IsFiniteSet(S) /\ S \in SUBSET Pairs
         /\ Weight(S) \in Nat /\ Weight(T) \in Nat
<1>1. S \in SUBSET Pairs /\ IsFiniteSet(S)
  BY FS_Subset
<1>2. Tokens(S) \subseteq Tokens(T) /\ IsFiniteSet(Tokens(T))
  BY <1>1, TokensAre, WeightType
<1>3. Weight(S) <= Weight(T)
  BY <1>2, FS_Subset DEF Weight
<1>. QED BY <1>1, <1>3, WeightType

LEMMA WeightOfUnion ==
  ASSUME NEW S \in SUBSET Pairs, IsFiniteSet(S), NEW T \in SUBSET Pairs, IsFiniteSet(T)
  PROVE  /\ IsFiniteSet(S \cup T) /\ S \cup T \in SUBSET Pairs
         /\ Weight(S \cup T) \in Nat /\ Weight(S) \in Nat /\ Weight(T) \in Nat
         /\ Weight(S \cup T) <= Weight(S) + Weight(T)
         /\ S \cap T = {} => Weight(S \cup T) = Weight(S) + Weight(T)
<1>1. /\ IsFiniteSet(Tokens(S)) /\ IsFiniteSet(Tokens(T))
      /\ Weight(S) \in Nat /\ Weight(T) \in Nat
  BY WeightType
<1>2. IsFiniteSet(S \cup T) /\ S \cup T \in SUBSET Pairs
  BY FS_Union
<1>3. Weight(S \cup T) \in Nat
  BY <1>2, WeightType
<1>4. Tokens(S \cup T) = Tokens(S) \cup Tokens(T)
  BY TokensAre
<1>5. Weight(S \cup T) = Weight(S) + Weight(T) - Cardinality(Tokens(S) \cap Tokens(T))
  BY <1>1, <1>4, FS_Union DEF Weight
<1>6. Cardinality(Tokens(S) \cap Tokens(T)) \in Nat
  BY <1>1, FS_Intersection, FS_CardinalityType
<1>7. S \cap T = {} => Cardinality(Tokens(S) \cap Tokens(T)) = 0
  BY TokensAre, FS_EmptySet
<1>. QED BY <1>1, <1>2, <1>3, <1>5, <1>6, <1>7

LEMMA WeightWithout ==
  ASSUME NEW S \in SUBSET Pairs, IsFiniteSet(S), NEW s \in S
  PROVE  /\ Weight(S \ {s}) + s[2] = Weight(S) /\ Weight(S \ {s}) \in Nat /\ s[2] \in Nat
         /\ IsFiniteSet(S \ {s}) /\ S \ {s} \in SUBSET Pairs
<1>1. s \in Pairs /\ s[2] \in Nat
  BY DEF Pairs
<1>2. IsFiniteSet(S \ {s}) /\ S \ {s} \in SUBSET Pairs
  BY FS_RemoveElement
<1>3. Weight({s}) = s[2] /\ IsFiniteSet({s}) /\ {s} \in SUBSET Pairs
  BY <1>1, WeightOfOne
<1>4. (S \ {s}) \cup {s} = S /\ (S \ {s}) \cap {s} = {}
  OBVIOUS
<1>5. Weight((S \ {s}) \cup {s}) = Weight(S \ {s}) + Weight({s}) /\ Weight(S \ {s}) \in Nat
  BY <1>2, <1>3, <1>4, WeightOfUnion
<1>. QED BY <1>1, <1>2, <1>3, <1>4, <1>5

LEMMA SizeOfRange ==
  ASSUME NEW s \in Seq(Nat)
  PROVE  IsFiniteSet(ToSet(s)) /\ Cardinality(ToSet(s)) <= Len(s)
         /\ Cardinality(ToSet(s)) \in Nat /\ Len(s) \in Nat
<1>. DEFINE n == Len(s)
            f == [i \in 1 .. n |-> s[i]]
<1>1. n \in Nat /\ DOMAIN s = 1 .. n
  OBVIOUS
<1>2. f \in Surjection(1 .. n, ToSet(s))
  BY <1>1 DEF Surjection, ToSet
<1>. HIDE DEF n, f
<1>3. IsFiniteSet(1 .. n) /\ Cardinality(1 .. n) = n
  BY <1>1, FS_Interval
<1>4. IsFiniteSet(ToSet(s)) /\ Cardinality(ToSet(s)) <= n
  BY <1>2, <1>3, FS_Surjection
<1>. QED BY <1>1, <1>4, FS_CardinalityType DEF n

LEMMA SizeOfMore ==
  ASSUME NEW S, IsFiniteSet(S), NEW T, IsFiniteSet(T), NEW R \in SUBSET (S \cup T)
  PROVE  /\ Cardinality(R) <= Cardinality(S) + Cardinality(T)
         /\ Cardinality(R) \in Nat /\ Cardinality(S) \in Nat /\ Cardinality(T) \in Nat
<1>1. IsFiniteSet(S \cup T)
      /\ Cardinality(S \cup T) = Cardinality(S) + Cardinality(T) - Cardinality(S \cap T)
  BY FS_Union
<1>2. Cardinality(S \cap T) \in Nat /\ Cardinality(S) \in Nat /\ Cardinality(T) \in Nat
  BY FS_Intersection, FS_CardinalityType
<1>3. IsFiniteSet(R) /\ Cardinality(R) <= Cardinality(S \cup T)
  BY <1>1, FS_Subset
<1>. QED BY <1>1, <1>2, <1>3, FS_CardinalityType
-----------------------------------------------------------------------------
(* What is left when nothing can be cut off is less than the longest       *)
(* chunk.                                                                  *)
LongestRecord == 1 + IF Garbage > 1 THEN Garbage ELSE 1

LEMMA Longest ==
  /\ LongestRecord \in Nat \ {0} /\ LongestChunk \in Nat \ {0}
  /\ LongestChunk = FramesPerChunk * LongestRecord
  /\ Window \in Nat \ {0}
  /\ LongestChunk - 1 + 2 * Window \in Nat
<1>1. LongestRecord \in Nat \ {0} /\ FramesPerChunk \in Nat \ {0} /\ Window \in Nat \ {0}
  BY SyncAssumption DEF LongestRecord
<1>2. LongestChunk = FramesPerChunk * LongestRecord
  BY DEF LongestChunk, LongestRecord
<1>3. \A a \in Nat \ {0}, b \in Nat \ {0} : a * b \in Nat \ {0}
  OBVIOUS
<1>4. LongestChunk \in Nat \ {0}
  BY <1>1, <1>2, <1>3
<1>. QED BY <1>1, <1>2, <1>4

LEMMA RecordIsShort ==
  ASSUME NEW buf \in Seq(Nat), NEW pos \in Nat, pos <= Len(buf)
  PROVE  \/ RecordEnd(buf, pos) = -1 /\ Len(buf) < pos + LongestRecord
         \/ RecordEnd(buf, pos) \in 0 .. pos + LongestRecord /\ RecordEnd(buf, pos) <= Len(buf)
<1>1. LongestRecord \in Nat \ {0} /\ Len(buf) \in Nat
  BY Longest
<1>2. CASE pos >= Len(buf)
  BY <1>1, <1>2 DEF RecordEnd
<1>3. CASE pos < Len(buf)
  <2>1. LengthByte(buf[pos + 1]) \in Nat /\ 1 + LengthByte(buf[pos + 1]) <= LongestRecord
    BY <1>3, SyncAssumption DEF LengthByte, LongestRecord
  <2>2. PICK b \in Nat : b = LengthByte(buf[pos + 1])
    BY <2>1
  <2>3. RecordEnd(buf, pos) = IF pos + 1 + b > Len(buf) THEN -1 ELSE pos + 1 + b
    BY <1>1, <1>3, <2>2 DEF RecordEnd
  <2>4. 1 + b <= LongestRecord
    BY <2>1, <2>2
  <2>5. CASE pos + 1 + b > Len(buf)
    BY <1>1, <2>3, <2>4, <2>5
  <2>6. CASE ~(pos + 1 + b > Len(buf))
    BY <1>1, <2>3, <2>4, <2>6
  <2>. QED BY <2>5, <2>6
<1>. QED BY <1>1, <1>2, <1>3

LEMMA LeftIsShort ==
  ASSUME NEW buf \in Seq(Nat), NEW force \in BOOLEAN, ~(NextCut(buf, force) > 0)
  PROVE  Len(buf) <= LongestChunk - 1
<1>. DEFINE r == LongestRecord
            F == FramesPerChunk
<1>0. r \in Nat \ {0} /\ F \in Nat \ {0} /\ Len(buf) \in Nat /\ LongestChunk = F * r
  BY Longest, SyncAssumption
<1>1. Boundary(buf) = -1 \/ Boundary(buf) \in 1 .. Len(buf)
  BY BoundaryRange
<1>2. Boundary(buf) = -1
  BY <1>0, <1>1 DEF NextCut
<1>3. PICK end : /\ Boundary(buf) = end[FramesPerChunk] /\ end[0] = 0
                 /\ \A j \in 1 .. FramesPerChunk : end[j] = RecordEnd(buf, end[j - 1])
  BY BoundaryIsAnEnd
<1>. HIDE DEF r
<1>. DEFINE Good(n) == \/ end[n] = -1 /\ Len(buf) < n * r
                       \/ end[n] \in 0 .. n * r /\ end[n] <= Len(buf)
            S == {n \in Nat : n \in 0 .. FramesPerChunk => Good(n)}
<1>4. \A n \in Nat : n * r \in Nat /\ (n + 1) * r = n * r + r
  <2>1. \A n \in Nat, k \in Nat : n * k \in Nat /\ (n + 1) * k = n * k + k
    OBVIOUS
  <2>. QED BY <1>0, <2>1
<1>5. 0 \in S
  <2>1. 0 * r = 0
    BY <1>0
  <2>. QED BY <1>0, <1>3, <2>1
<1>6. ASSUME NEW n \in S, n + 1 \in 0 .. FramesPerChunk PROVE Good(n + 1)
  <2>1. end[n + 1] = RecordEnd(buf, end[n])
    BY <1>3, <1>6
  <2>2. n \in Nat /\ Good(n)
    BY <1>0, <1>6
  <2>. DEFINE m == n * r
              e == end[n]
  <2>3. m \in Nat /\ (n + 1) * r = m + r
    BY <1>4, <2>2
  <2>4. (e = -1 /\ Len(buf) < m) \/ (e \in 0 .. m /\ e <= Len(buf))
    BY <2>2
  <2>5. end[n + 1] = RecordEnd(buf, e)
    BY <2>1
  <2>. HIDE DEF m, e
  <2>6. CASE e = -1 /\ Len(buf) < m
    <3>1. end[n + 1] = -1 /\ Len(buf) < (n + 1) * r
      BY <1>0, <2>3, <2>5, <2>6 DEF RecordEnd
    <3>. QED BY <3>1
  <2>7. CASE e \in 0 .. m /\ e <= Len(buf)
    <3>1. e \in Nat
      BY <2>3, <2>7
    <3>2. \/ RecordEnd(buf, e) = -1 /\ Len(buf) < e + r
          \/ RecordEnd(buf, e) \in 0 .. e + r /\ RecordEnd(buf, e) <= Len(buf)
      BY <2>7, <3>1, RecordIsShort DEF r
    <3>3. \/ end[n + 1] = -1 /\ Len(buf) < m + r
          \/ end[n + 1] \in 0 .. m + r /\ end[n + 1] <= Len(buf)
      BY <1>0, <2>3, <2>5, <2>7, <3>1, <3>2
    <3>. QED BY <2>3, <3>3
  <2>. QED BY <2>4, <2>6, <2>7
<1>7. \A n \in S : n + 1 \in S
  BY <1>6
<1>. HIDE DEF Good, S
<1>8. FramesPerChunk \in S
  BY <1>5, <1>7, AllNumbers, SyncAssumption DEF S
<1>9. Len(buf) < F * r
  BY <1>0, <1>2, <1>3, <1>8, SyncAssumption DEF S, Good
<1>10. F * r \in Nat
  BY <1>0, <1>4
<1>. QED BY <1>0, <1>9, <1>10
-----------------------------------------------------------------------------
(* Where the cursor of f is; the positions that are still somewhere; and   *)
(* what is owed.  `own` are the chunks of the open recording cut since its *)
(* index was saved: a kill leaves them where the index will pass again.    *)
Index(f) == IF name # f THEN savedCi[f] ELSE IF Counting THEN chunkIndex + 1 ELSE chunkIndex

Present(f) ==
    (UNION {ToSet(c[2]) : c \in {d \in outbox \cup drive : d[1][1] = f}}) \cup ToSet(Rest(f))

Lost(f)  == {p \in 1 .. Fetched(f) : p \notin Present(f)}
Stale(f) == {s \in Sizes(outbox, f) : s[1] >= Index(f)}
Clash(f, own) ==
    {s \in Sizes(drive, f) : \/ s \in Sizes(outbox, f)
                             \/ s[1] >= savedCi[f] /\ (f = name => s \notin own)}

LossOfKill == LongestChunk - 1 + 2 * Window

DebtOK(f, own) ==
    Cardinality(Lost(f)) + Weight(Stale(f)) + Weight(Clash(f, own)) <= faults.kill * LossOfKill

OwnOK(own) ==
    /\ own \in SUBSET Pairs /\ IsFiniteSet(own)
    /\ name \notin Named => own = {}
    /\ \A s \in own : savedCi[name] <= s[1] /\ s[1] < Index(name)
    /\ name \in Named =>
          /\ \A s \in Sizes(outbox, name) : savedCi[name] <= s[1] /\ s[1] < Index(name) => s \in own
          /\ Weight(own) + Len(Rest(name))
                <= LongestChunk - 1 + IF "ci" \in Left("loop") THEN 2 * Window ELSE Window

DebtsOK == \E own : OwnOK(own) /\ \A f \in Named : DebtOK(f, own)

(* The chunk files: of each name there is one in the outbox.               *)
ChunksOK ==
    /\ outbox \in SUBSET (((Files \cup {None}) \X Nat) \X Seq(Nat)) /\ IsFiniteSet(outbox)
    /\ drive \in SUBSET (((Files \cup {None}) \X Nat) \X Seq(Nat)) /\ IsFiniteSet(drive)
    /\ \A c, d \in outbox : c[1] = d[1] => c = d

(* _flushPending is not interrupted by the loop's other steps, and cuts    *)
(* from the bytes that are pending.                                        *)
CutOK ==
    /\ Has("loop", Flushers) => name # None
    /\ Writing \/ Counting \/ ("load" \in Left("loop") /\ Has("loop", Flushers))
          => \E x \in Flushers : At("loop", x)
    /\ Writing \/ Counting => /\ NextCut(job["loop"].buf, job["loop"].force) > 0
                              /\ ToSet(job["loop"].buf) \subseteq ToSet(pending)
    /\ Writing => \E now \in Nat : job["loop"].target = ChunkName(chunkIndex, now)

FlowOK ==
    /\ plan["stop"] = << >> /\ (~running => name = None /\ plan["loop"] = << >>)
    /\ ChangeOK
    /\ "load" \in Left("loop") /\ name # None /\ "ci" \notin Left("loop")
          => savedCi[name] = chunkIndex /\ ~Has("loop", Flushers)

(* The cursors of the epoch-named recordings; a format does not touch them.*)
NamedOK ==
    \A f \in Named :
        /\ base[f] = 0 /\ savedOff[f] <= size[f]
        /\ name = f => /\ savedOff[f] <= offset /\ offset <= size[f]
                       /\ savedCi[f] <= chunkIndex
        /\ "shrunk" \in Left("loop") /\ f = Head(todo) => Fetched(f) <= committed

(* What is not in a chunk yet: less than a chunk and a window.             *)
RestOK ==
    /\ \A f \in Named : Len(savedPend[f]) <= LongestChunk - 1
    /\ name \in Named =>
          Len(Rest(name)) <= LongestChunk - 1 + IF Has("loop", Flushers) THEN Window ELSE 0

LossOK  == ChunksOK /\ CutOK /\ FlowOK /\ NamedOK /\ RestOK
LossInv == faults.stop = 0 /\ ~legacy => LossOK /\ DebtsOK
-----------------------------------------------------------------------------
LEMMA SizesAre ==
  ASSUME NEW files \in SUBSET (((Files \cup {None}) \X Nat) \X Seq(Nat)), IsFiniteSet(files),
         NEW f
  PROVE  /\ Sizes(files, f) \in SUBSET Pairs /\ IsFiniteSet(Sizes(files, f))
         /\ \A T \in SUBSET Sizes(files, f) : T \in SUBSET Pairs /\ IsFiniteSet(T)
<1>. DEFINE g == [c \in {d \in files : d[1][1] = f} |-> <<c[1][2], Len(c[2])>>]
            D == {d \in files : d[1][1] = f}
<1>1. g \in Surjection(D, Sizes(files, f))
  BY DEF Surjection, Sizes
<1>2. IsFiniteSet(D)
  BY FS_Subset
<1>. HIDE DEF g, D
<1>3. IsFiniteSet(Sizes(files, f))
  BY <1>1, <1>2, FS_Surjection
<1>4. Sizes(files, f) \in SUBSET Pairs
  BY DEF Sizes, Pairs
<1>. QED BY <1>3, <1>4, FS_Subset

LEMMA DebtTypes ==
  ASSUME SyncInv, ChunksOK, NEW f \in Named, NEW own
  PROVE  /\ Stale(f) \in SUBSET Pairs /\ IsFiniteSet(Stale(f)) /\ Weight(Stale(f)) \in Nat
         /\ Clash(f, own) \in SUBSET Pairs /\ IsFiniteSet(Clash(f, own))
         /\ Weight(Clash(f, own)) \in Nat
         /\ IsFiniteSet(Lost(f)) /\ Cardinality(Lost(f)) \in Nat
         /\ Fetched(f) \in Nat
<1>0. f \in Files
  BY SyncAssumption
<1>1. Stale(f) \in SUBSET Sizes(outbox, f) /\ Clash(f, own) \in SUBSET Sizes(drive, f)
  BY DEF Stale, Clash
<1>2. /\ Stale(f) \in SUBSET Pairs /\ IsFiniteSet(Stale(f))
      /\ Clash(f, own) \in SUBSET Pairs /\ IsFiniteSet(Clash(f, own))
  <2>1. Stale(f) \in SUBSET Pairs /\ IsFiniteSet(Stale(f))
    BY <1>1, SizesAre DEF ChunksOK
  <2>2. Clash(f, own) \in SUBSET Pairs /\ IsFiniteSet(Clash(f, own))
    BY <1>1, SizesAre DEF ChunksOK
  <2>. QED BY <2>1, <2>2
<1>3. Weight(Stale(f)) \in Nat /\ Weight(Clash(f, own)) \in Nat
  BY <1>2, WeightType
<1>4. Fetched(f) \in Nat
  BY <1>0 DEF Fetched, SyncInv, SyncTypeOK
<1>5. IsFiniteSet(1 .. Fetched(f)) /\ Lost(f) \in SUBSET (1 .. Fetched(f))
  <2>1. Fetched(f) \in Int /\ 1 \in Int
    BY <1>4
  <2>. QED BY <2>1, FS_Interval DEF Lost
<1>6. IsFiniteSet(Lost(f)) /\ Cardinality(Lost(f)) \in Nat
  BY <1>5, FS_Subset, FS_CardinalityType
<1>. QED BY <1>2, <1>3, <1>4, <1>6

LEMMA BoundIsNat ==
  ASSUME SyncInv
  PROVE  faults.kill \in Nat /\ LossOfKill \in Nat /\ faults.kill * LossOfKill \in Nat
<1>1. faults.kill \in Nat
  BY DEF SyncInv, FaultsOK, Faults
<1>. QED BY <1>1, Longest, Products DEF LossOfKill

(* What is owed bounds what is missing.                                    *)
LEMMA OwedIsBounded ==
  ASSUME SyncInv, LossInv
  PROVE  BoundedKillLoss
<1>. SUFFICES ASSUME LossOK, DebtsOK, NEW f \in Named
              PROVE  Cardinality(Missing(f)) <= faults.kill * (LongestChunk - 1 + 2 * Window)
  BY DEF LossInv, BoundedKillLoss
<1>1. PICK own : DebtOK(f, own)
  BY DEF DebtsOK
<1>2. f \in Files /\ f # None
  BY SyncAssumption, Constants
<1>3. Opening => Loading
  <2>. SUFFICES ASSUME Opening PROVE Loading
    OBVIOUS
  <2>1. "fill" \in Left("loop") /\ Left("loop") \subseteq {"empty", "fill", "shrunk", "window"}
    BY DEF LossOK, FlowOK, ChangeOK, Opening
  <2>2. /\ plan["loop"] # << >> /\ Head(plan["loop"]) \in Left("loop")
        /\ Left("loop") \ {Head(plan["loop"])} \subseteq After(Head(plan["loop"]))
    <3>1. plan["loop"] \in Seq(Steps) /\ InOrder(plan["loop"])
      BY DEF SyncInv, PlanOK, Workers
    <3>2. plan["loop"] # << >>
      BY <2>1 DEF Left, ToSet
    <3>. QED BY <3>1, <3>2, TailInOrder DEF Left
  <2>3. After("shrunk") = {} /\ After("window") = {}
    BY AfterIs DEF Alone
  <2>4. Head(plan["loop"]) \in {"empty", "fill"}
    BY <2>1, <2>2, <2>3
  <2>. QED BY <2>2, <2>4 DEF Loading, At
<1>4. ToSet(Rest(f)) \subseteq (IF name = f THEN ToSet(pending) ELSE {})
                               \cup (IF name = f /\ ~Loading THEN {} ELSE ToSet(savedPend[f]))
  <2>1. CASE name # f \/ Opening
    BY <1>3, <2>1 DEF Rest
  <2>2. CASE name = f /\ ~Opening /\ Writing
    BY <2>2 DEF Rest, LossOK, CutOK
  <2>3. CASE name = f /\ ~Opening /\ ~Writing /\ Counting
    <3>1. /\ job["loop"].buf \in Seq(Nat) /\ Remainder \in Seq(Nat)
          /\ Len(Piece("loop")) \in Nat /\ Len(Piece("loop")) <= Len(job["loop"].buf)
      BY PieceTypes DEF Remainder, SyncInv, Workers
    <3>. DEFINE buf == job["loop"].buf
                n   == Len(Piece("loop"))
    <3>2. Remainder = SubSeq(buf, n + 1, Len(buf)) /\ buf \in Seq(Nat) /\ n \in Nat
          /\ n <= Len(buf)
      BY <3>1 DEF Remainder
    <3>3. ToSet(buf) \subseteq ToSet(pending)
      BY <2>3 DEF LossOK, CutOK
    <3>. HIDE DEF buf, n
    <3>4. ToSet(SubSeq(buf, n + 1, Len(buf))) \subseteq ToSet(buf)
      BY <3>2 DEF ToSet
    <3>. QED BY <2>3, <3>2, <3>3, <3>4 DEF Rest
  <2>4. CASE name = f /\ ~Opening /\ ~Writing /\ ~Counting
    BY <2>4 DEF Rest
  <2>. QED BY <2>1, <2>2, <2>3, <2>4
<1>5. Prefix(f) = f /\ base[f] = 0 /\ Fetched(f) \in Nat
  BY DebtTypes DEF Prefix, LossOK, NamedOK
<1>6. Present(f) \subseteq Held(f)
  BY <1>4, <1>5 DEF Present, Held
<1>7. Missing(f) \subseteq Lost(f)
  <2>1. ASSUME NEW p \in 1 .. Fetched(f), base[f] + p \notin Held(f) PROVE p \notin Present(f)
    BY <1>5, <1>6, <2>1
  <2>. QED BY <2>1 DEF Missing, Lost
<1>8. /\ IsFiniteSet(Lost(f)) /\ Cardinality(Lost(f)) \in Nat
      /\ Weight(Stale(f)) \in Nat /\ Weight(Clash(f, own)) \in Nat
  BY DebtTypes DEF LossOK
<1>9. Cardinality(Missing(f)) <= Cardinality(Lost(f)) /\ Cardinality(Missing(f)) \in Nat
  BY <1>7, <1>8, FS_Subset, FS_CardinalityType
<1>. DEFINE bound == faults.kill * (LongestChunk - 1 + 2 * Window)
<1>10. Cardinality(Lost(f)) + Weight(Stale(f)) + Weight(Clash(f, own)) <= bound
  BY <1>1 DEF DebtOK, LossOfKill
<1>11. bound \in Nat
  <2>1. faults.kill \in Nat
    BY DEF SyncInv, FaultsOK, Faults
  <2>. QED BY <2>1, Longest, Products
<1>. HIDE DEF bound
<1>12. Cardinality(Missing(f)) <= bound
  BY <1>8, <1>9, <1>10, <1>11
<1>. QED BY <1>12 DEF bound
-----------------------------------------------------------------------------
LEMMA RestType ==
  ASSUME SyncInv, NEW f \in Files
  PROVE  Rest(f) \in Seq(Nat) /\ Len(Rest(f)) \in Nat
<1>1. savedPend[f] \in Seq(Nat) /\ pending \in Seq(Nat)
  BY DEF SyncInv, SyncTypeOK
<1>2. job["loop"].buf \in Seq(Nat) /\ Remainder \in Seq(Nat)
  BY PieceTypes DEF Remainder, SyncInv, Workers
<1>3. Rest(f) \in Seq(Nat)
  BY <1>1, <1>2 DEF Rest
<1>. QED BY <1>3

(* A step that leaves the chunk files, the saved indexes and what is       *)
(* fetched and not in a chunk as they are.                                 *)
LEMMA DebtsStay ==
  ASSUME SyncInv, DebtsOK, UNCHANGED <<outbox, drive, savedCi, name>>, faults'.kill = faults.kill,
         \A f \in Named : Rest(f)' = Rest(f) /\ Fetched(f)' = Fetched(f) /\ Index(f)' = Index(f),
         "ci" \in Left("loop") => "ci" \in Left("loop")'
  PROVE  DebtsOK'
<1>1. PICK own : OwnOK(own) /\ \A f \in Named : DebtOK(f, own)
  BY DEF DebtsOK
<1>2. ASSUME NEW f \in Named PROVE DebtOK(f, own)'
  <2>1. Stale(f)' = Stale(f)
    BY DEF Stale
  <2>2. Clash(f, own)' = Clash(f, own)
    BY DEF Clash
  <2>3. Lost(f)' = Lost(f)
    BY DEF Lost, Present
  <2>. QED BY <1>1, <2>1, <2>2, <2>3 DEF DebtOK
<1>3. OwnOK(own)'
  <2>1. CASE name \in Named
    <3>1. Rest(name)' = Rest(name) /\ Index(name)' = Index(name)
      <4>1. PICK f \in Named : f = name /\ f = name'
        BY <2>1
      <4>2. Rest(name)' = Rest(f)' /\ Index(name)' = Index(f)'
        BY <4>1 DEF Rest, Index
      <4>. QED BY <4>1, <4>2
    <3>2. \A s \in own : savedCi'[name'] <= s[1] /\ s[1] < Index(name)'
      BY <1>1, <3>1 DEF OwnOK
    <3>3. \A s \in Sizes(outbox', name') : savedCi'[name'] <= s[1] /\ s[1] < Index(name)' => s \in own
      BY <1>1, <2>1, <3>1 DEF OwnOK
    <3>4. Weight(own) + Len(Rest(name)')
                <= LongestChunk - 1 + IF "ci" \in Left("loop")' THEN 2 * Window ELSE Window
      <4>. DEFINE w == Weight(own) + Len(Rest(name))
      <4>1. w <= LongestChunk - 1 + IF "ci" \in Left("loop") THEN 2 * Window ELSE Window
        BY <1>1, <2>1 DEF OwnOK
      <4>2. w \in Int
        <5>1. Weight(own) \in Nat
          BY <1>1, WeightType DEF OwnOK
        <5>2. Len(Rest(name)) \in Nat
          BY <2>1, RestType, SyncAssumption
        <5>. QED BY <5>1, <5>2
      <4>. HIDE DEF w
      <4>3. w <= LongestChunk - 1 + IF "ci" \in Left("loop")' THEN 2 * Window ELSE Window
        BY <4>1, <4>2, Longest
      <4>. QED BY <3>1, <4>3 DEF w
    <3>. QED BY <1>1, <2>1, <3>2, <3>3, <3>4 DEF OwnOK
  <2>2. CASE name \notin Named
    BY <1>1, <2>2 DEF OwnOK
  <2>. QED BY <2>1, <2>2
<1>. QED BY <1>2, <1>3 DEF DebtsOK

LEMMA AloneRest ==
  ASSUME NEW x \in Alone, NEW s, Moves(x, s), s \cap {"write", "count"} = {},
         s \cap Loads # {} => Loads \subseteq s
  PROVE  /\ Left("loop") = {x} /\ Left("loop")' = s
         /\ x \notin Loads \cup Flushers \cup Saves
         /\ ~Writing /\ ~Counting /\ ~Opening /\ ~Writing' /\ ~Counting' /\ ~Opening'
         /\ ~Has("loop", Flushers)
         /\ Has("loop", Flushers)' <=> s \cap {"flush", "flushAll"} # {}
         /\ \A f : Rest(f) = IF name # f THEN savedPend[f] ELSE pending
         /\ \A f : Rest(f)' = IF name' # f THEN savedPend'[f] ELSE pending'
         /\ \A f : Index(f) = IF name # f THEN savedCi[f] ELSE chunkIndex
         /\ \A f : Index(f)' = IF name' # f THEN savedCi'[f] ELSE chunkIndex'
<1>1. Left("loop") = {x} /\ Left("loop")' = s
  BY DEF Moves
<1>2. x \notin Loads \cup Flushers \cup Saves
  BY DEF Alone, Loads, Flushers, Saves
<1>3. ~Writing /\ ~Counting /\ ~Opening /\ ~Has("loop", Flushers)
  BY <1>1, <1>2 DEF Writing, Counting, Opening, Loads, Flushers, Has
<1>4. ~Writing' /\ ~Counting' /\ ~Opening'
  BY <1>1 DEF Writing, Counting, Opening, Loads
<1>5. Has("loop", Flushers)' <=> s \cap {"flush", "flushAll"} # {}
  BY <1>1 DEF Has, Flushers
<1>6. \A f : Rest(f) = IF name # f THEN savedPend[f] ELSE pending
  BY <1>3 DEF Rest
<1>7. \A f : Rest(f)' = IF name' # f THEN savedPend'[f] ELSE pending'
  BY <1>4 DEF Rest
<1>8. \A f : Index(f) = IF name # f THEN savedCi[f] ELSE chunkIndex
  BY <1>3 DEF Index
<1>9. \A f : Index(f)' = IF name' # f THEN savedCi'[f] ELSE chunkIndex'
  BY <1>4 DEF Index
<1>. QED BY <1>1, <1>2, <1>3, <1>4, <1>5, <1>6, <1>7, <1>8, <1>9

(* What a turn of the loop has to leave in order: it may begin a flush or  *)
(* a change of file.                                                       *)
Begins(s) ==
    /\ s \cap {"write", "count"} = {}
    /\ s \cap Loads # {} => Loads \subseteq s /\ (name # None => Saves \subseteq s)
    /\ s \cap {"flush", "flushAll"} # {} =>
          name # None /\ ("load" \in s => At("loop", "flush")')

LEMMA AloneFlow ==
  ASSUME CutOK, FlowOK, NEW x \in Alone, NEW s, Moves(x, s), Begins(s),
         UNCHANGED <<running, name>>
  PROVE  CutOK' /\ FlowOK'
<1>1. /\ Left("loop")' = s /\ ~Writing' /\ ~Counting' /\ ~Opening'
      /\ Has("loop", Flushers)' <=> s \cap {"flush", "flushAll"} # {}
  BY AloneRest DEF Begins
<1>2. CutOK'
  <2>1. "load" \in s /\ Has("loop", Flushers)' => At("loop", "flush")' /\ "flush" \in Flushers
    BY <1>1 DEF Begins, Flushers
  <2>2. Has("loop", Flushers)' => name' # None
    BY <1>1 DEF Begins
  <2>. QED BY <1>1, <2>1, <2>2 DEF CutOK
<1>3. ChangeOK'
  BY <1>1 DEF ChangeOK, Begins, Loads, Saves
<1>4. running
  <2>1. Left("loop") = {x}
    BY DEF Moves
  <2>2. plan["loop"] # << >>
    BY <2>1 DEF Left, ToSet
  <2>. QED BY <2>2 DEF FlowOK
<1>5. FlowOK'
  BY <1>1, <1>3, <1>4 DEF FlowOK, Begins, Loads, Saves, Moves
<1>. QED BY <1>2, <1>5

LEMMA TurnLoss ==
  ASSUME SyncInv, LossOK, DebtsOK, NEW x \in Alone, NEW s, Moves(x, s), Begins(s),
         "shrunk" \in s => \A f \in Named : f = Head(todo') => Fetched(f) <= committed',
         UNCHANGED <<running, name, savedOff, savedCi, savedPend, outbox, drive>>,
         UNCHANGED <<size, base>>, faults'.kill = faults.kill,
         name \in Named => UNCHANGED <<offset, chunkIndex, pending>>
  PROVE  LossOK' /\ DebtsOK'
<1>1. CutOK' /\ FlowOK'
  BY AloneFlow DEF LossOK
<1>2. /\ Left("loop") = {x} /\ Left("loop")' = s /\ x \notin Loads \cup Flushers \cup Saves
      /\ ~Has("loop", Flushers)
      /\ \A f : Rest(f) = IF name # f THEN savedPend[f] ELSE pending
      /\ \A f : Rest(f)' = IF name' # f THEN savedPend'[f] ELSE pending'
      /\ \A f : Index(f) = IF name # f THEN savedCi[f] ELSE chunkIndex
      /\ \A f : Index(f)' = IF name' # f THEN savedCi'[f] ELSE chunkIndex'
  BY AloneRest DEF Begins
<1>3. \A f \in Named : Rest(f)' = Rest(f) /\ Fetched(f)' = Fetched(f) /\ Index(f)' = Index(f)
  BY <1>2 DEF Fetched
<1>4. "ci" \notin Left("loop")
  BY <1>2 DEF Saves
<1>5. DebtsOK'
  BY <1>3, <1>4, DebtsStay
<1>6. ChunksOK'
  BY DEF LossOK, ChunksOK
<1>7. NamedOK'
  <2>1. ASSUME NEW f \in Named
        PROVE  /\ base'[f] = 0 /\ savedOff'[f] <= size'[f]
               /\ name' = f => /\ savedOff'[f] <= offset' /\ offset' <= size'[f]
                               /\ savedCi'[f] <= chunkIndex'
    BY DEF LossOK, NamedOK
  <2>2. \A f \in Named : "shrunk" \in s /\ f = Head(todo') => Fetched(f)' <= committed'
    BY <1>3
  <2>. QED BY <1>2, <2>1, <2>2 DEF NamedOK
<1>8. RestOK'
  <2>1. \A f \in Named : Len(savedPend'[f]) <= LongestChunk - 1
    BY DEF LossOK, RestOK
  <2>2. ASSUME name' \in Named
        PROVE  Len(Rest(name)') <= LongestChunk - 1 + IF Has("loop", Flushers)' THEN Window ELSE 0
    <3>1. Len(Rest(name)) <= LongestChunk - 1 + 0
      BY <1>2, <2>2 DEF LossOK, RestOK
    <3>2. Rest(name)' = Rest(name)
      <4>1. name \in Named
        BY <2>2
      <4>2. Rest(name)' = pending' /\ Rest(name) = pending
        BY <1>2
      <4>. QED BY <4>1, <4>2
    <3>3. Len(Rest(name)) \in Nat
      BY <2>2, RestType, SyncAssumption
    <3>. QED BY <3>1, <3>2, <3>3, Longest
  <2>. QED BY <2>1, <2>2 DEF RestOK
<1>. QED BY <1>1, <1>5, <1>6, <1>7, <1>8 DEF LossOK
-----------------------------------------------------------------------------
LEMMA KillsKept ==
  ASSUME SyncInv, UNCHANGED faults \/ \E k \in Faults \ {"kill"} : Fault(k)
  PROVE  faults'.kill = faults.kill
BY DEF SyncInv, FaultsOK, Fault, Faults

LEMMA PlainLoss ==
  ASSUME SyncInv, LossOK, DebtsOK,
         Top \/ MoreWindows \/ NextWindow \/ CheckEnd \/ LegacyIsEmpty \/ NoStatus
             \/ DrainThrows \/ ListFails \/ FetchClosedThrows \/ LegacyThrows
             \/ OpenSession \/ ListFiles \/ SkipFile \/ AfterFile \/ CheckShrunk
  PROVE  LossOK' /\ DebtsOK'
<1>0. PICK x \in Alone : \E s :
         Moves(x, s) /\ s \cap (Flushers \cup Loads) = {} /\ "shrunk" \notin s
  BY PlainMoves DEF SyncInv
<1>1. PICK s : Moves(x, s) /\ s \cap (Flushers \cup Loads) = {} /\ "shrunk" \notin s
  BY <1>0
<1>2. UNCHANGED <<device, kept, running, name>>
  BY DEF Top, MoreWindows, NextWindow, CheckEnd, LegacyIsEmpty, NoStatus, DrainThrows, ListFails,
     FetchClosedThrows, LegacyThrows, OpenSession, ListFiles, SkipFile, AfterFile, CheckShrunk,
     Turn, Outside, object
<1>3. faults'.kill = faults.kill
  <2>1. UNCHANGED faults \/ Fault("throw")
    BY DEF Top, MoreWindows, NextWindow, CheckEnd, LegacyIsEmpty, NoStatus, DrainThrows, ListFails,
       FetchClosedThrows, LegacyThrows, OpenSession, ListFiles, SkipFile, AfterFile, CheckShrunk,
       Turn, Outside, history, RequestFails
  <2>2. "throw" \in Faults \ {"kill"}
    BY DEF Faults
  <2>. QED BY <2>1, <2>2, KillsKept
<1>4. name \in Named => UNCHANGED <<offset, chunkIndex, pending>>
  <2>1. CASE CheckShrunk
    <3>. SUFFICES ASSUME name \in Named PROVE UNCHANGED <<offset, chunkIndex, pending>>
      OBVIOUS
    <3>1. Moves("shrunk", Left("loop")')
      BY <2>1, ShrunkMoves DEF SyncInv
    <3>2. name = Head(todo)
      BY <3>1, NamedFile DEF Has, Visiting, Moves, Loads
    <3>3. offset <= committed /\ offset \in Nat /\ committed \in Int
      BY <3>1, <3>2 DEF Moves, LossOK, NamedOK, Fetched, SyncInv, SyncTypeOK
    <3>. QED BY <2>1, <3>3 DEF CheckShrunk
  <2>2. CASE ~CheckShrunk
    BY <2>2 DEF Top, MoreWindows, NextWindow, CheckEnd, LegacyIsEmpty, NoStatus, DrainThrows,
       ListFails, FetchClosedThrows, LegacyThrows, OpenSession, ListFiles, SkipFile, AfterFile,
       Turn, Outside, object
  <2>. QED BY <2>1, <2>2
<1>5. UNCHANGED <<running, name, savedOff, savedCi, savedPend, outbox, drive>>
      /\ UNCHANGED <<size, base>>
  BY <1>2 DEF device, kept, cursors
<1>6. Begins(s)
  BY <1>1 DEF Begins, Flushers
<1>. QED BY <1>1, <1>3, <1>4, <1>5, <1>6, TurnLoss

LEMMA HeadOfJoined ==
  ASSUME NEW p \in Seq(Steps), NEW q \in Seq(Steps), p # << >>
  PROVE  p \o q \in Seq(Steps) /\ p \o q # << >> /\ Head(p \o q) = Head(p)
<1>1. /\ p \o q \in Seq(Steps) /\ Len(p \o q) = Len(p) + Len(q)
      /\ \A i \in 1 .. Len(p \o q) : (p \o q)[i] = IF i <= Len(p) THEN p[i] ELSE q[i - Len(p)]
  BY ConcatProperties
<1>2. Len(p) \in Nat \ {0} /\ Len(q) \in Nat
  OBVIOUS
<1>3. p \o q # << >> /\ (p \o q)[1] = p[1]
  BY <1>1, <1>2
<1>. QED BY <1>1, <1>2, <1>3

(* A change of file begins with the flush.                                 *)
LEMMA FlushIsFirst ==
  ASSUME PlanOK, NEW x \in {"status", "next"}, NEW y \in {"shrunk", "window"}, name # None,
         InLoop(x, Switch \o << y >>)
  PROVE  At("loop", "flush")'
<1>. DEFINE a == <<"flush">> \o Save
            p == Switch \o << y >>
<1>1. plan \in [Workers -> Seq(Steps)] /\ plan["loop"] # << >>
  BY DEF InLoop, At, PlanOK
<1>2. plan["loop"] \in Seq(Steps) /\ Tail(plan["loop"]) \in Seq(Steps)
  BY <1>1 DEF Workers
<1>3. plan'["loop"] = p \o Tail(plan["loop"])
  BY <1>1 DEF InLoop, Go, Workers
<1>4. a \in Seq(Steps) /\ a # << >> /\ Head(a) = "flush"
  <2>1. <<"flush">> \in Seq(Steps) /\ <<"flush">> # << >> /\ Head(<<"flush">>) = "flush"
    BY DEF Steps, Flushers
  <2>. QED BY <2>1, SaveInOrder, HeadOfJoined
<1>5. Switch = a \o <<"load", "empty", "fill">>
  BY DEF Switch
<1>. HIDE DEF a
<1>6. Switch \in Seq(Steps) /\ Switch # << >> /\ Head(Switch) = "flush"
  BY <1>4, <1>5, LoadInOrder, HeadOfJoined
<1>7. p \in Seq(Steps) /\ p # << >> /\ Head(p) = "flush"
  <2>1. << y >> \in Seq(Steps)
    BY DEF Steps, Alone
  <2>. QED BY <1>6, <2>1, HeadOfJoined
<1>. HIDE DEF p
<1>8. p \o Tail(plan["loop"]) # << >> /\ Head(p \o Tail(plan["loop"])) = "flush"
  BY <1>2, <1>7, HeadOfJoined
<1>. QED BY <1>3, <1>8 DEF At

LEMMA VisitLoss ==
  ASSUME SyncInv, LossOK, DebtsOK, Status \/ NextFile
  PROVE  LossOK' /\ DebtsOK'
<1>1. /\ UNCHANGED <<running, name, savedOff, savedCi, savedPend, outbox, drive>>
      /\ UNCHANGED <<size, base, faults, offset, chunkIndex, pending>>
  BY DEF Status, NextFile, Outside, device, kept, cursors, history
<1>2. Loads \subseteq SwitchSteps
      /\ (name # None => Saves \subseteq SwitchSteps) /\ (name = None => "flush" \notin SwitchSteps)
      /\ SwitchSteps \cap {"write", "count", "flushAll", "shrunk"} = {}
  BY DEF SwitchSteps, Saves, Loads
<1>3. CASE Status
  <2>. DEFINE s == IF name = current THEN {"shrunk"} ELSE SwitchSteps \cup {"shrunk"}
  <2>1. Moves("status", s)
    BY <1>3, StatusMoves DEF SyncInv
  <2>2. name # None /\ name # current => At("loop", "flush")'
    <3>. SUFFICES ASSUME name # None, name # current PROVE At("loop", "flush")'
      OBVIOUS
    <3>1. InLoop("status", Switch \o <<"shrunk">>)
      BY <1>3 DEF Status
    <3>. QED BY <3>1, FlushIsFirst DEF SyncInv, Steps, Alone
  <2>3. Begins(s)
    <3>1. CASE name = current
      BY <3>1 DEF Begins, Loads
    <3>2. CASE name # current
      BY <1>2, <2>2, <3>2 DEF Begins, Loads
    <3>. QED BY <3>1, <3>2
  <2>4. ASSUME NEW f \in Named, f = Head(todo') PROVE Fetched(f) <= committed'
    <3>1. todo' = << current >> /\ committed' = size[current]
      BY <1>3 DEF Status
    <3>2. f = current
      BY <2>4, <3>1
    <3>. QED BY <3>1, <3>2 DEF LossOK, NamedOK, Fetched
  <2>5. "status" \in Alone
    BY DEF Alone
  <2>. HIDE DEF s
  <2>. QED BY <1>1, <2>1, <2>3, <2>4, <2>5, TurnLoss
<1>4. CASE NextFile
  <2>. DEFINE s == IF ~running \/ todo = << >> THEN {"top"}
                   ELSE IF name = Head(todo) THEN {"window"} ELSE SwitchSteps \cup {"window"}
  <2>1. Moves("next", s)
    BY <1>4, NextFileMoves DEF SyncInv
  <2>2. CASE ~(~running \/ todo = << >> \/ name = Head(todo))
    <3>1. name # None => At("loop", "flush")'
      <4>. SUFFICES ASSUME name # None PROVE At("loop", "flush")'
        OBVIOUS
      <4>1. InLoop("next", Switch \o <<"window">>)
        BY <1>4, <2>2 DEF NextFile
      <4>. QED BY <4>1, FlushIsFirst DEF SyncInv, Steps, Alone
    <3>. QED BY <1>1, <1>2, <2>1, <2>2, <3>1, TurnLoss DEF Begins, Loads, Alone
  <2>3. CASE ~running \/ todo = << >> \/ name = Head(todo)
    <3>1. Begins(s) /\ "shrunk" \notin s
      BY <2>3 DEF Begins, Loads
    <3>2. "next" \in Alone
      BY DEF Alone
    <3>. HIDE DEF s
    <3>. QED BY <1>1, <2>1, <3>1, <3>2, TurnLoss
  <2>. QED BY <2>2, <2>3
<1>. QED BY <1>3, <1>4

LEMMA FinishLoss ==
  ASSUME SyncInv, LossOK, DebtsOK, Finish
  PROVE  LossOK' /\ DebtsOK'
<1>1. /\ UNCHANGED <<running, name, savedOff, savedCi, savedPend, outbox, drive>>
      /\ UNCHANGED <<size, base, faults, offset, chunkIndex, pending>>
  BY DEF Finish, Turn, device, kept, cursors, object, history
<1>. DEFINE s == IF AllFetched THEN {"flushAll", "done", "after"} \cup Saves ELSE {"after"}
<1>2. Moves("finish", s) /\ "finish" \in Alone
  BY FinishMoves DEF SyncInv, Alone
<1>3. name # None
  BY <1>2, NamedFile, Constants DEF Moves, Has, Visiting, Closed, Loads
<1>4. Begins(s) /\ "shrunk" \notin s
  BY <1>3 DEF Begins, Loads, Saves
<1>. HIDE DEF s
<1>. QED BY <1>1, <1>2, <1>4, TurnLoss

LEMMA MarkLoss ==
  ASSUME SyncInv, LossOK, DebtsOK, MarkDone \/ MayPersistPending
  PROVE  LossOK' /\ DebtsOK'
<1>1. /\ UNCHANGED <<running, name, savedOff, savedCi, savedPend, outbox, drive>>
      /\ UNCHANGED <<size, base, faults, offset, chunkIndex, pending, job>>
  BY DEF MarkDone, MayPersistPending, Turn, device, kept, cursors, object, history
<1>2. /\ Left("loop") \subseteq {"done", "after", "mayPend", "more", "check"}
      /\ Left("loop")' \subseteq {"after", "pend", "mayPend", "more", "check"}
      /\ Left("loop") # {} /\ plan'["stop"] = plan["stop"]
  <2>1. CASE MarkDone
    BY <2>1, MarkDoneMoves DEF SyncInv
  <2>2. CASE MayPersistPending
    BY <2>2, MayPersistMoves DEF SyncInv
  <2>. QED BY <2>1, <2>2
<1>3. /\ ~Writing /\ ~Counting /\ ~Opening /\ ~Writing' /\ ~Counting' /\ ~Opening'
      /\ ~Has("loop", Flushers) /\ ~Has("loop", Flushers)' /\ "ci" \notin Left("loop")
      /\ "load" \notin Left("loop")' /\ "empty" \notin Left("loop")' /\ "shrunk" \notin Left("loop")'
  BY <1>2 DEF Writing, Counting, Opening, Has, Flushers
<1>4. \A f \in Named : Rest(f)' = Rest(f) /\ Fetched(f)' = Fetched(f) /\ Index(f)' = Index(f)
  BY <1>1, <1>3 DEF Rest, Fetched, Index
<1>5. DebtsOK'
  BY <1>1, <1>3, <1>4, DebtsStay
<1>6. ChunksOK' /\ CutOK' /\ NamedOK'
  BY <1>1, <1>3 DEF LossOK, ChunksOK, CutOK, NamedOK
<1>7. FlowOK'
  <2>1. plan["loop"] # << >>
    BY <1>2 DEF Left, ToSet
  <2>. QED BY <1>1, <1>2, <1>3, <2>1 DEF LossOK, FlowOK, ChangeOK
<1>8. RestOK'
  <2>1. name \in Named => Rest(name)' = Rest(name)
    BY <1>1, <1>3 DEF Rest
  <2>. QED BY <1>1, <1>3, <2>1 DEF LossOK, RestOK
<1>. QED BY <1>5, <1>6, <1>7, <1>8 DEF LossOK
-----------------------------------------------------------------------------
(* A change of file: what was in memory has been saved.                    *)
LEMMA LoadLoss ==
  ASSUME SyncInv, LossOK, DebtsOK, LoadCursor
  PROVE  LossOK' /\ DebtsOK'
<1>1. /\ "load" \in Left("loop") /\ Left("loop")' = Left("loop") \ {"load"}
      /\ Left("loop")' \subseteq {"empty", "fill", "shrunk", "window"}
      /\ plan'["stop"] = plan["stop"]
  BY LoadMoves DEF SyncInv
<1>2. /\ name' = Head(todo) /\ offset' = savedOff[name'] /\ chunkIndex' = savedCi[name']
      /\ UNCHANGED <<size, base, running, savedOff, savedCi, savedPend, pending, outbox, drive>>
      /\ UNCHANGED <<faults, todo, committed>>
  BY DEF LoadCursor, device, kept, cursors, history, locals
<1>3. /\ {"empty", "fill"} \subseteq Left("loop") /\ "off" \notin Left("loop")
      /\ "ci" \notin Left("loop") /\ "pend" \notin Left("loop")
  BY <1>1 DEF LossOK, FlowOK, ChangeOK
<1>4. name # None =>
         savedOff[name] = offset /\ savedPend[name] = pending /\ savedCi[name] = chunkIndex
  BY <1>1, <1>3 DEF LossOK, FlowOK, ChangeOK
<1>5. /\ ~Writing /\ ~Counting /\ ~Opening /\ ~Writing' /\ ~Counting' /\ Opening'
      /\ ~Has("loop", Flushers)' /\ "load" \notin Left("loop")' /\ "ci" \notin Left("loop")'
  BY <1>1, <1>3 DEF Writing, Counting, Opening, Has, Flushers
<1>6. ASSUME NEW f \in Named
      PROVE  /\ Rest(f)' = Rest(f) /\ Fetched(f)' = Fetched(f) /\ Index(f)' = Index(f)
             /\ Rest(f)' = savedPend[f]
  <2>1. name = f => savedOff[f] = offset /\ savedPend[f] = pending /\ savedCi[f] = chunkIndex
    BY <1>4, SyncAssumption
  <2>2. Rest(f)' = Rest(f) /\ Rest(f)' = savedPend[f]
    BY <1>2, <1>5, <2>1 DEF Rest
  <2>3. Fetched(f)' = Fetched(f)
    BY <1>2, <2>1 DEF Fetched
  <2>4. Index(f)' = Index(f)
    BY <1>2, <1>5, <2>1 DEF Index
  <2>. QED BY <2>2, <2>3, <2>4
<1>7. CutOK'
  BY <1>5 DEF CutOK
<1>8. FlowOK'
  <2>1. plan["loop"] # << >>
    BY <1>1 DEF Left, ToSet
  <2>2. running
    BY <2>1 DEF LossOK, FlowOK
  <2>. QED BY <1>1, <1>2, <1>3, <1>5, <2>2 DEF LossOK, FlowOK, ChangeOK
<1>9. NamedOK'
  <2>1. ASSUME NEW f \in Named
        PROVE  /\ base'[f] = 0 /\ savedOff'[f] <= size'[f]
               /\ name' = f => /\ savedOff'[f] <= offset' /\ offset' <= size'[f]
                               /\ savedCi'[f] <= chunkIndex'
    <3>1. f \in Files
      BY SyncAssumption
    <3>2. savedOff[f] \in Nat /\ savedCi[f] \in Nat
      BY <3>1 DEF SyncInv, SyncTypeOK
    <3>. QED BY <1>2, <3>2 DEF LossOK, NamedOK
  <2>2. ASSUME NEW f \in Named, "shrunk" \in Left("loop")', f = Head(todo')
        PROVE  Fetched(f)' <= committed'
    <3>1. "shrunk" \in Left("loop") /\ f = Head(todo)
      BY <1>1, <1>2, <2>2
    <3>2. Fetched(f) <= committed
      BY <3>1 DEF LossOK, NamedOK
    <3>. QED BY <1>2, <1>6, <3>2
  <2>. QED BY <2>1, <2>2 DEF NamedOK
<1>10. name' \in Named => Len(Rest(name)') <= LongestChunk - 1 /\ Len(Rest(name)') \in Nat
  <2>. SUFFICES ASSUME name' \in Named
                PROVE  Len(Rest(name)') <= LongestChunk - 1 /\ Len(Rest(name)') \in Nat
    OBVIOUS
  <2>1. Rest(name)' = savedPend[name']
    BY <1>2, <1>5 DEF Rest
  <2>2. savedPend[name'] \in Seq(Nat)
    BY SyncAssumption DEF SyncInv, SyncTypeOK
  <2>. QED BY <2>1, <2>2 DEF LossOK, RestOK
<1>11. RestOK'
  BY <1>2, <1>10, <1>5, Longest DEF LossOK, RestOK
<1>12. ChunksOK'
  BY <1>2 DEF LossOK, ChunksOK
<1>13. PICK own : OwnOK(own) /\ \A f \in Named : DebtOK(f, own)
  BY DEF DebtsOK
<1>14. own = {}
  <2>. SUFFICES ASSUME NEW s \in own PROVE FALSE
    OBVIOUS
  <2>1. name \in Named /\ savedCi[name] <= s[1] /\ s[1] < Index(name) /\ s[1] \in Nat
    BY <1>13 DEF OwnOK, Pairs
  <2>2. name # None /\ savedCi[name] \in Nat
    BY <2>1, SyncAssumption, Constants DEF SyncInv, SyncTypeOK
  <2>3. Index(name) = savedCi[name]
    BY <1>4, <1>5, <2>2 DEF Index
  <2>. QED BY <2>1, <2>2, <2>3
<1>15. OwnOK({})'
  <2>1. ASSUME name' \in Named, NEW s \in Sizes(outbox', name'), savedCi'[name'] <= s[1],
               s[1] < Index(name)'
        PROVE  FALSE
    <3>1. Index(name)' = savedCi[name']
      BY <1>2, <1>5 DEF Index
    <3>2. savedCi[name'] \in Nat
      BY <2>1, SyncAssumption DEF SyncInv, SyncTypeOK
    <3>3. s[1] \in Nat
      BY <1>12, <2>1, SizesAre DEF ChunksOK, Pairs
    <3>. QED BY <1>2, <2>1, <3>1, <3>2, <3>3
  <2>2. name' \in Named =>
           Weight({}) + Len(Rest(name)')
                <= LongestChunk - 1 + IF "ci" \in Left("loop")' THEN 2 * Window ELSE Window
    BY <1>10, <1>5, WeightOfNone, Longest
  <2>3. {} \in SUBSET Pairs /\ IsFiniteSet({})
    BY FS_EmptySet
  <2>. QED BY <2>1, <2>2, <2>3 DEF OwnOK
<1>16. ASSUME NEW f \in Named PROVE DebtOK(f, {})'
  <2>1. Stale(f)' = Stale(f) /\ Lost(f)' = Lost(f)
    BY <1>2, <1>6 DEF Stale, Lost, Present
  <2>2. Clash(f, {})' = Clash(f, {})
    BY <1>2 DEF Clash
  <2>. QED BY <1>2, <1>13, <1>14, <2>1, <2>2 DEF DebtOK
<1>17. DebtsOK'
  BY <1>15, <1>16 DEF DebtsOK
<1>. QED BY <1>7, <1>8, <1>9, <1>11, <1>12, <1>17 DEF LossOK

LEMMA LoadPendingLoss ==
  ASSUME SyncInv, LossOK, DebtsOK, LoadPending
  PROVE  LossOK' /\ DebtsOK'
<1>1. PICK x \in {"empty", "fill"} :
         /\ InLoop(x, << >>)
         /\ pending' = IF x = "empty" THEN << >> ELSE pending \o savedPend[name]
  BY DEF LoadPending
<1>2. /\ x \in Left("loop") /\ Left("loop")' = Left("loop") \ {x}
      /\ Left("loop")' \subseteq {"fill", "shrunk", "window"} /\ plan'["stop"] = plan["stop"]
  BY <1>1, LoadPendingMoves DEF SyncInv
<1>3. /\ UNCHANGED <<running, name, savedOff, savedCi, savedPend, outbox, drive>>
      /\ UNCHANGED <<size, base, faults, offset, chunkIndex, todo, committed>>
  BY DEF LoadPending, Outside, device, kept, cursors, history, locals
<1>4. "fill" \in Left("loop") /\ Opening
  BY <1>2 DEF LossOK, FlowOK, ChangeOK, Opening
<1>5. /\ ~Writing' /\ ~Counting' /\ ~Counting /\ ~Has("loop", Flushers)' /\ "ci" \notin Left("loop")
      /\ "load" \notin Left("loop")' /\ "empty" \notin Left("loop")'
  BY <1>2 DEF Writing, Counting, Has, Flushers
<1>6. name \in Files
  BY <1>4, NamedFile DEF Opening, Has, Visiting, Loads
<1>7. /\ \A f \in Files : Rest(f)' = savedPend[f] /\ Rest(f) = savedPend[f]
      /\ ChangeOK'
  <2>1. \A f : Rest(f) = savedPend[f]
    BY <1>4 DEF Rest
  <2>2. CASE x = "empty"
    <3>1. Opening'
      BY <1>2, <1>4, <1>5, <2>2 DEF Opening
    <3>2. \A f : Rest(f)' = savedPend[f]
      BY <1>3, <3>1 DEF Rest
    <3>. QED BY <1>1, <1>2, <1>5, <2>1, <2>2, <3>1, <3>2 DEF ChangeOK
  <2>3. CASE x = "fill"
    <3>1. ~Opening' /\ "empty" \notin Left("loop")
      BY <1>2, <2>3 DEF Opening
    <3>2. pending = << >>
      BY <1>4, <3>1 DEF LossOK, FlowOK, ChangeOK
    <3>3. savedPend[name] \in Seq(Nat)
      BY <1>6 DEF SyncInv, SyncTypeOK
    <3>4. pending' = savedPend[name]
      BY <1>1, <2>3, <3>2, <3>3, ConcatEmptySeq
    <3>5. \A f \in Files : Rest(f)' = savedPend[f]
      BY <1>3, <1>5, <3>1, <3>4 DEF Rest
    <3>6. ChangeOK'
      BY <1>5, <3>1 DEF ChangeOK
    <3>. QED BY <2>1, <3>5, <3>6
  <2>. QED BY <2>2, <2>3
<1>8. \A f \in Named : Rest(f)' = Rest(f) /\ Fetched(f)' = Fetched(f) /\ Index(f)' = Index(f)
  BY <1>3, <1>5, <1>7, SyncAssumption DEF Fetched, Index
<1>9. DebtsOK'
  BY <1>3, <1>5, <1>8, DebtsStay
<1>10. ChunksOK' /\ CutOK'
  BY <1>3, <1>5 DEF LossOK, ChunksOK, CutOK
<1>11. FlowOK'
  <2>1. plan["loop"] # << >>
    BY <1>2 DEF Left, ToSet
  <2>. QED BY <1>2, <1>3, <1>5, <1>7, <2>1 DEF LossOK, FlowOK
<1>12. NamedOK'
  BY <1>2, <1>3, <1>8 DEF LossOK, NamedOK
<1>13. RestOK'
  <2>1. name \in Named => Len(Rest(name)') <= LongestChunk - 1 /\ Len(Rest(name)') \in Nat
    <3>1. savedPend[name] \in Seq(Nat) /\ Rest(name)' = savedPend[name]
      <4>1. Rest(name)' = savedPend[name]
        BY <1>3, <1>6, <1>7
      <4>. QED BY <1>6, <4>1 DEF SyncInv, SyncTypeOK
    <3>. QED BY <3>1 DEF LossOK, RestOK
  <2>. QED BY <1>3, <1>5, <2>1, Longest DEF LossOK, RestOK
<1>. QED BY <1>9, <1>10, <1>11, <1>12, <1>13 DEF LossOK
-----------------------------------------------------------------------------
(* The persisting calls.                                                   *)
LEMMA PersistFlow ==
  ASSUME SyncInv, LossOK,
         PersistOffset("loop") \/ PersistIndex("loop") \/ PersistPending("loop")
  PROVE  \E x \in Saves :
         /\ PersistOffset("loop") => x = "off"
         /\ PersistIndex("loop") => x = "ci"
         /\ PersistPending("loop") => x = "pend"
         /\ x \in Left("loop") /\ Left("loop")' = Left("loop") \ {x}
         /\ Left("loop")' \subseteq After(x) /\ plan'["stop"] = plan["stop"] /\ running
         /\ ~Writing /\ ~Counting /\ ~Opening /\ ~Writing' /\ ~Counting' /\ ~Opening'
         /\ Has("loop", Flushers)' = Has("loop", Flushers)
         /\ ~("load" \in Left("loop") /\ Has("loop", Flushers))
         /\ CutOK'
<1>1. PICK x \in Saves : /\ At("loop", x) /\ Go("loop", << >>)
                         /\ PersistOffset("loop") => x = "off"
                         /\ PersistIndex("loop") => x = "ci"
                         /\ PersistPending("loop") => x = "pend"
  <2>1. "off" # "ci" /\ "off" # "pend" /\ "ci" # "pend"
    OBVIOUS
  <2>. QED BY <2>1 DEF PersistOffset, PersistIndex, PersistPending, Saves, At
<1>2. /\ x \in Left("loop") /\ Left("loop")' = Left("loop") \ {x} /\ Left("loop")' \subseteq After(x)
      /\ plan'["stop"] = plan["stop"]
  BY <1>1, StepReturns DEF Workers, SyncInv
<1>3. ~Writing /\ ~Counting /\ ~("load" \in Left("loop") /\ Has("loop", Flushers))
  <2>1. ~\E y \in Flushers : At("loop", y)
    BY <1>1 DEF At, Flushers, Saves
  <2>. QED BY <2>1 DEF LossOK, CutOK
<1>4. ~Opening /\ running
  <2>1. plan["loop"] # << >>
    BY <1>1 DEF At
  <2>. QED BY <1>2, <2>1 DEF LossOK, FlowOK, ChangeOK, Saves
<1>5. /\ ~Writing' /\ ~Counting' /\ ~Opening' /\ Has("loop", Flushers)' = Has("loop", Flushers)
      /\ "load" \in Left("loop")' => "load" \in Left("loop")
  BY <1>2, <1>3, <1>4 DEF Writing, Counting, Opening, Saves, Has, Flushers
<1>6. UNCHANGED name
  BY DEF PersistOffset, PersistIndex, PersistPending, object
<1>7. CutOK'
  BY <1>3, <1>5, <1>6 DEF LossOK, CutOK
<1>. QED BY <1>1, <1>2, <1>3, <1>4, <1>5, <1>7

LEMMA PersistOffsetLoss ==
  ASSUME SyncInv, LossOK, DebtsOK, PersistOffset("loop")
  PROVE  LossOK' /\ DebtsOK'
<1>1. /\ "off" \in Left("loop") /\ Left("loop")' = Left("loop") \ {"off"}
      /\ plan'["stop"] = plan["stop"] /\ running
      /\ ~Writing /\ ~Counting /\ ~Opening /\ ~Writing' /\ ~Counting' /\ ~Opening'
      /\ Has("loop", Flushers)' = Has("loop", Flushers) /\ CutOK'
  BY PersistFlow
<1>2. /\ UNCHANGED <<size, base, running, name, offset, chunkIndex, savedCi, savedPend, pending>>
      /\ UNCHANGED <<outbox, drive, faults, todo, committed>>
      /\ savedOff' = [savedOff EXCEPT ![name] = offset]
  BY DEF PersistOffset, device, object, locals, history
<1>3. name \in Files /\ savedOff \in [Files -> Nat] /\ offset \in Nat
  BY <1>1 DEF SyncInv, SyncTypeOK, VisitOK, Has
<1>4. savedOff'[name] = offset /\ \A f \in Files : f # name => savedOff'[f] = savedOff[f]
  BY <1>2, <1>3
<1>5. \A f \in Named : Rest(f)' = Rest(f) /\ Fetched(f)' = Fetched(f) /\ Index(f)' = Index(f)
  BY <1>1, <1>2, <1>4, SyncAssumption DEF Rest, Fetched, Index
<1>6. DebtsOK'
  BY <1>1, <1>2, <1>5, DebtsStay
<1>7. ChunksOK'
  BY <1>2 DEF LossOK, ChunksOK
<1>8. FlowOK'
  BY <1>1, <1>2, <1>4 DEF LossOK, FlowOK, ChangeOK
<1>9. NamedOK'
  <2>1. ASSUME NEW f \in Named
        PROVE  /\ base'[f] = 0 /\ savedOff'[f] <= size'[f]
               /\ name' = f => /\ savedOff'[f] <= offset' /\ offset' <= size'[f]
                               /\ savedCi'[f] <= chunkIndex'
    BY <1>2, <1>3, <1>4, SyncAssumption DEF LossOK, NamedOK
  <2>2. \A f \in Named : "shrunk" \in Left("loop")' /\ f = Head(todo') => Fetched(f)' <= committed'
    BY <1>1, <1>2, <1>5 DEF LossOK, NamedOK
  <2>. QED BY <2>1, <2>2 DEF NamedOK
<1>10. RestOK'
  <2>1. name \in Named => Rest(name)' = Rest(name)
    BY <1>1, <1>2 DEF Rest
  <2>. QED BY <1>1, <1>2, <2>1 DEF LossOK, RestOK
<1>. QED BY <1>1, <1>6, <1>7, <1>8, <1>9, <1>10 DEF LossOK

LEMMA PersistPendingLoss ==
  ASSUME SyncInv, LossOK, DebtsOK, PersistPending("loop")
  PROVE  LossOK' /\ DebtsOK'
<1>1. /\ "pend" \in Left("loop") /\ Left("loop")' = Left("loop") \ {"pend"}
      /\ Left("loop")' \subseteq After("pend")
      /\ plan'["stop"] = plan["stop"] /\ running
      /\ ~Writing /\ ~Counting /\ ~Opening /\ ~Writing' /\ ~Counting' /\ ~Opening'
      /\ Has("loop", Flushers)' = Has("loop", Flushers) /\ CutOK'
  BY PersistFlow
<1>2. /\ UNCHANGED <<size, base, running, name, offset, chunkIndex, savedOff, savedCi, pending>>
      /\ UNCHANGED <<outbox, drive, faults, todo, committed>>
      /\ savedPend' = [savedPend EXCEPT ![name] = pending]
  BY DEF PersistPending, Captured, device, cursors, object, locals, history
<1>3. ~Has("loop", Flushers)
  BY <1>1, AfterIs DEF Has
<1>4. /\ savedPend \in [Files -> Seq(Nat)]
      /\ name \in Files => savedPend'[name] = pending
      /\ \A f \in Files : f # name => savedPend'[f] = savedPend[f]
  BY <1>2 DEF SyncInv, SyncTypeOK
<1>5. \A f \in Files : Rest(f)' = Rest(f) /\ Rest(f) = IF name # f THEN savedPend[f] ELSE pending
  BY <1>1, <1>2, <1>4 DEF Rest
<1>6. \A f \in Named : Rest(f)' = Rest(f) /\ Fetched(f)' = Fetched(f) /\ Index(f)' = Index(f)
  BY <1>1, <1>2, <1>5, SyncAssumption DEF Fetched, Index
<1>7. DebtsOK'
  BY <1>1, <1>2, <1>6, DebtsStay
<1>8. ChunksOK'
  BY <1>2 DEF LossOK, ChunksOK
<1>9. FlowOK'
  <2>1. name \in Files \cup {None}
    BY DEF SyncInv, SyncTypeOK
  <2>. QED BY <1>1, <1>2, <1>3, <1>4, <2>1 DEF LossOK, FlowOK, ChangeOK
<1>10. NamedOK'
  BY <1>1, <1>2, <1>6 DEF LossOK, NamedOK
<1>11. RestOK'
  <2>1. ASSUME NEW f \in Named PROVE Len(savedPend'[f]) <= LongestChunk - 1
    <3>1. f \in Files
      BY SyncAssumption
    <3>2. CASE f = name
      <4>1. Len(pending) <= LongestChunk - 1 + 0 /\ savedPend'[f] = pending
        BY <1>3, <1>4, <1>5, <3>1, <3>2 DEF LossOK, RestOK
      <4>. QED BY <4>1, Longest
    <3>3. CASE f # name
      BY <1>4, <3>1, <3>3 DEF LossOK, RestOK
    <3>. QED BY <3>2, <3>3
  <2>2. name \in Named => Rest(name)' = Rest(name)
    <3>1. \A f \in Files : f = name => Rest(name)' = Rest(name)
      BY <1>1, <1>2, <1>4 DEF Rest
    <3>. QED BY <3>1, SyncAssumption
  <2>. QED BY <1>1, <1>2, <2>1, <2>2 DEF LossOK, RestOK
<1>. QED BY <1>1, <1>7, <1>8, <1>9, <1>10, <1>11 DEF LossOK

(* The index is saved: no chunk is where it will pass again.               *)
LEMMA PersistIndexLoss ==
  ASSUME SyncInv, LossOK, DebtsOK, PersistIndex("loop")
  PROVE  LossOK' /\ DebtsOK'
<1>1. /\ "ci" \in Left("loop") /\ Left("loop")' = Left("loop") \ {"ci"}
      /\ plan'["stop"] = plan["stop"] /\ running
      /\ ~Writing /\ ~Counting /\ ~Opening /\ ~Writing' /\ ~Counting' /\ ~Opening'
      /\ Has("loop", Flushers)' = Has("loop", Flushers) /\ CutOK'
      /\ ~("load" \in Left("loop") /\ Has("loop", Flushers))
  BY PersistFlow
<1>2. /\ UNCHANGED <<size, base, running, name, offset, chunkIndex, savedOff, savedPend, pending>>
      /\ UNCHANGED <<outbox, drive, faults, todo, committed>>
      /\ savedCi' = [savedCi EXCEPT ![name] = chunkIndex]
  BY DEF PersistIndex, Captured, device, object, locals, history
<1>3. /\ savedCi \in [Files -> Nat] /\ chunkIndex \in Nat
      /\ name \in Files => savedCi'[name] = chunkIndex
      /\ \A f \in Files : f # name => savedCi'[f] = savedCi[f]
  BY <1>2 DEF SyncInv, SyncTypeOK
<1>4. \A f \in Files : Rest(f)' = Rest(f) /\ Fetched(f)' = Fetched(f)
                       /\ Index(f)' = Index(f) /\ (f = name => Index(f) = chunkIndex)
  BY <1>1, <1>2, <1>3 DEF Rest, Fetched, Index
<1>5. ChunksOK'
  BY <1>2 DEF LossOK, ChunksOK
<1>6. FlowOK'
  <2>1. name \in Files \cup {None}
    BY DEF SyncInv, SyncTypeOK
  <2>. QED BY <1>1, <1>2, <1>3, <2>1 DEF LossOK, FlowOK, ChangeOK
<1>7. NamedOK'
  <2>1. ASSUME NEW f \in Named
        PROVE  /\ base'[f] = 0 /\ savedOff'[f] <= size'[f]
               /\ name' = f => /\ savedOff'[f] <= offset' /\ offset' <= size'[f]
                               /\ savedCi'[f] <= chunkIndex'
    BY <1>2, <1>3, SyncAssumption DEF LossOK, NamedOK
  <2>2. \A f \in Named : "shrunk" \in Left("loop")' /\ f = Head(todo') => Fetched(f)' <= committed'
    BY <1>1, <1>2, <1>4, SyncAssumption DEF LossOK, NamedOK
  <2>. QED BY <2>1, <2>2 DEF NamedOK
<1>8. name \in Named =>
         /\ Rest(name)' = Rest(name) /\ Len(Rest(name)) \in Nat
         /\ Len(Rest(name)) <= LongestChunk - 1 + Window
  <2>. SUFFICES ASSUME name \in Named
                PROVE  /\ Rest(name)' = Rest(name) /\ Len(Rest(name)) \in Nat
                       /\ Len(Rest(name)) <= LongestChunk - 1 + Window
    OBVIOUS
  <2>1. name \in Files
    BY SyncAssumption
  <2>2. Rest(name)' = Rest(name)
    BY <1>1, <1>2 DEF Rest
  <2>3. Len(Rest(name)) \in Nat
    BY <2>1, RestType
  <2>4. Len(Rest(name)) <= LongestChunk - 1 + IF Has("loop", Flushers) THEN Window ELSE 0
    BY DEF LossOK, RestOK
  <2>. QED BY <2>2, <2>3, <2>4, Longest
<1>9. RestOK'
  BY <1>1, <1>2, <1>8 DEF LossOK, RestOK
<1>10. PICK own : OwnOK(own) /\ \A f \in Named : DebtOK(f, own)
  BY DEF DebtsOK
<1>11. OwnOK({})'
  <2>1. ASSUME name' \in Named, NEW s \in Sizes(outbox', name'), savedCi'[name'] <= s[1],
               s[1] < Index(name)'
        PROVE  FALSE
    <3>1. name \in Files
      BY <1>2, <2>1, SyncAssumption
    <3>2. Index(name)' = chunkIndex /\ savedCi'[name'] = chunkIndex
      BY <1>1, <1>2, <1>3, <3>1 DEF Index
    <3>3. s[1] \in Nat
      BY <1>5, <2>1, SizesAre DEF ChunksOK, Pairs
    <3>. QED BY <1>3, <2>1, <3>2, <3>3
  <2>2. name' \in Named =>
           Weight({}) + Len(Rest(name)')
                <= LongestChunk - 1 + IF "ci" \in Left("loop")' THEN 2 * Window ELSE Window
    BY <1>1, <1>2, <1>8, WeightOfNone, Longest
  <2>3. {} \in SUBSET Pairs /\ IsFiniteSet({})
    BY FS_EmptySet
  <2>. QED BY <2>1, <2>2, <2>3 DEF OwnOK
<1>12. ASSUME NEW f \in Named PROVE DebtOK(f, {})'
  <2>0. f \in Files
    BY SyncAssumption
  <2>1. Stale(f)' = Stale(f) /\ Lost(f)' = Lost(f)
    BY <1>2, <1>4, <2>0 DEF Stale, Lost, Present
  <2>2. Clash(f, {})' \subseteq Clash(f, own)
    <3>1. SUFFICES ASSUME NEW s \in Sizes(drive, f), s \notin Sizes(outbox, f), s[1] >= savedCi'[f]
                   PROVE  s[1] >= savedCi[f] /\ (f = name => s \notin own)
      BY <1>2 DEF Clash
    <3>2. s[1] \in Nat
      BY SizesAre DEF LossOK, ChunksOK, Pairs
    <3>3. CASE f # name
      BY <1>3, <2>0, <3>1, <3>3
    <3>4. CASE f = name
      <4>1. savedCi'[f] = chunkIndex /\ savedCi[f] \in Nat /\ savedCi[f] <= chunkIndex
        BY <1>3, <2>0, <3>4 DEF LossOK, NamedOK
      <4>2. s \in own => s[1] < chunkIndex
        BY <1>4, <1>10, <2>0, <3>4 DEF OwnOK
      <4>. QED BY <1>3, <3>1, <3>2, <4>1, <4>2
    <3>. QED BY <3>3, <3>4
  <2>3. /\ Weight(Clash(f, {})') <= Weight(Clash(f, own)) /\ Weight(Clash(f, {})') \in Nat
        /\ Weight(Clash(f, own)) \in Nat
    <3>1. Clash(f, own) \in SUBSET Pairs /\ IsFiniteSet(Clash(f, own))
      BY DebtTypes DEF LossOK
    <3>. QED BY <2>2, <3>1, WeightGrows
  <2>4. Cardinality(Lost(f)) \in Nat /\ Weight(Stale(f)) \in Nat
    BY DebtTypes DEF LossOK
  <2>5. Cardinality(Lost(f)) + Weight(Stale(f)) + Weight(Clash(f, {})') <= faults.kill * LossOfKill
    <3>. DEFINE bound == faults.kill * LossOfKill
    <3>1. Cardinality(Lost(f)) + Weight(Stale(f)) + Weight(Clash(f, own)) <= bound
      BY <1>10 DEF DebtOK
    <3>2. bound \in Nat
      BY BoundIsNat
    <3>. HIDE DEF bound
    <3>3. Cardinality(Lost(f)) + Weight(Stale(f)) + Weight(Clash(f, {})') <= bound
      BY <2>3, <2>4, <3>1, <3>2
    <3>. QED BY <3>3 DEF bound
  <2>. QED BY <1>2, <2>1, <2>5 DEF DebtOK
<1>13. DebtsOK'
  BY <1>11, <1>12 DEF DebtsOK
<1>. QED BY <1>1, <1>5, <1>6, <1>7, <1>9, <1>13 DEF LossOK
-----------------------------------------------------------------------------
(* Bytes arrive.                                                           *)
LEMMA ArrivedBytes ==
  ASSUME SyncInv, name \in Named, NamedOK, AtOffset # << >>
  PROVE  /\ AtOffset \in Seq(Nat) /\ Len(AtOffset) \in Nat \ {0} /\ Len(AtOffset) <= Window
         /\ offset + Len(AtOffset) <= size[name]
         /\ \A p \in offset + 1 .. offset + Len(AtOffset) : p \in ToSet(AtOffset)
<1>. DEFINE to == Smaller(offset + Window, size[name])
<1>0. name \in Files /\ base[name] = 0 /\ offset <= size[name]
  BY SyncAssumption DEF NamedOK
<1>1. offset \in Nat /\ size[name] \in Nat /\ Window \in Nat \ {0}
  BY <1>0, SizeIsNat, SyncAssumption DEF SyncInv, SyncTypeOK
<1>2. to \in Nat /\ to >= offset /\ to <= offset + Window /\ to <= size[name]
  BY <1>0, <1>1 DEF Smaller
<1>3. AtOffset = Slice(name, offset, to)
  BY DEF AtOffset
<1>4. AtOffset \in Seq(Nat) /\ Len(AtOffset) > 0
  BY <1>0, AtOffsetTypes DEF SyncInv
<1>. HIDE DEF to
<1>5. Len(AtOffset) = IF to > offset THEN to - offset ELSE 0
  BY <1>0, <1>1, <1>2, <1>3, SliceTypes DEF SyncInv
<1>6. to > offset /\ Len(AtOffset) = to - offset
  BY <1>1, <1>2, <1>4, <1>5
<1>7. AtOffset = [i \in 1 .. to - offset |-> offset + i]
  BY <1>0, <1>1, <1>2, <1>3, <1>6 DEF Slice
<1>8. ASSUME NEW p \in offset + 1 .. to PROVE p \in ToSet(AtOffset)
  <2>1. p - offset \in 1 .. to - offset /\ offset + (p - offset) = p
    BY <1>1, <1>2, <1>8
  <2>2. AtOffset[p - offset] = p /\ p - offset \in DOMAIN AtOffset
    BY <1>7, <2>1
  <2>. QED BY <2>2 DEF ToSet
<1>9. Len(AtOffset) \in Nat \ {0} /\ offset + Len(AtOffset) = to /\ Len(AtOffset) <= Window
  BY <1>1, <1>2, <1>6
<1>. QED BY <1>2, <1>4, <1>8, <1>9

LEMMA ElementOf == ASSUME NEW q \in Seq(Nat), NEW j \in 1 .. Len(q) PROVE q[j] \in ToSet(q)
BY DEF ToSet

LEMMA JoinedRange ==
  ASSUME NEW s \in Seq(Nat), NEW t \in Seq(Nat)
  PROVE  /\ s \o t \in Seq(Nat) /\ Len(s \o t) = Len(s) + Len(t)
         /\ ToSet(s \o t) = ToSet(s) \cup ToSet(t)
<1>1. /\ s \o t \in Seq(Nat) /\ Len(s \o t) = Len(s) + Len(t)
      /\ \A i \in 1 .. Len(s \o t) : (s \o t)[i] = IF i <= Len(s) THEN s[i] ELSE t[i - Len(s)]
  BY ConcatProperties
<1>2. Len(s) \in Nat /\ Len(t) \in Nat
  OBVIOUS
<1>3. ASSUME NEW x \in ToSet(s) PROVE x \in ToSet(s \o t)
  <2>1. PICK i \in 1 .. Len(s) : x = s[i]
    BY <1>3 DEF ToSet
  <2>2. i \in 1 .. Len(s \o t) /\ (s \o t)[i] = x
    BY <1>1, <1>2, <2>1
  <2>. QED BY <1>1, <2>2, ElementOf
<1>4. ASSUME NEW x \in ToSet(t) PROVE x \in ToSet(s \o t)
  <2>1. PICK i \in 1 .. Len(t) : x = t[i]
    BY <1>4 DEF ToSet
  <2>2. i + Len(s) \in 1 .. Len(s \o t) /\ ~(i + Len(s) <= Len(s)) /\ (i + Len(s)) - Len(s) = i
    BY <1>1, <1>2, <2>1
  <2>3. (s \o t)[i + Len(s)] = x
    BY <1>1, <2>1, <2>2
  <2>. DEFINE j == i + Len(s)
  <2>4. j \in 1 .. Len(s \o t) /\ (s \o t)[j] = x
    BY <2>2, <2>3
  <2>. HIDE DEF j
  <2>. QED BY <1>1, <2>4, ElementOf
<1>5. ASSUME NEW x \in ToSet(s \o t) PROVE x \in ToSet(s) \cup ToSet(t)
  <2>1. PICK i \in 1 .. Len(s \o t) : x = (s \o t)[i]
    BY <1>1, <1>5 DEF ToSet
  <2>2. CASE i <= Len(s)
    <3>1. i \in 1 .. Len(s) /\ x = s[i]
      BY <1>1, <1>2, <2>1, <2>2
    <3>. QED BY <3>1, ElementOf
  <2>3. CASE ~(i <= Len(s))
    <3>1. i - Len(s) \in 1 .. Len(t) /\ x = t[i - Len(s)]
      BY <1>1, <1>2, <2>1, <2>3
    <3>. QED BY <3>1, ElementOf
  <2>. QED BY <2>2, <2>3
<1>. QED BY <1>1, <1>3, <1>4, <1>5

(* A piece and the remainder are what there was.                           *)
LEMMA RestOfCut ==
  ASSUME SyncInv
  PROVE  /\ Piece("loop") \in Seq(Nat) /\ Remainder \in Seq(Nat)
         /\ Len(Piece("loop")) = NextCut(job["loop"].buf, job["loop"].force)
         /\ Len(Piece("loop")) \in Nat /\ Len(Remainder) \in Nat
         /\ Len(Piece("loop")) + Len(Remainder) = Len(job["loop"].buf)
         /\ ToSet(Remainder) \subseteq ToSet(job["loop"].buf)
         /\ ToSet(job["loop"].buf) \subseteq ToSet(Piece("loop")) \cup ToSet(Remainder)
<1>. DEFINE buf == job["loop"].buf
            n   == NextCut(buf, job["loop"].force)
            m   == Len(buf)
<1>0. Piece("loop") = SubSeq(buf, 1, n) /\ Remainder = SubSeq(buf, n + 1, m)
  BY PieceTypes DEF Piece, Remainder, SyncInv, Workers
<1>1. /\ buf \in Seq(Nat) /\ n \in 0 .. m /\ Len(Piece("loop")) = n
      /\ Piece("loop") \in Seq(Nat) /\ Remainder \in Seq(Nat)
  BY PieceTypes DEF Remainder, SyncInv, Workers
<1>. HIDE DEF n
<1>2. m \in Nat /\ n \in Nat /\ n <= m
  BY <1>1
<1>3. m = Len(buf)
  OBVIOUS
<1>. HIDE DEF buf, m
<1>4. \A i \in 1 .. m : buf[i] \in Nat
  BY <1>1, <1>3
<1>5. /\ Len(SubSeq(buf, n + 1, m)) = m - n
      /\ \A i \in 1 .. m - n : SubSeq(buf, n + 1, m)[i] = buf[n + i]
  <2>1. \A i \in n + 1 .. m : buf[i] \in Nat
    BY <1>2, <1>4
  <2>2. /\ Len(SubSeq(buf, n + 1, m)) = IF n + 1 <= m THEN m - (n + 1) + 1 ELSE 0
        /\ \A i \in 1 .. m - (n + 1) + 1 : SubSeq(buf, n + 1, m)[i] = buf[(n + 1) + i - 1]
    BY <1>2, <2>1, SubSeqProperties
  <2>. QED BY <1>2, <2>2
<1>6. Len(Remainder) = m - n /\ \A i \in 1 .. m - n : Remainder[i] = buf[n + i]
  BY <1>0, <1>5, Zenon
<1>7. \A i \in 1 .. n : SubSeq(buf, 1, n)[i] = buf[i]
  <2>1. \A i \in 1 .. n : buf[i] \in Nat
    BY <1>2, <1>4
  <2>2. \A i \in 1 .. n - 1 + 1 : SubSeq(buf, 1, n)[i] = buf[1 + i - 1]
    BY <1>2, <2>1, SubSeqProperties
  <2>. QED BY <1>2, <2>2
<1>8. ASSUME NEW p \in ToSet(Remainder) PROVE p \in ToSet(buf)
  <2>1. PICK i \in 1 .. m - n : p = Remainder[i]
    BY <1>1, <1>6, <1>8 DEF ToSet
  <2>. DEFINE j == n + i
  <2>2. j \in 1 .. Len(buf) /\ p = buf[j]
    BY <1>2, <1>3, <1>6, <2>1
  <2>. HIDE DEF j
  <2>. QED BY <1>1, <2>2, ElementOf
<1>9. ASSUME NEW p \in ToSet(buf) PROVE p \in ToSet(Piece("loop")) \cup ToSet(Remainder)
  <2>1. PICK i \in 1 .. m : p = buf[i]
    BY <1>1, <1>3, <1>9 DEF ToSet
  <2>2. CASE i <= n
    <3>1. i \in 1 .. Len(Piece("loop")) /\ p = Piece("loop")[i]
      BY <1>0, <1>1, <1>2, <1>7, <2>1, <2>2
    <3>. QED BY <1>1, <3>1, ElementOf
  <2>3. CASE ~(i <= n)
    <3>. DEFINE j == i - n
    <3>1. j \in 1 .. m - n /\ n + j = i
      BY <1>2, <2>1, <2>3
    <3>2. j \in 1 .. Len(Remainder) /\ p = Remainder[j]
      BY <1>6, <2>1, <3>1
    <3>. HIDE DEF j
    <3>. QED BY <1>1, <3>2, ElementOf
  <2>. QED BY <2>2, <2>3
<1>10. /\ Len(Piece("loop")) + Len(Remainder) = m
       /\ Len(Piece("loop")) \in Nat /\ Len(Remainder) \in Nat
  <2>1. Len(Remainder) = m - n /\ Len(Piece("loop")) = n
    BY <1>1, <1>6
  <2>2. m - n \in Nat /\ n + (m - n) = m
    BY <1>2
  <2>. QED BY <1>2, <2>1, <2>2
<1>11. Len(Piece("loop")) + Len(Remainder) = Len(buf) /\ Len(Piece("loop")) = n
  BY <1>1, <1>3, <1>10
<1>. QED BY <1>1, <1>8, <1>9, <1>10, <1>11 DEF buf, n

(* A window arrives: its bytes are pending, and nothing is lost.           *)
LEMMA WindowLoss ==
  ASSUME SyncInv, LossOK, DebtsOK, NEW x \in Alone, NEW y \in {"more", "check"},
         Moves(x, {"off", "ci", "flush", "mayPend", y}), name \in Files, AtOffset # << >>,
         pending' = pending \o AtOffset, offset' = offset + Len(AtOffset),
         UNCHANGED <<running, name, savedOff, savedCi, savedPend, outbox, drive>>,
         UNCHANGED <<size, base, faults, chunkIndex>>
  PROVE  LossOK' /\ DebtsOK'
<1>. DEFINE s == {"off", "ci", "flush", "mayPend", y}
<1>0. name # None
  BY SyncAssumption
<1>1. /\ s \cap {"write", "count"} = {} /\ s \cap Loads = {} /\ "load" \notin s /\ "shrunk" \notin s
      /\ Moves(x, s) /\ "ci" \in s /\ s \cap {"flush", "flushAll"} # {} /\ "empty" \notin s
  BY DEF Loads
<1>. HIDE DEF s
<1>2. Begins(s)
  BY <1>0, <1>1 DEF Begins
<1>3. CutOK' /\ FlowOK'
  BY <1>1, <1>2, AloneFlow DEF LossOK
<1>4. /\ Left("loop") = {x} /\ Left("loop")' = s /\ x \notin Loads \cup Flushers \cup Saves
      /\ ~Has("loop", Flushers) /\ Has("loop", Flushers)'
      /\ \A f : Rest(f) = IF name # f THEN savedPend[f] ELSE pending
      /\ \A f : Rest(f)' = IF name' # f THEN savedPend'[f] ELSE pending'
      /\ \A f : Index(f) = IF name # f THEN savedCi[f] ELSE chunkIndex
      /\ \A f : Index(f)' = IF name' # f THEN savedCi'[f] ELSE chunkIndex'
  BY <1>1, AloneRest
<1>5. \A f : Index(f)' = Index(f)
  BY <1>4
<1>6. ChunksOK'
  BY DEF LossOK, ChunksOK
<1>7. /\ pending \in Seq(Nat) /\ AtOffset \in Seq(Nat) /\ offset \in Nat
      /\ ToSet(pending') = ToSet(pending) \cup ToSet(AtOffset)
      /\ Len(pending') = Len(pending) + Len(AtOffset)
  <2>1. pending \in Seq(Nat) /\ AtOffset \in Seq(Nat) /\ offset \in Nat
    BY AtOffsetTypes DEF SyncInv, SyncTypeOK
  <2>. QED BY <2>1, JoinedRange
<1>8. name \in Named =>
         /\ Len(AtOffset) \in Nat \ {0} /\ Len(AtOffset) <= Window
         /\ offset + Len(AtOffset) <= size[name]
         /\ \A p \in offset + 1 .. offset + Len(AtOffset) : p \in ToSet(AtOffset)
  BY ArrivedBytes DEF LossOK
<1>9. NamedOK'
  <2>1. ASSUME NEW f \in Named
        PROVE  /\ base'[f] = 0 /\ savedOff'[f] <= size'[f]
               /\ name' = f => /\ savedOff'[f] <= offset' /\ offset' <= size'[f]
                               /\ savedCi'[f] <= chunkIndex'
    <3>1. f \in Files /\ savedOff[f] \in Nat
      BY SyncAssumption DEF SyncInv, SyncTypeOK
    <3>. QED BY <1>7, <1>8, <3>1 DEF LossOK, NamedOK
  <2>. QED BY <1>1, <1>4, <2>1 DEF NamedOK
<1>10. name \in Named =>
          /\ Len(Rest(name)) \in Nat /\ Len(Rest(name)) <= LongestChunk - 1
          /\ Len(Rest(name)') = Len(Rest(name)) + Len(AtOffset)
  <2>. SUFFICES ASSUME name \in Named
                PROVE  /\ Len(Rest(name)) \in Nat /\ Len(Rest(name)) <= LongestChunk - 1
                       /\ Len(Rest(name)') = Len(Rest(name)) + Len(AtOffset)
    OBVIOUS
  <2>1. Rest(name) = pending /\ Rest(name)' = pending'
    BY <1>4
  <2>2. Len(Rest(name)) <= LongestChunk - 1 + 0
    BY <1>4 DEF LossOK, RestOK
  <2>. QED BY <1>7, <2>1, <2>2, Longest
<1>11. RestOK'
  <2>1. \A f \in Named : Len(savedPend'[f]) <= LongestChunk - 1
    BY DEF LossOK, RestOK
  <2>2. name' \in Named => Len(Rest(name)') <= LongestChunk - 1 + Window
    BY <1>8, <1>10, Longest
  <2>. QED BY <1>4, <2>1, <2>2 DEF RestOK
<1>12. PICK own : OwnOK(own) /\ \A f \in Named : DebtOK(f, own)
  BY DEF DebtsOK
<1>13. OwnOK(own)'
  <2>1. \A t \in own : savedCi'[name'] <= t[1] /\ t[1] < Index(name)'
    BY <1>5, <1>12 DEF OwnOK
  <2>2. name' \in Named => \A t \in Sizes(outbox', name') :
                              savedCi'[name'] <= t[1] /\ t[1] < Index(name)' => t \in own
    BY <1>5, <1>12 DEF OwnOK
  <2>3. name' \in Named => Weight(own) + Len(Rest(name)') <= LongestChunk - 1 + 2 * Window
    <3>1. SUFFICES ASSUME name \in Named
                   PROVE  Weight(own) + Len(Rest(name)') <= LongestChunk - 1 + 2 * Window
      OBVIOUS
    <3>2. Weight(own) \in Nat
      BY <1>12, WeightType DEF OwnOK
    <3>3. "ci" \notin Left("loop")
      BY <1>4 DEF Saves
    <3>4. Weight(own) + Len(Rest(name)) <= LongestChunk - 1 + Window
      BY <1>12, <3>1, <3>3 DEF OwnOK
    <3>5. PICK w \in Nat : w = Weight(own)
      BY <3>2
    <3>6. PICK r \in Nat : r = Len(Rest(name))
      BY <1>10, <3>1
    <3>7. PICK a \in Nat : a = Len(AtOffset) /\ a <= Window
      <4>1. Len(AtOffset) \in Nat /\ Len(AtOffset) <= Window
        BY <1>8, <3>1
      <4>. QED BY <4>1
    <3>8. Len(Rest(name)') = r + a
      BY <1>10, <3>1, <3>6, <3>7
    <3>9. w + r <= LongestChunk - 1 + Window
      BY <3>4, <3>5, <3>6
    <3>10. w + (r + a) <= LongestChunk - 1 + 2 * Window
      BY <3>7, <3>9, Longest
    <3>. QED BY <3>5, <3>8, <3>10
  <2>. QED BY <1>1, <1>4, <1>12, <2>1, <2>2, <2>3 DEF OwnOK
<1>14. ASSUME NEW f \in Named PROVE DebtOK(f, own)'
  <2>1. Stale(f)' = Stale(f) /\ Clash(f, own)' = Clash(f, own)
    BY <1>5 DEF Stale, Clash
  <2>2. Lost(f)' \subseteq Lost(f)
    <3>1. CASE f # name
      <4>1. Rest(f)' = Rest(f) /\ Fetched(f)' = Fetched(f)
        BY <1>4, <3>1 DEF Fetched
      <4>. QED BY <4>1 DEF Lost, Present
    <3>2. CASE f = name
      <4>1. /\ Present(f)' = Present(f) \cup ToSet(AtOffset)
        <5>1. ToSet(Rest(f)') = ToSet(Rest(f)) \cup ToSet(AtOffset)
          BY <1>4, <1>7, <3>2
        <5>. DEFINE passed == UNION {ToSet(c[2]) : c \in {d \in outbox \cup drive : d[1][1] = f}}
        <5>2. Present(f) = passed \cup ToSet(Rest(f)) /\ Present(f)' = passed' \cup ToSet(Rest(f)')
          BY DEF Present
        <5>3. passed' = passed
          OBVIOUS
        <5>. HIDE DEF passed
        <5>. QED BY <5>1, <5>2, <5>3
      <4>2. Fetched(f) = offset /\ Fetched(f)' = offset + Len(AtOffset)
        BY <3>2 DEF Fetched
      <4>3. ASSUME NEW p \in 1 .. offset + Len(AtOffset), p \notin Present(f)'
            PROVE  p \in 1 .. offset /\ p \notin Present(f)
        <5>1. p \notin Present(f) /\ p \notin ToSet(AtOffset)
          BY <4>1, <4>3
        <5>2. p \notin offset + 1 .. offset + Len(AtOffset)
          BY <1>8, <3>2, <5>1
        <5>3. Len(AtOffset) \in Nat
          BY <1>8, <3>2
        <5>. QED BY <1>7, <4>3, <5>1, <5>2, <5>3
      <4>. QED BY <4>2, <4>3 DEF Lost
    <3>. QED BY <3>1, <3>2
  <2>3. IsFiniteSet(Lost(f)) /\ Weight(Stale(f)) \in Nat /\ Weight(Clash(f, own)) \in Nat
    BY DebtTypes DEF LossOK
  <2>4. /\ Cardinality(Lost(f)') <= Cardinality(Lost(f))
        /\ Cardinality(Lost(f)') \in Nat /\ Cardinality(Lost(f)) \in Nat
    BY <2>2, <2>3, FS_Subset, FS_CardinalityType
  <2>5. Cardinality(Lost(f)') + Weight(Stale(f)) + Weight(Clash(f, own)) <= faults.kill * LossOfKill
    <3>. DEFINE bound == faults.kill * LossOfKill
    <3>1. Cardinality(Lost(f)) + Weight(Stale(f)) + Weight(Clash(f, own)) <= bound
      BY <1>12 DEF DebtOK
    <3>2. bound \in Nat
      BY BoundIsNat
    <3>. HIDE DEF bound
    <3>3. Cardinality(Lost(f)') + Weight(Stale(f)) + Weight(Clash(f, own)) <= bound
      BY <2>3, <2>4, <3>1, <3>2
    <3>. QED BY <3>3 DEF bound
  <2>. QED BY <2>1, <2>5 DEF DebtOK
<1>15. DebtsOK'
  BY <1>13, <1>14 DEF DebtsOK
<1>. QED BY <1>3, <1>6, <1>9, <1>11, <1>15 DEF LossOK

LEMMA FetchLoss ==
  ASSUME SyncInv, LossOK, DebtsOK, ~legacy, FetchWindow \/ FetchClosed
  PROVE  LossOK' /\ DebtsOK'
<1>1. /\ UNCHANGED <<running, name, savedOff, savedCi, savedPend, outbox, drive>>
      /\ UNCHANGED <<size, base, faults, chunkIndex>>
      /\ IF AtOffset = << >> THEN UNCHANGED <<pending, offset>>
         ELSE pending' = pending \o AtOffset /\ offset' = offset + Len(AtOffset)
  BY DEF FetchWindow, FetchClosed, Received, Outside, device, kept, cursors, history
<1>2. \E x \in Alone : \E s :
         /\ Moves(x, s) /\ Has("loop", Visiting) /\ "load" \notin Left("loop")
         /\ IF AtOffset = << >> THEN Begins(s) /\ "shrunk" \notin s
            ELSE \E y \in {"more", "check"} : s = {"off", "ci", "flush", "mayPend", y}
  <2>1. CASE FetchWindow
    <3>. DEFINE s == IF AtOffset = << >> THEN Saves \cup {"list"}
                     ELSE {"off", "ci", "flush", "mayPend", "more"}
    <3>1. Moves("fetch", s)
      BY <2>1, FetchMoves DEF SyncInv
    <3>2. Begins(Saves \cup {"list"}) /\ "shrunk" \notin Saves \cup {"list"}
      BY DEF Begins, Saves, Loads
    <3>3. "fetch" \in Alone /\ Has("loop", Visiting) /\ "load" \notin Left("loop")
      BY <3>1 DEF Moves, Has, Visiting, Alone
    <3>4. IF AtOffset = << >> THEN Begins(s) /\ "shrunk" \notin s
          ELSE \E y \in {"more", "check"} : s = {"off", "ci", "flush", "mayPend", y}
      BY <3>2
    <3>. HIDE DEF s
    <3>. QED BY <3>1, <3>3, <3>4
  <2>2. CASE FetchClosed
    <3>. DEFINE none == committed' = 0 /\ offset = 0 /\ pulled = 0
                s == IF AtOffset # << >> THEN {"off", "ci", "flush", "mayPend", "check"}
                     ELSE IF none THEN {"legacy"} ELSE {"finish"}
    <3>1. Moves("fetchClosed", s)
      BY <2>2, FetchClosedMoves DEF SyncInv
    <3>2. \A t \in {{"legacy"}, {"finish"}} : Begins(t) /\ "shrunk" \notin t
      BY DEF Begins, Loads
    <3>3. "fetchClosed" \in Alone /\ Has("loop", Visiting) /\ "load" \notin Left("loop")
      BY <3>1 DEF Moves, Has, Visiting, Closed, Alone
    <3>4. IF AtOffset = << >> THEN Begins(s) /\ "shrunk" \notin s
          ELSE \E y \in {"more", "check"} : s = {"off", "ci", "flush", "mayPend", y}
      BY <3>2
    <3>. HIDE DEF s
    <3>. QED BY <3>1, <3>3, <3>4
  <2>. QED BY <2>1, <2>2
<1>3. PICK x \in Alone : \E s :
         /\ Moves(x, s)
         /\ IF AtOffset = << >> THEN Begins(s) /\ "shrunk" \notin s
            ELSE \E y \in {"more", "check"} : s = {"off", "ci", "flush", "mayPend", y}
  BY <1>2
<1>4. name \in Files
  BY <1>2, NamedFile
<1>5. CASE AtOffset = << >>
  <2>1. PICK s : Moves(x, s) /\ Begins(s) /\ "shrunk" \notin s
    BY <1>3, <1>5
  <2>. QED BY <1>1, <1>5, <2>1, TurnLoss
<1>6. CASE AtOffset # << >>
  <2>1. PICK y \in {"more", "check"} : Moves(x, {"off", "ci", "flush", "mayPend", y})
    BY <1>3, <1>6
  <2>. QED BY <1>1, <1>4, <1>6, <2>1, WindowLoss
<1>. QED BY <1>5, <1>6
-----------------------------------------------------------------------------
(* _flushPending.                                                          *)
LEMMA ContinueLoss ==
  ASSUME SyncInv, LossOK, DebtsOK, NEW x \in Flushers, At("loop", x), NEW buf \in Seq(Nat),
         NEW force \in BOOLEAN, NEW cut \in BOOLEAN,
         Continue("loop", buf, force, cut, chunkIndex', Tail(plan["loop"])),
         Rest(name) = buf, cut \/ pending = buf, ToSet(buf) \subseteq ToSet(pending),
         Index(name) = chunkIndex', chunkIndex' \in Nat, chunkIndex' >= chunkIndex,
         UNCHANGED <<running, name, savedOff, savedCi, savedPend, outbox, drive>>,
         UNCHANGED <<size, base, faults, offset, todo, committed>>
  PROVE  LossOK' /\ DebtsOK'
<1>0. plan["loop"] \in Seq(Steps) /\ plan["loop"] # << >> /\ Tail(plan["loop"]) \in Seq(Steps)
  BY HeadTailProperties DEF SyncInv, PlanOK, Workers, At
<1>1. x \in Left("loop") /\ Has("loop", Flushers)
  BY <1>0 DEF At, Left, ToSet, Has
<1>2. ~Opening /\ name \in Files /\ name # None
  BY <1>1, Constants DEF LossOK, FlowOK, ChangeOK, CutOK, Has, Flushers, SyncInv, SyncTypeOK
<1>3. "load" \in Left("loop") => "pend" \in Left("loop") /\ "ci" \in Left("loop")
  BY <1>1, <1>2 DEF LossOK, FlowOK, ChangeOK
<1>4. \E y \in Flushers \cup {x} :
         /\ \/ /\ y = "write" /\ Left("loop")' = {"write"} \cup (Left("loop") \ {x})
               /\ NextCut(buf, force) > 0 /\ UNCHANGED pending /\ At("loop", "write")'
               /\ job'["loop"].buf = buf /\ job'["loop"].force = force
               /\ \E now \in Nat : job'["loop"].target = ChunkName(chunkIndex', now)
            \/ /\ ~(NextCut(buf, force) > 0) /\ pending' = buf
               /\ Left("loop")' = Left("loop") \ {x}
         /\ Left("loop") \ {x} \subseteq Steps \ Flushers
         /\ plan'["stop"] = plan["stop"]
  <2>1. NextCut(buf, force) \in 0 .. Len(buf)
    BY NextCutRange
  <2>2. CASE NextCut(buf, force) > 0
    <3>1. /\ Leave("loop", <<"write">> \o Tail(plan["loop"])) /\ UNCHANGED pending
          /\ job'["loop"].buf = buf /\ job'["loop"].force = force
          /\ job'["loop"].target = ChunkName(chunkIndex', clock')
      BY <2>2 DEF Continue, SyncInv, JobOK, Workers
    <3>2. Go("loop", <<"write">>)
      BY <3>1 DEF Leave, Go
    <3>3. /\ Left("loop") \ {x} \subseteq Steps \ Flushers
          /\ Left("loop")' = {"write"} \cup (Left("loop") \ {x})
          /\ plan'["stop"] = plan["stop"]
      BY <3>2, FlusherGoes DEF Flushers, Workers, SyncInv
    <3>4. clock' \in Nat
      BY ContinueTypes DEF SyncInv, Workers
    <3>5. At("loop", "write")'
      <4>1. plan'["loop"] = <<"write">> \o Tail(plan["loop"])
        BY <3>1 DEF Leave, SyncInv, PlanOK, Workers
      <4>2. <<"write">> \in Seq(Steps) /\ <<"write">> # << >> /\ Head(<<"write">>) = "write"
        BY DEF Steps, Flushers
      <4>. QED BY <1>0, <4>1, <4>2, HeadOfJoined DEF At
    <3>. QED BY <2>2, <3>1, <3>3, <3>4, <3>5 DEF Flushers
  <2>3. CASE ~(NextCut(buf, force) > 0)
    <3>1. Leave("loop", Tail(plan["loop"])) /\ pending' = buf
      BY <2>3 DEF Continue
    <3>2. << >> \o Tail(plan["loop"]) = Tail(plan["loop"])
      BY <1>0, ConcatEmptySeq
    <3>3. Go("loop", << >>)
      BY <3>1, <3>2 DEF Leave, Go
    <3>4. /\ Left("loop")' = Left("loop") \ {x} /\ Left("loop")' \subseteq Steps \ Flushers
          /\ plan'["stop"] = plan["stop"]
      BY <3>3, StepReturns, AfterIs DEF Workers, SyncInv
    <3>. QED BY <2>3, <3>1, <3>4
  <2>. QED BY <2>2, <2>3
<1>5. /\ Left("loop")' \ Flushers = Left("loop") \ Flushers /\ plan'["stop"] = plan["stop"]
      /\ \/ /\ Writing' /\ ~Counting' /\ UNCHANGED pending /\ At("loop", "write")'
            /\ job'["loop"].buf = buf /\ job'["loop"].force = force
            /\ NextCut(buf, force) > 0
            /\ \E now \in Nat : job'["loop"].target = ChunkName(chunkIndex', now)
         \/ /\ ~Writing' /\ ~Counting' /\ ~Has("loop", Flushers)' /\ pending' = buf
            /\ ~(NextCut(buf, force) > 0)
  BY <1>1, <1>4 DEF Writing, Counting, Has, Flushers
<1>6. ~Opening' /\ \A y \in Saves \cup Loads \cup {"shrunk"} : y \in Left("loop")' <=> y \in Left("loop")
  <2>1. \A y \in Saves \cup Loads \cup {"shrunk"} : y \notin Flushers
    BY DEF Saves, Loads, Flushers
  <2>. QED BY <1>2, <1>5, <2>1 DEF Opening, Loads
<1>7. \A f \in Files : /\ Rest(f)' = Rest(f) /\ Fetched(f)' = Fetched(f) /\ Index(f)' = Index(f)
                       /\ f = name => Rest(f) = buf
  BY <1>2, <1>5, <1>6 DEF Rest, Fetched, Index
<1>8. DebtsOK'
  BY <1>6, <1>7, DebtsStay, SyncAssumption DEF Saves
<1>9. ChunksOK'
  BY DEF LossOK, ChunksOK
<1>10. CutOK'
  BY <1>2, <1>5 DEF CutOK, Flushers, ChunkName
<1>11. FlowOK'
  <2>1. running
    BY <1>0 DEF LossOK, FlowOK
  <2>2. ChangeOK'
    BY <1>2, <1>3, <1>6 DEF LossOK, FlowOK, ChangeOK, Saves, Loads
  <2>3. ~("load" \in Left("loop")' /\ "ci" \notin Left("loop")')
    BY <1>3, <1>6 DEF Saves, Loads
  <2>. QED BY <1>5, <2>1, <2>2, <2>3 DEF LossOK, FlowOK
<1>12. NamedOK'
  <2>1. ASSUME NEW f \in Named
        PROVE  /\ base'[f] = 0 /\ savedOff'[f] <= size'[f]
               /\ name' = f => /\ savedOff'[f] <= offset' /\ offset' <= size'[f]
                               /\ savedCi'[f] <= chunkIndex'
    <3>1. savedCi[f] \in Nat /\ chunkIndex \in Nat
      BY SyncAssumption DEF SyncInv, SyncTypeOK
    <3>. QED BY <3>1 DEF LossOK, NamedOK
  <2>2. \A f \in Named : "shrunk" \in Left("loop")' /\ f = Head(todo') => Fetched(f)' <= committed'
    BY <1>6, <1>7, SyncAssumption DEF LossOK, NamedOK
  <2>. QED BY <2>1, <2>2 DEF NamedOK
<1>13. RestOK'
  <2>1. name \in Named => Len(buf) <= LongestChunk - 1 + Window
    BY <1>1 DEF LossOK, RestOK
  <2>2. ~(NextCut(buf, force) > 0) => Len(buf) <= LongestChunk - 1
    BY LeftIsShort
  <2>3. Rest(name)' = buf
    BY <1>2, <1>7
  <2>4. name' \in Named =>
          Len(Rest(name)') <= LongestChunk - 1 + IF Has("loop", Flushers)' THEN Window ELSE 0
    <3>1. Writing' => Has("loop", Flushers)'
      BY DEF Writing, Has, Flushers
    <3>. QED BY <1>5, <2>1, <2>2, <2>3, <3>1, Longest
  <2>. QED BY <2>4 DEF LossOK, RestOK
<1>. QED BY <1>8, <1>9, <1>10, <1>11, <1>12, <1>13 DEF LossOK

LEMMA FlushLoss ==
  ASSUME SyncInv, LossOK, DebtsOK, Flush("loop")
  PROVE  LossOK' /\ DebtsOK'
<1>1. PICK force \in BOOLEAN :
         /\ At("loop", IF force THEN "flushAll" ELSE "flush")
         /\ Continue("loop", pending, force, FALSE, chunkIndex, Tail(plan["loop"]))
  BY DEF Flush
<1>. DEFINE x == IF force THEN "flushAll" ELSE "flush"
<1>2. /\ UNCHANGED <<running, name, savedOff, savedCi, savedPend, outbox, drive>>
      /\ UNCHANGED <<size, base, faults, offset, todo, committed>> /\ chunkIndex' = chunkIndex
  BY DEF Flush, device, kept, cursors, locals, history
<1>3. plan["loop"] \in Seq(Steps) /\ InOrder(plan["loop"]) /\ plan["loop"] # << >>
      /\ Head(plan["loop"]) = x
  BY <1>1 DEF SyncInv, PlanOK, Workers, At
<1>4. x \in Flushers /\ x \in Left("loop") /\ Left("loop") \ {x} \subseteq Steps \ Flushers
  <2>1. x \in Flushers /\ After(x) = Steps \ Flushers
    BY AfterIs DEF Flushers
  <2>. HIDE DEF x
  <2>. QED BY <1>3, <2>1, TailInOrder DEF Left
<1>5. ~Writing /\ ~Counting /\ ~Opening
  BY <1>4 DEF Writing, Counting, Opening, Flushers, LossOK, FlowOK, ChangeOK
<1>6. /\ Rest(name) = pending /\ pending \in Seq(Nat) /\ Index(name) = chunkIndex'
      /\ chunkIndex' \in Nat /\ chunkIndex' >= chunkIndex
  BY <1>2, <1>5 DEF Rest, Index, SyncInv, SyncTypeOK
<1>7. /\ At("loop", x)
      /\ Continue("loop", pending, force, FALSE, chunkIndex', Tail(plan["loop"]))
  BY <1>1, <1>2
<1>. HIDE DEF x
<1>. QED BY <1>2, <1>4, <1>6, <1>7, ContinueLoss

LEMMA CountLoss ==
  ASSUME SyncInv, LossOK, DebtsOK, CountChunk("loop")
  PROVE  LossOK' /\ DebtsOK'
<1>1. /\ At("loop", "count") /\ chunkIndex' = chunkIndex + 1
      /\ Continue("loop", Remainder, job["loop"].force, TRUE, chunkIndex', Tail(plan["loop"]))
  BY DEF CountChunk, Remainder
<1>2. /\ UNCHANGED <<running, name, savedOff, savedCi, savedPend, outbox, drive>>
      /\ UNCHANGED <<size, base, faults, offset, todo, committed>>
  BY DEF CountChunk, device, kept, cursors, locals, history
<1>3. plan["loop"] \in Seq(Steps) /\ InOrder(plan["loop"]) /\ plan["loop"] # << >>
      /\ Head(plan["loop"]) = "count"
  BY <1>1 DEF SyncInv, PlanOK, Workers, At
<1>4. /\ "count" \in Flushers /\ "count" \in Left("loop")
      /\ Left("loop") \ {"count"} \subseteq Steps \ Flushers
  <2>1. "count" \in Flushers /\ After("count") = Steps \ Flushers
    BY AfterIs DEF Flushers
  <2>. QED BY <1>3, <2>1, TailInOrder DEF Left
<1>5. ~Writing /\ Counting /\ ~Opening
  BY <1>4 DEF Writing, Counting, Opening, Flushers, LossOK, FlowOK, ChangeOK
<1>6. /\ Rest(name) = Remainder /\ Index(name) = chunkIndex'
      /\ Remainder \in Seq(Nat) /\ job["loop"].force \in BOOLEAN
      /\ chunkIndex' \in Nat /\ chunkIndex' >= chunkIndex
  <2>1. Rest(name) = Remainder /\ Index(name) = chunkIndex'
    BY <1>1, <1>5 DEF Rest, Index
  <2>2. Remainder \in Seq(Nat) /\ job["loop"].force \in BOOLEAN
    BY PieceTypes DEF Remainder, SyncInv, Workers
  <2>3. chunkIndex \in Nat
    BY DEF SyncInv, SyncTypeOK
  <2>. QED BY <1>1, <2>1, <2>2, <2>3
<1>7. ToSet(Remainder) \subseteq ToSet(pending)
  BY <1>5, RestOfCut DEF LossOK, CutOK
<1>. QED BY <1>1, <1>2, <1>4, <1>6, <1>7, ContinueLoss
-----------------------------------------------------------------------------
LEMMA OneFlusher ==
  ASSUME PlanOK, NEW x \in Flushers, At("loop", x)
  PROVE  x \in Left("loop") /\ Left("loop") \ {x} \subseteq Steps \ Flushers
<1>1. /\ plan["loop"] \in Seq(Steps) /\ InOrder(plan["loop"]) /\ plan["loop"] # << >>
      /\ Head(plan["loop"]) = x
  BY DEF PlanOK, Workers, At
<1>2. After(x) = Steps \ Flushers
  BY AfterIs
<1>. QED BY <1>1, <1>2, TailInOrder DEF Left

(* A chunk file is written, perhaps over another one: `gone`.              *)
LEMMA TargetIs ==
  ASSUME SyncInv, LossOK, Writing
  PROVE  /\ job["loop"].target \in (Files \cup {None}) \X Nat /\ chunkIndex \in Nat
         /\ name \in Files
         /\ IF name \in Named THEN job["loop"].target = <<name, chunkIndex>>
            ELSE job["loop"].target[1] = None
<1>1. PICK now \in Nat : job["loop"].target = ChunkName(chunkIndex, now)
  BY DEF LossOK, CutOK
<1>2. chunkIndex \in Nat /\ name \in Files
  BY DEF LossOK, CutOK, Writing, Has, Flushers, SyncInv, SyncTypeOK
<1>. QED BY <1>1, <1>2 DEF ChunkName

Replaced(new, gone) ==
    /\ gone = << >> \/ <<chunkIndex, Len(gone)>> \in Sizes(outbox, name)
    /\ \A c \in outbox : c \in new \/ c[2] = gone

LEMMA SomeReplaced ==
  ASSUME LossOK, NEW new, NEW data, job["loop"].target = <<name, chunkIndex>>,
         new = Written(outbox, job["loop"].target, data)
  PROVE  \E gone \in Seq(Nat) : Replaced(new, gone)
<1>. DEFINE target == job["loop"].target
<1>1. /\ outbox \in SUBSET (((Files \cup {None}) \X Nat) \X Seq(Nat))
      /\ \A c, d \in outbox : c[1] = d[1] => c = d
      /\ new = {c \in outbox : c[1] # target} \cup {<<target, data>>}
  BY DEF LossOK, ChunksOK, Written
<1>. HIDE DEF target
<1>2. CASE \E c \in outbox : c[1] = target
  <2>1. PICK c \in outbox : c[1] = target
    BY <1>2
  <2>2. c[2] \in Seq(Nat) /\ <<chunkIndex, Len(c[2])>> \in Sizes(outbox, name)
    BY <1>1, <2>1 DEF Sizes, target
  <2>3. \A d \in outbox : d \in new \/ d[2] = c[2]
    BY <1>1, <2>1
  <2>. QED BY <2>2, <2>3 DEF Replaced
<1>3. CASE ~\E c \in outbox : c[1] = target
  <2>1. ASSUME NEW d \in outbox PROVE d \in new
    BY <1>1, <1>3
  <2>2. << >> \in Seq(Nat)
    OBVIOUS
  <2>. QED BY <2>1, <2>2 DEF Replaced
<1>. QED BY <1>2, <1>3

LEMMA WrittenIs ==
  ASSUME SyncInv, LossOK, Writing, NEW data \in Seq(Nat),
         outbox' = Written(outbox, job["loop"].target, data)
  PROVE  /\ outbox' \in SUBSET (((Files \cup {None}) \X Nat) \X Seq(Nat)) /\ IsFiniteSet(outbox')
         /\ \A c, d \in outbox' : c[1] = d[1] => c = d
         /\ \A f \in Named : f # name =>
               /\ \A d : d \in outbox' /\ d[1][1] = f <=> d \in outbox /\ d[1][1] = f
               /\ Sizes(outbox', f) = Sizes(outbox, f)
         /\ name \in Named =>
               /\ \A s \in Sizes(outbox', name) :
                     s = <<chunkIndex, Len(data)>> \/ (s \in Sizes(outbox, name) /\ s[1] # chunkIndex)
               /\ <<<<name, chunkIndex>>, data>> \in outbox'
<1>. DEFINE target == job["loop"].target
            left == {c \in outbox : c[1] # target}
            all  == ((Files \cup {None}) \X Nat) \X Seq(Nat)
<1>0. /\ target \in (Files \cup {None}) \X Nat /\ chunkIndex \in Nat
      /\ IF name \in Named THEN target = <<name, chunkIndex>> ELSE target[1] = None
  BY TargetIs
<1>1. /\ outbox \in SUBSET all /\ IsFiniteSet(outbox)
      /\ \A c, d \in outbox : c[1] = d[1] => c = d
  BY DEF LossOK, ChunksOK
<1>2. outbox' = left \cup {<<target, data>>}
  BY DEF Written
<1>. HIDE DEF target
<1>3. outbox' \in SUBSET all
  BY <1>0, <1>1, <1>2
<1>4. IsFiniteSet(outbox')
  <2>1. IsFiniteSet(left)
    BY <1>1, FS_Subset
  <2>. QED BY <1>2, <2>1, FS_AddElement
<1>5. \A c, d \in outbox' : c[1] = d[1] => c = d
  BY <1>1, <1>2
<1>6. ASSUME NEW f \in Named, f # name
      PROVE  /\ \A d : d \in outbox' /\ d[1][1] = f <=> d \in outbox /\ d[1][1] = f
             /\ Sizes(outbox', f) = Sizes(outbox, f)
  <2>1. target[1] # f
    BY <1>0, <1>6, SyncAssumption
  <2>2. \A d : d \in outbox' /\ d[1][1] = f <=> d \in outbox /\ d[1][1] = f
    BY <1>2, <2>1
  <2>3. {d \in outbox' : d[1][1] = f} = {d \in outbox : d[1][1] = f}
    BY <2>2
  <2>. QED BY <2>2, <2>3 DEF Sizes
<1>7. ASSUME name \in Named
      PROVE  /\ \A s \in Sizes(outbox', name) :
                   s = <<chunkIndex, Len(data)>> \/ (s \in Sizes(outbox, name) /\ s[1] # chunkIndex)
             /\ <<<<name, chunkIndex>>, data>> \in outbox'
  <2>0. target = <<name, chunkIndex>>
    BY <1>0, <1>7
  <2>1. ASSUME NEW s \in Sizes(outbox', name)
        PROVE  s = <<chunkIndex, Len(data)>> \/ (s \in Sizes(outbox, name) /\ s[1] # chunkIndex)
    <3>1. PICK c \in outbox' : c[1][1] = name /\ s = <<c[1][2], Len(c[2])>>
      BY DEF Sizes
    <3>2. CASE c = <<target, data>>
      BY <2>0, <3>1, <3>2
    <3>3. CASE c \in left
      <4>1. c \in outbox /\ c[1] # <<name, chunkIndex>> /\ c[1] \in (Files \cup {None}) \X Nat
        BY <1>1, <2>0, <3>3
      <4>2. c[1] = <<c[1][1], c[1][2]>>
        BY <4>1
      <4>3. c[1][2] # chunkIndex
        BY <3>1, <4>1, <4>2
      <4>. QED BY <3>1, <4>1, <4>3 DEF Sizes
    <3>. QED BY <1>2, <3>2, <3>3
  <2>. QED BY <1>2, <2>0, <2>1
<1>. QED BY <1>3, <1>4, <1>5, <1>6, <1>7

(* The chunk that was there was a stale one.                               *)
LEMMA StaleWithout ==
  ASSUME SyncInv, LossOK, NEW f \in Named, NEW i \in Nat, Index(f) = i, NEW gone \in Seq(Nat),
         gone = << >> \/ <<i, Len(gone)>> \in Sizes(outbox, f)
  PROVE  LET T == {s \in Stale(f) : s[1] # i}
         IN  /\ T \in SUBSET Pairs /\ IsFiniteSet(T) /\ Weight(T) \in Nat
             /\ Weight(T) + Len(gone) <= Weight(Stale(f))
<1>. DEFINE st == Stale(f)
            T  == {s \in st : s[1] # i}
<1>1. st \in SUBSET Pairs /\ IsFiniteSet(st) /\ Weight(st) \in Nat
  BY DebtTypes DEF LossOK
<1>2. <<i, Len(gone)>> \in Sizes(outbox, f) => <<i, Len(gone)>> \in st
  BY DEF Stale
<1>. HIDE DEF st
<1>3. /\ T \in SUBSET Pairs /\ IsFiniteSet(T) /\ Weight(T) \in Nat
      /\ Weight(T) <= Weight(st)
  <2>1. T \in SUBSET st
    OBVIOUS
  <2>. HIDE DEF T
  <2>. QED BY <1>1, <2>1, WeightGrows
<1>4. Weight(T) + Len(gone) <= Weight(st)
  <2>1. CASE gone = << >>
    BY <1>1, <1>3, <2>1
  <2>2. CASE <<i, Len(gone)>> \in Sizes(outbox, f)
    <3>1. PICK s : s = <<i, Len(gone)>>
      OBVIOUS
    <3>2. s \in st /\ s[1] = i /\ s[2] = Len(gone) /\ s[2] \in Nat
      BY <1>2, <2>2, <3>1
    <3>3. /\ Weight(st \ {s}) + s[2] = Weight(st) /\ Weight(st \ {s}) \in Nat
          /\ IsFiniteSet(st \ {s}) /\ st \ {s} \in SUBSET Pairs
      BY <1>1, <3>2, WeightWithout
    <3>4. T \in SUBSET (st \ {s})
      BY <3>2
    <3>. HIDE DEF T
    <3>5. Weight(T) <= Weight(st \ {s})
      BY <3>3, <3>4, WeightGrows
    <3>. QED BY <1>1, <1>3, <3>2, <3>3, <3>5
  <2>. QED BY <2>1, <2>2
<1>. QED BY <1>3, <1>4 DEF st, T

(* What a written chunk costs: the one that was there is lost, but that    *)
(* was owed already.                                                       *)
LEMMA WriteDebt ==
  ASSUME SyncInv, LossOK, NEW own, OwnOK(own), NEW f \in Named, DebtOK(f, own),
         f = name, f = name', Writing, ~Opening, ~Writing', Counting', ~Opening',
         NEW n \in Nat, n = Len(Piece("loop")), NEW own2, own2 = own \cup {<<chunkIndex, n>>},
         outbox' = Written(outbox, job["loop"].target, Piece("loop")),
         UNCHANGED <<drive, savedCi, chunkIndex, job, offset, faults>>
  PROVE  DebtOK(f, own2)'
<1>. DEFINE i == chunkIndex
<1>0. /\ Piece("loop") \in Seq(Nat) /\ Remainder \in Seq(Nat)
      /\ ToSet(job["loop"].buf) \subseteq ToSet(Piece("loop")) \cup ToSet(Remainder)
  BY RestOfCut
<1>1. /\ i \in Nat /\ \A c \in outbox : c[1] \in (Files \cup {None}) \X Nat
      /\ <<<<name, i>>, Piece("loop")>> \in outbox'
      /\ \A s \in Sizes(outbox', f) : s = <<i, n>> \/ (s \in Sizes(outbox, f) /\ s[1] # i)
  BY <1>0, TargetIs, WrittenIs DEF LossOK, ChunksOK
<1>2. PICK gone \in Seq(Nat) : /\ gone = << >> \/ <<i, Len(gone)>> \in Sizes(outbox, f)
                               /\ \A c \in outbox : c \in outbox' \/ c[2] = gone
  <2>1. \E gone \in Seq(Nat) : Replaced(outbox', gone)
    BY TargetIs, SomeReplaced
  <2>. QED BY <2>1 DEF Replaced
<1>3. Index(f) = i /\ Index(f)' = i + 1
  <2>1. ~Counting
    <3>1. \E x \in Flushers : At("loop", x)
      BY DEF LossOK, CutOK
    <3>2. PICK x \in Flushers : At("loop", x)
      BY <3>1
    <3>3. Left("loop") \cap Flushers \subseteq {x}
      BY <3>2, OneFlusher DEF SyncInv
    <3>. QED BY <3>3 DEF Writing, Counting, Flushers
  <2>. QED BY <2>1 DEF Index
<1>4. /\ Stale(f) \in SUBSET Pairs /\ IsFiniteSet(Stale(f)) /\ Weight(Stale(f)) \in Nat
      /\ Clash(f, own) \in SUBSET Pairs /\ IsFiniteSet(Clash(f, own))
      /\ Weight(Clash(f, own)) \in Nat
      /\ IsFiniteSet(Lost(f)) /\ Cardinality(Lost(f)) \in Nat
      /\ Sizes(outbox, f) \in SUBSET Pairs /\ Sizes(drive, f) \in SUBSET Pairs
  BY DebtTypes, SizesAre DEF LossOK, ChunksOK
<1>5. Weight(Stale(f)') + Len(gone) <= Weight(Stale(f)) /\ Weight(Stale(f)') \in Nat
  <2>1. Stale(f)' \subseteq Stale(f) /\ \A s \in Stale(f)' : s[1] # i
    <3>1. ASSUME NEW s \in Stale(f)' PROVE s \in Stale(f) /\ s[1] # i
      <4>1. s \in Sizes(outbox', f) /\ s[1] >= i + 1
        BY <1>3 DEF Stale
      <4>2. s[1] # i
        BY <1>1, <4>1
      <4>3. s \in Sizes(outbox, f) /\ s[1] \in Nat
        BY <1>1, <1>4, <4>1, <4>2 DEF Pairs
      <4>. QED BY <1>1, <1>3, <4>1, <4>2, <4>3 DEF Stale
    <3>. QED BY <3>1
  <2>. DEFINE T == {s \in Stale(f) : s[1] # i}
  <2>2. /\ T \in SUBSET Pairs /\ IsFiniteSet(T) /\ Weight(T) \in Nat
        /\ Weight(T) + Len(gone) <= Weight(Stale(f))
    BY <1>1, <1>2, <1>3, StaleWithout
  <2>3. Stale(f)' \in SUBSET T
    BY <2>1
  <2>. HIDE DEF T
  <2>4. Weight(Stale(f)') <= Weight(T) /\ Weight(Stale(f)') \in Nat
    BY <2>2, <2>3, WeightGrows
  <2>5. Len(gone) \in Nat
    OBVIOUS
  <2>. QED BY <1>4, <2>2, <2>4, <2>5
<1>6. Weight(Clash(f, own2)') <= Weight(Clash(f, own)) /\ Weight(Clash(f, own2)') \in Nat
  <2>1. ASSUME NEW s \in Clash(f, own2)' PROVE s \in Clash(f, own)
    <3>1. s \in Sizes(drive, f) /\ s[1] \in Nat
      BY <1>4, <2>1 DEF Clash, Pairs
    <3>2. s \in Sizes(outbox', f) \/ (s[1] >= savedCi[f] /\ s \notin own2)
      BY <2>1 DEF Clash
    <3>3. CASE s \in Sizes(outbox, f)
      BY <3>1, <3>3 DEF Clash
    <3>4. CASE s = <<i, n>>
      <4>1. savedCi[f] <= i /\ savedCi[f] \in Nat
        BY SyncAssumption DEF LossOK, NamedOK, SyncInv, SyncTypeOK
      <4>2. s \notin own
        BY <1>1, <1>3, <3>4 DEF OwnOK
      <4>. QED BY <1>1, <3>1, <3>4, <4>1, <4>2 DEF Clash
    <3>5. CASE s[1] >= savedCi[f] /\ s \notin own2
      BY <3>1, <3>5 DEF Clash
    <3>. QED BY <1>1, <3>2, <3>3, <3>4, <3>5
  <2>2. PICK T : T = Clash(f, own2)'
    OBVIOUS
  <2>3. T \in SUBSET Clash(f, own)
    BY <2>1, <2>2
  <2>4. Weight(T) <= Weight(Clash(f, own)) /\ Weight(T) \in Nat
    BY <1>4, <2>3, WeightGrows
  <2>. QED BY <2>2, <2>4
<1>7. Lost(f)' \subseteq Lost(f) \cup ToSet(gone)
  <2>1. Present(f) \subseteq Present(f)' \cup ToSet(gone)
    <3>1. ASSUME NEW p \in Present(f) PROVE p \in Present(f)' \cup ToSet(gone)
      <4>1. CASE p \in ToSet(Rest(f))
        <5>1. Rest(f) = job["loop"].buf /\ Rest(f)' = Remainder
          BY DEF Rest, Remainder, Piece
        <5>2. CASE p \in ToSet(Remainder)
          BY <5>1, <5>2 DEF Present
        <5>3. CASE p \in ToSet(Piece("loop"))
          <6>. DEFINE c == <<<<name, i>>, Piece("loop")>>
          <6>1. c \in outbox' \cup drive' /\ c[1][1] = f /\ p \in ToSet(c[2])
            BY <1>1, <5>3
          <6>. HIDE DEF c
          <6>. QED BY <6>1 DEF Present
        <5>. QED BY <1>0, <4>1, <5>1, <5>2, <5>3
      <4>2. CASE p \notin ToSet(Rest(f))
        <5>1. PICK c \in outbox \cup drive : c[1][1] = f /\ p \in ToSet(c[2])
          BY <4>2 DEF Present
        <5>2. c \in outbox' \cup drive' \/ c[2] = gone
          BY <1>2, <5>1
        <5>3. CASE c \in outbox' \cup drive'
          BY <5>1, <5>3 DEF Present
        <5>. QED BY <5>1, <5>2, <5>3
      <4>. QED BY <4>1, <4>2
    <3>. QED BY <3>1
  <2>2. Fetched(f)' = Fetched(f)
    BY DEF Fetched
  <2>. QED BY <2>1, <2>2 DEF Lost
<1>8. Cardinality(Lost(f)') <= Cardinality(Lost(f)) + Len(gone) /\ Cardinality(Lost(f)') \in Nat
  <2>1. IsFiniteSet(ToSet(gone)) /\ Cardinality(ToSet(gone)) <= Len(gone)
        /\ Cardinality(ToSet(gone)) \in Nat /\ Len(gone) \in Nat
    BY SizeOfRange
  <2>2. Lost(f)' \in SUBSET (Lost(f) \cup ToSet(gone))
    BY <1>7
  <2>3. /\ Cardinality(Lost(f)') <= Cardinality(Lost(f)) + Cardinality(ToSet(gone))
        /\ Cardinality(Lost(f)') \in Nat
    BY <1>4, <2>1, <2>2, SizeOfMore
  <2>. QED BY <1>4, <2>1, <2>3
<1>9. Cardinality(Lost(f)') + Weight(Stale(f)') + Weight(Clash(f, own2)') <= faults.kill * LossOfKill
  <2>. DEFINE bound == faults.kill * LossOfKill
  <2>1. Cardinality(Lost(f)) + Weight(Stale(f)) + Weight(Clash(f, own)) <= bound
    BY DEF DebtOK
  <2>2. bound \in Nat
    BY BoundIsNat
  <2>3. Len(gone) \in Nat
    OBVIOUS
  <2>. HIDE DEF bound
  <2>4. Cardinality(Lost(f)') + Weight(Stale(f)') + Weight(Clash(f, own2)') <= bound
    BY <1>4, <1>5, <1>6, <1>8, <2>1, <2>2, <2>3
  <2>. QED BY <2>4 DEF bound
<1>. QED BY <1>9 DEF DebtOK

LEMMA WriteLoss ==
  ASSUME SyncInv, LossOK, DebtsOK, WriteChunk("loop")
  PROVE  LossOK' /\ DebtsOK'
<1>1. At("loop", "write") /\ Go("loop", <<"count">>)
  BY DEF WriteChunk
<1>2. /\ "write" \in Left("loop") /\ Left("loop") \ {"write"} \subseteq Steps \ Flushers
      /\ Left("loop")' = {"count"} \cup (Left("loop") \ {"write"})
      /\ plan'["stop"] = plan["stop"]
  BY <1>1, FlusherGoes DEF SyncInv, Workers, Flushers
<1>3. /\ UNCHANGED <<size, base, running, name, offset, chunkIndex, savedOff, savedCi, savedPend>>
      /\ UNCHANGED <<pending, job, drive, faults, todo, committed>>
      /\ outbox' = Written(outbox, job["loop"].target, Piece("loop"))
  BY DEF WriteChunk, device, cursors, object, locals
<1>4. /\ Writing /\ ~Counting /\ ~Opening /\ ~Writing' /\ Counting' /\ ~Opening'
      /\ Has("loop", Flushers) /\ Has("loop", Flushers)'
  BY <1>2 DEF Writing, Counting, Opening, Flushers, Has, LossOK, FlowOK, ChangeOK
<1>0. PICK n \in Nat : n = Len(Piece("loop"))
  <2>1. Len(Piece("loop")) \in Nat
    <3>1. Writing
      BY <1>2 DEF Writing
    <3>. QED BY <3>1, RestOfCut
  <2>. QED BY <2>1
<1>5. /\ Piece("loop") \in Seq(Nat) /\ Remainder \in Seq(Nat) /\ n \in Nat /\ Len(Remainder) \in Nat
      /\ n + Len(Remainder) = Len(job["loop"].buf)
  BY <1>0, RestOfCut
<1>6. /\ name \in Files /\ name # None /\ chunkIndex \in Nat
  BY <1>4, TargetIs, Constants
<1>7. At("loop", "count")'
  <2>1. plan["loop"] \in Seq(Steps) /\ plan["loop"] # << >>
    BY <1>1 DEF SyncInv, PlanOK, Workers, At
  <2>2. plan'["loop"] = <<"count">> \o Tail(plan["loop"])
    BY <1>1 DEF Go, SyncInv, PlanOK, Workers
  <2>3. <<"count">> \in Seq(Steps) /\ <<"count">> # << >> /\ Head(<<"count">>) = "count"
    BY DEF Steps, Flushers
  <2>4. Tail(plan["loop"]) \in Seq(Steps)
    BY <2>1, HeadTailProperties
  <2>. QED BY <2>2, <2>3, <2>4, HeadOfJoined DEF At
<1>8. \A y \in Saves \cup Loads \cup {"shrunk"} : y \in Left("loop")' <=> y \in Left("loop")
  <2>1. \A y \in Saves \cup Loads \cup {"shrunk"} : y \notin Flushers
    BY DEF Saves, Loads, Flushers
  <2>. QED BY <1>2, <2>1 DEF Flushers
<1>9. \A f \in Files : /\ f # name => Rest(f)' = Rest(f) /\ Index(f)' = Index(f)
                       /\ f = name => /\ Rest(f) = job["loop"].buf /\ Rest(f)' = Remainder
                                      /\ Index(f) = chunkIndex /\ Index(f)' = chunkIndex + 1
                       /\ Fetched(f)' = Fetched(f)
  BY <1>3, <1>4 DEF Rest, Remainder, Piece, Index, Fetched
<1>10. ChunksOK'
  <2>1. /\ outbox' \in SUBSET (((Files \cup {None}) \X Nat) \X Seq(Nat)) /\ IsFiniteSet(outbox')
        /\ \A c, d \in outbox' : c[1] = d[1] => c = d
    BY <1>3, <1>4, <1>5, WrittenIs
  <2>. QED BY <1>3, <2>1 DEF LossOK, ChunksOK
<1>11. CutOK'
  <2>1. /\ NextCut(job["loop"].buf, job["loop"].force) > 0
        /\ ToSet(job["loop"].buf) \subseteq ToSet(pending)
    BY <1>4 DEF LossOK, CutOK
  <2>. QED BY <1>3, <1>4, <1>6, <1>7, <2>1 DEF CutOK, Flushers
<1>12. FlowOK'
  <2>1. running
    BY <1>1 DEF LossOK, FlowOK, At
  <2>2. "load" \in Left("loop") => "pend" \in Left("loop") /\ "ci" \in Left("loop")
    BY <1>4, <1>6 DEF LossOK, FlowOK, ChangeOK
  <2>3. ChangeOK'
    BY <1>3, <1>4, <1>6, <1>8, <2>2 DEF LossOK, FlowOK, ChangeOK, Saves, Loads
  <2>4. ~("load" \in Left("loop")' /\ "ci" \notin Left("loop")')
    BY <1>8, <2>2 DEF Saves, Loads
  <2>. QED BY <1>2, <1>3, <2>1, <2>3, <2>4 DEF LossOK, FlowOK
<1>13. NamedOK'
  <2>1. ASSUME NEW f \in Named
        PROVE  /\ base'[f] = 0 /\ savedOff'[f] <= size'[f]
               /\ name' = f => /\ savedOff'[f] <= offset' /\ offset' <= size'[f]
                               /\ savedCi'[f] <= chunkIndex'
    BY <1>3 DEF LossOK, NamedOK
  <2>2. \A f \in Named : "shrunk" \in Left("loop")' /\ f = Head(todo') => Fetched(f)' <= committed'
    BY <1>3, <1>8, <1>9, SyncAssumption DEF LossOK, NamedOK
  <2>. QED BY <2>1, <2>2 DEF NamedOK
<1>14. RestOK'
  <2>1. name \in Named => Len(job["loop"].buf) <= LongestChunk - 1 + Window
    BY <1>4, <1>6, <1>9 DEF LossOK, RestOK
  <2>2. Rest(name)' = Remainder
    BY <1>3, <1>4, <1>6 DEF Rest, Remainder, Piece
  <2>3. name' \in Named =>
          Len(Rest(name)') <= LongestChunk - 1 + IF Has("loop", Flushers)' THEN Window ELSE 0
    BY <1>3, <1>4, <1>5, <2>1, <2>2, Longest
  <2>. QED BY <1>3, <2>3 DEF LossOK, RestOK
<1>15. PICK own : OwnOK(own) /\ \A f \in Named : DebtOK(f, own)
  BY DEF DebtsOK
<1>16. ASSUME NEW f \in Named, f # name, NEW own2 PROVE DebtOK(f, own2)'
  <2>1. /\ \A d : d \in outbox' /\ d[1][1] = f <=> d \in outbox /\ d[1][1] = f
        /\ Sizes(outbox', f) = Sizes(outbox, f)
    BY <1>3, <1>4, <1>5, <1>16, WrittenIs
  <2>2. Rest(f)' = Rest(f) /\ Index(f)' = Index(f) /\ Fetched(f)' = Fetched(f)
    BY <1>9, <1>16, SyncAssumption
  <2>3. Stale(f)' = Stale(f)
    BY <2>1, <2>2 DEF Stale
  <2>4. Clash(f, own2)' = Clash(f, own)
    BY <1>3, <1>16, <2>1 DEF Clash
  <2>5. Present(f)' = Present(f)
    <3>1. {d \in outbox' \cup drive' : d[1][1] = f} = {d \in outbox \cup drive : d[1][1] = f}
      BY <1>3, <2>1
    <3>. QED BY <2>2, <3>1 DEF Present
  <2>6. Lost(f)' = Lost(f)
    BY <2>2, <2>5 DEF Lost
  <2>. QED BY <1>3, <1>15, <2>3, <2>4, <2>6 DEF DebtOK
<1>17. CASE name \notin Named
  <2>1. OwnOK(own)'
    BY <1>3, <1>15, <1>17 DEF OwnOK
  <2>2. \A f \in Named : DebtOK(f, own)'
    BY <1>16, <1>17
  <2>3. DebtsOK'
    BY <2>1, <2>2 DEF DebtsOK
  <2>. QED BY <1>10, <1>11, <1>12, <1>13, <1>14, <2>3 DEF LossOK
<1>18. CASE name \in Named
  <2>0. PICK own2 : own2 = own \cup {<<chunkIndex, n>>}
    OBVIOUS
  <2>1. \A f \in Named : DebtOK(f, own2)'
    <3>1. ASSUME NEW f \in Named, f = name PROVE DebtOK(f, own2)'
      <4>1. f = name'
        BY <1>3, <3>1
      <4>2. Len(Piece("loop")) \in Nat /\ n = Len(Piece("loop"))
        BY <1>0
      <4>3. /\ outbox' = Written(outbox, job["loop"].target, Piece("loop"))
            /\ UNCHANGED <<drive, savedCi, chunkIndex, job, offset, faults>>
        BY <1>3
      <4>4. OwnOK(own) /\ DebtOK(f, own)
        BY <1>15
      <4>. QED BY <1>4, <2>0, <3>1, <4>1, <4>2, <4>3, <4>4, WriteDebt
    <3>. QED BY <1>16, <3>1
  <2>2. /\ own \in SUBSET Pairs /\ IsFiniteSet(own)
        /\ {<<chunkIndex, n>>} \in SUBSET Pairs /\ IsFiniteSet({<<chunkIndex, n>>})
        /\ Weight({<<chunkIndex, n>>}) = n
    <3>. DEFINE s == <<chunkIndex, n>>
    <3>1. s \in Pairs /\ s[2] = n
      BY <1>5, <1>6 DEF Pairs
    <3>. HIDE DEF s
    <3>2. {s} \in SUBSET Pairs /\ IsFiniteSet({s}) /\ Weight({s}) = n
      BY <3>1, WeightOfOne
    <3>. QED BY <1>15, <3>2 DEF OwnOK, s
  <2>3. /\ own2 \in SUBSET Pairs /\ IsFiniteSet(own2) /\ Weight(own2) <= Weight(own) + n
        /\ Weight(own2) \in Nat /\ Weight(own) \in Nat
    BY <2>0, <2>2, WeightOfUnion
  <2>4. Index(name) = chunkIndex /\ Index(name)' = chunkIndex + 1
        /\ Rest(name) = job["loop"].buf /\ Rest(name)' = Remainder
    BY <1>3, <1>4, <1>6 DEF Rest, Index, Remainder, Piece
  <2>5. savedCi[name] <= chunkIndex /\ savedCi[name] \in Nat
    BY <1>6, <1>18 DEF LossOK, NamedOK, SyncInv, SyncTypeOK
  <2>6. ASSUME NEW s \in own2 PROVE savedCi'[name'] <= s[1] /\ s[1] < Index(name)'
    <3>1. CASE s \in own
      <4>1. savedCi[name] <= s[1] /\ s[1] < chunkIndex /\ s[1] \in Nat
        BY <1>15, <2>2, <2>4, <3>1 DEF OwnOK, Pairs
      <4>. QED BY <1>3, <1>6, <2>4, <4>1
    <3>2. CASE s = <<chunkIndex, n>>
      BY <1>3, <1>6, <2>4, <2>5, <3>2
    <3>. QED BY <2>0, <3>1, <3>2
  <2>7. ASSUME NEW s \in Sizes(outbox', name'), savedCi'[name'] <= s[1], s[1] < Index(name)'
        PROVE  s \in own2
    <3>1. s = <<chunkIndex, n>> \/ (s \in Sizes(outbox, name) /\ s[1] # chunkIndex)
      BY <1>0, <1>3, <1>4, <1>5, <1>18, <2>7, WrittenIs
    <3>2. CASE s \in Sizes(outbox, name) /\ s[1] # chunkIndex
      <4>1. s[1] \in Nat
        BY <3>2, SizesAre DEF LossOK, ChunksOK, Pairs
      <4>2. savedCi[name] <= s[1] /\ s[1] < Index(name)
        BY <1>3, <1>6, <2>4, <2>7, <3>2, <4>1
      <4>. QED BY <1>15, <1>18, <2>0, <3>2, <4>2 DEF OwnOK
    <3>. QED BY <2>0, <3>1, <3>2
  <2>8. Weight(own2) + Len(Rest(name)')
          <= LongestChunk - 1 + IF "ci" \in Left("loop")' THEN 2 * Window ELSE Window
    <3>. DEFINE most == LongestChunk - 1 + IF "ci" \in Left("loop") THEN 2 * Window ELSE Window
    <3>1. Weight(own) + Len(Rest(name)) <= most
      BY <1>15, <1>18 DEF OwnOK
    <3>2. most \in Nat /\ most = LongestChunk - 1 + IF "ci" \in Left("loop")' THEN 2 * Window ELSE Window
      BY <1>8, Longest DEF Saves
    <3>. HIDE DEF most
    <3>3. Weight(own2) + Len(Rest(name)') <= most
      BY <1>5, <2>3, <2>4, <3>1, <3>2
    <3>. QED BY <3>2, <3>3
  <2>9. OwnOK(own2)'
    <3>1. name' = name /\ name \in Named
      BY <1>3, <1>18
    <3>2. \A s \in own2 : savedCi'[name'] <= s[1] /\ s[1] < Index(name)'
      BY <2>6
    <3>3. \A s \in Sizes(outbox', name') : savedCi'[name'] <= s[1] /\ s[1] < Index(name)' => s \in own2
      BY <2>7
    <3>. QED BY <2>3, <2>8, <3>1, <3>2, <3>3 DEF OwnOK
  <2>10. DebtsOK'
    BY <2>1, <2>9 DEF DebtsOK
  <2>. QED BY <1>10, <1>11, <1>12, <1>13, <1>14, <2>10 DEF LossOK
<1>. QED BY <1>17, <1>18
-----------------------------------------------------------------------------
(* An unsaved chunk that the cursor has not passed is a stale one.         *)
LEMMA UnsavedIsStale ==
  ASSUME SyncInv, LossOK, NEW own, OwnOK(own), NEW f \in Named, NEW s \in Sizes(outbox, f),
         s[1] >= savedCi[f], f = name => s \notin own
  PROVE  s \in Stale(f)
<1>1. s[1] \in Nat
  BY SizesAre DEF LossOK, ChunksOK, Pairs
<1>2. CASE name # f
  BY <1>2 DEF Stale, Index
<1>3. CASE name = f
  <2>1. Index(f) \in Nat /\ savedCi[f] \in Nat
    BY SyncAssumption DEF Index, SyncInv, SyncTypeOK
  <2>2. ~(s[1] < Index(f))
    BY <1>3 DEF OwnOK
  <2>. QED BY <1>1, <2>1, <2>2 DEF Stale
<1>. QED BY <1>2, <1>3

(* A chunk of f is uploaded, or taken for one that is on Drive.            *)
LEMMA SentDebt ==
  ASSUME SyncInv, LossOK, NEW own, OwnOK(own), NEW f \in Named, DebtOK(f, own),
         NEW c \in outbox, c[1][1] = f, outbox' = outbox \ {c},
         drive' = IF \E d \in drive : d[1] = c[1] /\ Len(d[2]) = Len(c[2])
                  THEN drive ELSE drive \cup {c},
         UNCHANGED <<savedOff, savedCi, savedPend, name, offset, chunkIndex, pending, plan, job,
                     faults>>
  PROVE  DebtOK(f, own)'
<1>1. /\ outbox \in SUBSET (((Files \cup {None}) \X Nat) \X Seq(Nat))
      /\ drive \in SUBSET (((Files \cup {None}) \X Nat) \X Seq(Nat))
      /\ \A d \in outbox : d[1] = c[1] => d = c
  BY DEF LossOK, ChunksOK
<1>2. PICK s : s = <<c[1][2], Len(c[2])>>
  OBVIOUS
<1>3. c[1] \in (Files \cup {None}) \X Nat /\ c[1] = <<f, s[1]>> /\ c[2] \in Seq(Nat)
      /\ s[2] = Len(c[2]) /\ s \in Pairs /\ s[1] \in Nat /\ s[2] \in Nat
  BY <1>1, <1>2 DEF Pairs
<1>4. s \in Sizes(outbox, f)
  BY <1>2 DEF Sizes
<1>5. \A t \in Sizes(outbox', f) : t \in Sizes(outbox, f) /\ t # s
  <2>1. ASSUME NEW t \in Sizes(outbox', f) PROVE t \in Sizes(outbox, f) /\ t # s
    <3>1. PICK d \in outbox : d # c /\ d[1][1] = f /\ t = <<d[1][2], Len(d[2])>>
      BY DEF Sizes
    <3>2. d[1] # c[1] /\ d[1] \in (Files \cup {None}) \X Nat
      BY <1>1, <3>1
    <3>3. d[1] = <<f, t[1]>>
      BY <3>1, <3>2
    <3>4. t[1] # s[1]
      BY <1>3, <3>2, <3>3
    <3>5. t \in Sizes(outbox, f)
      BY <3>1 DEF Sizes
    <3>. QED BY <3>4, <3>5
  <2>. QED BY <2>1
<1>6. Index(f)' = Index(f) /\ Rest(f)' = Rest(f) /\ Fetched(f)' = Fetched(f)
  BY DEF Index, Rest, Remainder, Piece, Fetched, Counting, Writing, Opening, Left
<1>. DEFINE st == Stale(f)
            cl == Clash(f, own)
            lo == Lost(f)
<1>7. /\ st \in SUBSET Pairs /\ IsFiniteSet(st) /\ Weight(st) \in Nat
      /\ cl \in SUBSET Pairs /\ IsFiniteSet(cl) /\ Weight(cl) \in Nat
      /\ IsFiniteSet(lo) /\ Cardinality(lo) \in Nat
  BY DebtTypes DEF LossOK
<1>8. st' \in SUBSET (st \ {s})
  BY <1>5, <1>6 DEF Stale
<1>9. /\ Weight(st') <= Weight(st) /\ Weight(st') \in Nat
      /\ s \in st => Weight(st') + s[2] <= Weight(st)
  <2>. HIDE DEF st
  <2>1. st' \in SUBSET st
    BY <1>8
  <2>2. Weight(st') <= Weight(st) /\ Weight(st') \in Nat
    BY <1>7, <2>1, WeightGrows
  <2>3. ASSUME s \in st PROVE Weight(st') + s[2] <= Weight(st)
    <3>1. /\ Weight(st \ {s}) + s[2] = Weight(st) /\ Weight(st \ {s}) \in Nat
          /\ IsFiniteSet(st \ {s}) /\ st \ {s} \in SUBSET Pairs
      BY <1>7, <2>3, WeightWithout
    <3>2. Weight(st') <= Weight(st \ {s})
      BY <1>8, <3>1, WeightGrows
    <3>. QED BY <1>3, <1>7, <2>2, <3>1, <3>2
  <2>. QED BY <2>2, <2>3
<1>10. s \in Sizes(outbox, f) /\ s[1] >= savedCi[f] /\ (f = name => s \notin own) => s \in st
  BY UnsavedIsStale
<1>. DEFINE bound == faults.kill * LossOfKill
<1>11. /\ Cardinality(lo) + Weight(st) + Weight(cl) <= bound
       /\ bound \in Nat
  BY BoundIsNat DEF DebtOK
<1>12. CASE \E d \in drive : d[1] = c[1] /\ Len(d[2]) = Len(c[2])
  <2>1. PICK d \in drive : d[1] = c[1] /\ Len(d[2]) = Len(c[2])
    BY <1>12
  <2>2. drive' = drive /\ s \in Sizes(drive, f)
    BY <1>2, <1>3, <2>1 DEF Sizes
  <2>3. s \in cl
    BY <1>4, <2>2 DEF Clash
  <2>4. cl' \in SUBSET cl
    BY <1>5, <2>2 DEF Clash
  <2>5. s \notin st => s \notin cl'
    BY <1>4, <1>5, <1>10, <2>2 DEF Clash
  <2>6. lo' \in SUBSET (lo \cup ToSet(c[2]))
    <3>1. Present(f) \subseteq Present(f)' \cup ToSet(c[2])
      BY <1>6, <2>2 DEF Present
    <3>. QED BY <1>6, <3>1 DEF Lost
  <2>. HIDE DEF st, cl, lo, bound
  <2>7. /\ Cardinality(lo') <= Cardinality(lo) + s[2] /\ Cardinality(lo') \in Nat
    <3>1. IsFiniteSet(ToSet(c[2])) /\ Cardinality(ToSet(c[2])) <= s[2]
          /\ Cardinality(ToSet(c[2])) \in Nat
      BY <1>3, SizeOfRange
    <3>2. /\ Cardinality(lo') <= Cardinality(lo) + Cardinality(ToSet(c[2]))
          /\ Cardinality(lo') \in Nat
      BY <1>7, <2>6, <3>1, SizeOfMore
    <3>. QED BY <1>3, <1>7, <3>1, <3>2
  <2>8. Weight(cl') <= Weight(cl) /\ Weight(cl') \in Nat
    BY <1>7, <2>4, WeightGrows
  <2>9. Weight(st') + Weight(cl') + s[2] <= Weight(st) + Weight(cl)
    <3>1. CASE s \in st
      BY <1>3, <1>7, <1>9, <2>8, <3>1
    <3>2. CASE s \notin st
      <4>1. cl' \in SUBSET (cl \ {s})
        BY <2>4, <2>5, <3>2
      <4>2. /\ Weight(cl \ {s}) + s[2] = Weight(cl) /\ Weight(cl \ {s}) \in Nat
            /\ IsFiniteSet(cl \ {s}) /\ cl \ {s} \in SUBSET Pairs
        BY <1>7, <2>3, WeightWithout
      <4>3. Weight(cl') <= Weight(cl \ {s})
        BY <4>1, <4>2, WeightGrows
      <4>. QED BY <1>3, <1>7, <1>9, <2>8, <4>2, <4>3
    <3>. QED BY <3>1, <3>2
  <2>10. Cardinality(lo') + Weight(st') + Weight(cl') <= bound
    <3>1. /\ Cardinality(lo) \in Nat /\ Weight(st) \in Nat /\ Weight(cl) \in Nat
          /\ Cardinality(lo') \in Nat /\ Weight(st') \in Nat /\ Weight(cl') \in Nat
          /\ s[2] \in Nat
      BY <1>3, <1>7, <1>9, <2>7, <2>8
    <3>2. PICK x \in Nat : x = s[2]
      BY <3>1
    <3>3. PICK l \in Nat : l = Cardinality(lo)
      BY <3>1
    <3>4. PICK a \in Nat : a = Weight(st)
      BY <3>1
    <3>5. PICK b \in Nat : b = Weight(cl)
      BY <3>1
    <3>6. PICK l2 \in Nat : l2 = Cardinality(lo')
      BY <3>1
    <3>7. PICK a2 \in Nat : a2 = Weight(st')
      BY <3>1
    <3>8. PICK b2 \in Nat : b2 = Weight(cl')
      BY <3>1
    <3>9. l2 <= l + x
      BY <2>7, <3>2, <3>3, <3>6
    <3>10. a2 + b2 + x <= a + b
      BY <2>9, <3>2, <3>4, <3>5, <3>7, <3>8
    <3>11. l + a + b <= bound /\ bound \in Nat
      BY <1>11, <3>3, <3>4, <3>5
    <3>12. l2 + a2 + b2 <= bound
      BY <3>9, <3>10, <3>11
    <3>. QED BY <3>6, <3>7, <3>8, <3>12
  <2>. QED BY <2>10 DEF DebtOK, st, cl, lo, bound
<1>13. CASE ~\E d \in drive : d[1] = c[1] /\ Len(d[2]) = Len(c[2])
  <2>1. drive' = drive \cup {c}
    BY <1>13
  <2>2. \A t \in Sizes(drive', f) : t = s \/ t \in Sizes(drive, f)
    BY <1>2, <2>1 DEF Sizes
  <2>3. cl' \in SUBSET (cl \cup {s}) /\ (s \in cl' => s \in st \/ s \in cl)
    BY <1>4, <1>5, <1>10, <2>2 DEF Clash
  <2>4. lo' \in SUBSET lo
    <3>1. outbox' \cup drive' = outbox \cup drive
      BY <2>1
    <3>2. Present(f)' = Present(f)
      BY <1>6, <3>1 DEF Present
    <3>. QED BY <1>6, <3>2 DEF Lost
  <2>. HIDE DEF st, cl, lo, bound
  <2>5. Cardinality(lo') <= Cardinality(lo) /\ Cardinality(lo') \in Nat
    BY <1>7, <2>4, FS_Subset, FS_CardinalityType
  <2>6. Weight(st') + Weight(cl') <= Weight(st) + Weight(cl) /\ Weight(cl') \in Nat
    <3>1. CASE s \in cl' /\ s \notin cl
      <4>1. {s} \in SUBSET Pairs /\ IsFiniteSet({s}) /\ Weight({s}) = s[2]
        BY <1>3, WeightOfOne
      <4>2. /\ IsFiniteSet(cl \cup {s}) /\ cl \cup {s} \in SUBSET Pairs
            /\ Weight(cl \cup {s}) <= Weight(cl) + s[2] /\ Weight(cl \cup {s}) \in Nat
        BY <1>7, <4>1, WeightOfUnion
      <4>3. Weight(cl') <= Weight(cl \cup {s}) /\ Weight(cl') \in Nat
        BY <2>3, <4>2, WeightGrows
      <4>. QED BY <1>3, <1>7, <1>9, <2>3, <3>1, <4>2, <4>3
    <3>2. CASE s \notin cl' \/ s \in cl
      <4>1. cl' \in SUBSET cl
        BY <2>3, <3>2
      <4>2. Weight(cl') <= Weight(cl) /\ Weight(cl') \in Nat
        BY <1>7, <4>1, WeightGrows
      <4>. QED BY <1>7, <1>9, <4>2
    <3>. QED BY <3>1, <3>2
  <2>7. Cardinality(lo') + Weight(st') + Weight(cl') <= bound
    BY <1>7, <1>9, <1>11, <2>5, <2>6
  <2>. QED BY <2>7 DEF DebtOK, st, cl, lo, bound
<1>. QED BY <1>12, <1>13

LEMMA UploadLoss ==
  ASSUME SyncInv, LossOK, DebtsOK, NEW c \in outbox, Upload(c)
  PROVE  LossOK' /\ DebtsOK'
<1>1. /\ UNCHANGED <<size, base, running, name, offset, chunkIndex, savedOff, savedCi, savedPend>>
      /\ UNCHANGED <<pending, plan, job, faults, todo, committed>>
      /\ outbox' = outbox \ {c}
      /\ drive' = IF \E d \in drive : d[1] = c[1] /\ Len(d[2]) = Len(c[2])
                  THEN drive ELSE drive \cup {c}
  BY DEF Upload, device, cursors, object, work, locals, history
<1>2. ChunksOK'
  <2>1. /\ outbox \in SUBSET (((Files \cup {None}) \X Nat) \X Seq(Nat)) /\ IsFiniteSet(outbox)
        /\ drive \in SUBSET (((Files \cup {None}) \X Nat) \X Seq(Nat)) /\ IsFiniteSet(drive)
        /\ \A d, e \in outbox : d[1] = e[1] => d = e
    BY DEF LossOK, ChunksOK
  <2>2. IsFiniteSet(outbox')
    BY <1>1, <2>1, FS_RemoveElement
  <2>3. IsFiniteSet(drive') /\ drive' \in SUBSET (((Files \cup {None}) \X Nat) \X Seq(Nat))
    BY <1>1, <2>1, FS_AddElement
  <2>4. outbox' \in SUBSET (((Files \cup {None}) \X Nat) \X Seq(Nat))
        /\ \A d, e \in outbox' : d[1] = e[1] => d = e
    BY <1>1, <2>1
  <2>. QED BY <2>2, <2>3, <2>4 DEF ChunksOK
<1>3. Left("loop")' = Left("loop") /\ (Writing' <=> Writing) /\ (Counting' <=> Counting)
      /\ (Opening' <=> Opening) /\ (Has("loop", Flushers)' <=> Has("loop", Flushers))
      /\ \A x : At("loop", x)' <=> At("loop", x)
  BY <1>1 DEF Left, Writing, Counting, Opening, Has, At
<1>4. \A f : Index(f)' = Index(f) /\ Rest(f)' = Rest(f) /\ Fetched(f)' = Fetched(f)
  BY <1>1, <1>3 DEF Index, Rest, Remainder, Piece, Fetched
<1>5. CutOK'
  BY <1>1, <1>3 DEF LossOK, CutOK, ChunkName
<1>6. FlowOK'
  BY <1>1, <1>3 DEF LossOK, FlowOK, ChangeOK
<1>7. NamedOK'
  BY <1>1, <1>3, <1>4 DEF LossOK, NamedOK
<1>8. Rest(name)' = Rest(name) /\ Index(name)' = Index(name)
  BY <1>1, <1>3 DEF Rest, Index, Remainder, Piece
<1>9. RestOK'
  BY <1>1, <1>3, <1>8 DEF LossOK, RestOK
<1>10. PICK own : OwnOK(own) /\ \A f \in Named : DebtOK(f, own)
  BY DEF DebtsOK
<1>11. OwnOK(own)'
  <2>1. \A t \in Sizes(outbox', name') : t \in Sizes(outbox, name)
    BY <1>1 DEF Sizes
  <2>2. \A t \in Sizes(outbox', name') : savedCi'[name'] <= t[1] /\ t[1] < Index(name)'
                                           /\ name \in Named => t \in own
    BY <1>1, <1>8, <1>10, <2>1 DEF OwnOK
  <2>. QED BY <1>1, <1>3, <1>8, <1>10, <2>2 DEF OwnOK
<1>12. ASSUME NEW f \in Named PROVE DebtOK(f, own)'
  <2>1. CASE c[1][1] = f
    BY <1>1, <1>10, <2>1, SentDebt
  <2>2. CASE c[1][1] # f
    <3>1. /\ {d \in outbox' \cup drive' : d[1][1] = f} = {d \in outbox \cup drive : d[1][1] = f}
          /\ {d \in outbox' : d[1][1] = f} = {d \in outbox : d[1][1] = f}
          /\ {d \in drive' : d[1][1] = f} = {d \in drive : d[1][1] = f}
      BY <1>1, <2>2
    <3>2. Sizes(outbox', f) = Sizes(outbox, f) /\ Sizes(drive', f) = Sizes(drive, f)
      BY <3>1 DEF Sizes
    <3>3. Present(f)' = Present(f)
      BY <1>4, <3>1 DEF Present
    <3>4. Stale(f)' = Stale(f) /\ Clash(f, own)' = Clash(f, own) /\ Lost(f)' = Lost(f)
      BY <1>1, <1>4, <3>2, <3>3 DEF Stale, Clash, Lost
    <3>. QED BY <1>1, <1>10, <3>4 DEF DebtOK
  <2>. QED BY <2>1, <2>2
<1>13. DebtsOK'
  BY <1>11, <1>12 DEF DebtsOK
<1>. QED BY <1>2, <1>5, <1>6, <1>7, <1>9, <1>13 DEF LossOK
-----------------------------------------------------------------------------
(* What a kill costs: what was in memory and is in no chunk, `tail`, and   *)
(* the chunks cut since the index was saved, of which those in the outbox, *)
(* U, become stale and the others clash.  The chunk that was being written *)
(* may be there in part, X, and one that was there, `gone`, is lost.       *)
Costs(f, own, U, T, X, gone, tail) ==
    /\ U \in SUBSET own /\ gone \in Seq(Nat) /\ tail \in Seq(Nat)
    /\ T \in SUBSET Pairs /\ IsFiniteSet(T) /\ Weight(T) + Len(gone) <= Weight(Stale(f))
    /\ X \in SUBSET Pairs /\ IsFiniteSet(X) /\ Weight(X) + Len(tail) <= Len(Rest(f))
    /\ Stale(f)' \subseteq T \cup (U \cup X)
    /\ Clash(f, {})' \subseteq Clash(f, own) \cup (own \ U)
    /\ Lost(f)' \subseteq Lost(f) \cup (ToSet(gone) \cup ToSet(tail))

LEMMA KillCosts ==
  ASSUME SyncInv, LossOK, NEW f \in Named, f = name, NEW own, OwnOK(own), DebtOK(f, own),
         faults'.kill = faults.kill + 1,
         NEW U, NEW T, NEW X, NEW gone, NEW tail, Costs(f, own, U, T, X, gone, tail)
  PROVE  DebtOK(f, {})'
<1>0. /\ U \in SUBSET own /\ gone \in Seq(Nat) /\ tail \in Seq(Nat)
      /\ T \in SUBSET Pairs /\ IsFiniteSet(T) /\ Weight(T) + Len(gone) <= Weight(Stale(f))
      /\ X \in SUBSET Pairs /\ IsFiniteSet(X) /\ Weight(X) + Len(tail) <= Len(Rest(f))
      /\ Stale(f)' \subseteq T \cup (U \cup X)
      /\ Clash(f, {})' \subseteq Clash(f, own) \cup (own \ U)
      /\ Lost(f)' \subseteq Lost(f) \cup (ToSet(gone) \cup ToSet(tail))
  BY DEF Costs
<1>1. /\ Weight(Stale(f)) \in Nat
      /\ Clash(f, own) \in SUBSET Pairs /\ IsFiniteSet(Clash(f, own))
      /\ Weight(Clash(f, own)) \in Nat
      /\ IsFiniteSet(Lost(f)) /\ Cardinality(Lost(f)) \in Nat
  BY DebtTypes DEF LossOK
<1>2. own \in SUBSET Pairs /\ IsFiniteSet(own)
  BY DEF OwnOK
<1>3. /\ U \in SUBSET Pairs /\ IsFiniteSet(U)
      /\ own \ U \in SUBSET Pairs /\ IsFiniteSet(own \ U)
  BY <1>0, <1>2, FS_Subset
<1>4. /\ Weight(own) = Weight(U) + Weight(own \ U)
      /\ Weight(U) \in Nat /\ Weight(own \ U) \in Nat /\ Weight(own) \in Nat
  <2>1. PICK V : V = own \ U
    OBVIOUS
  <2>2. U \cup V = own /\ U \cap V = {} /\ V \in SUBSET Pairs /\ IsFiniteSet(V)
    BY <1>0, <1>3, <2>1
  <2>3. Weight(U \cup V) = Weight(U) + Weight(V) /\ Weight(U) \in Nat /\ Weight(V) \in Nat
    BY <1>3, <2>2, WeightOfUnion
  <2>4. Weight(own) = Weight(U) + Weight(V)
    BY <2>2, <2>3
  <2>5. Weight(own) \in Nat
    BY <1>2, WeightType
  <2>. QED BY <2>1, <2>3, <2>4, <2>5
<1>5. Weight(Stale(f)') <= Weight(T) + Weight(U) + Weight(X) /\ Weight(Stale(f)') \in Nat
      /\ Weight(T) \in Nat /\ Weight(X) \in Nat
  <2>1. PICK S : S = Stale(f)'
    OBVIOUS
  <2>2. PICK P : P = U \cup X
    OBVIOUS
  <2>3. PICK Q : Q = T \cup P
    OBVIOUS
  <2>4. /\ IsFiniteSet(P) /\ P \in SUBSET Pairs
        /\ Weight(P) <= Weight(U) + Weight(X) /\ Weight(P) \in Nat /\ Weight(X) \in Nat
    BY <1>0, <1>3, <2>2, WeightOfUnion
  <2>5. /\ IsFiniteSet(Q) /\ Q \in SUBSET Pairs
        /\ Weight(Q) <= Weight(T) + Weight(P) /\ Weight(Q) \in Nat /\ Weight(T) \in Nat
    BY <1>0, <2>3, <2>4, WeightOfUnion
  <2>6. S \in SUBSET Q
    BY <1>0, <2>1, <2>2, <2>3
  <2>7. Weight(S) <= Weight(Q) /\ Weight(S) \in Nat
    BY <2>5, <2>6, WeightGrows
  <2>8. Weight(U) \in Nat
    BY <1>4
  <2>9. Weight(S) <= Weight(T) + Weight(U) + Weight(X)
    BY <2>4, <2>5, <2>7, <2>8
  <2>. QED BY <2>1, <2>4, <2>5, <2>7, <2>9
<1>6. Weight(Clash(f, {})') <= Weight(Clash(f, own)) + Weight(own \ U)
      /\ Weight(Clash(f, {})') \in Nat
  <2>1. PICK S : S = Clash(f, {})'
    OBVIOUS
  <2>2. PICK C : C = Clash(f, own)
    OBVIOUS
  <2>3. PICK V : V = own \ U
    OBVIOUS
  <2>4. /\ IsFiniteSet(C \cup V) /\ C \cup V \in SUBSET Pairs
        /\ Weight(C \cup V) <= Weight(C) + Weight(V) /\ Weight(C \cup V) \in Nat
    BY <1>1, <1>3, <2>2, <2>3, WeightOfUnion
  <2>5. S \in SUBSET (C \cup V)
    BY <1>0, <2>1, <2>2, <2>3
  <2>6. Weight(S) <= Weight(C \cup V) /\ Weight(S) \in Nat
    BY <2>4, <2>5, WeightGrows
  <2>7. Weight(S) <= Weight(C) + Weight(V)
    BY <1>1, <1>4, <2>2, <2>3, <2>4, <2>6
  <2>. QED BY <2>1, <2>2, <2>3, <2>6, <2>7
<1>7. Cardinality(Lost(f)') <= Cardinality(Lost(f)) + Len(gone) + Len(tail)
      /\ Cardinality(Lost(f)') \in Nat /\ Len(gone) \in Nat /\ Len(tail) \in Nat
  <2>1. PICK L : L = Lost(f)'
    OBVIOUS
  <2>2. PICK G : G = ToSet(gone)
    OBVIOUS
  <2>3. PICK H : H = ToSet(tail)
    OBVIOUS
  <2>4. /\ IsFiniteSet(G) /\ Cardinality(G) <= Len(gone) /\ Cardinality(G) \in Nat
        /\ IsFiniteSet(H) /\ Cardinality(H) <= Len(tail) /\ Cardinality(H) \in Nat
        /\ Len(gone) \in Nat /\ Len(tail) \in Nat
    BY <1>0, <2>2, <2>3, SizeOfRange
  <2>5. /\ IsFiniteSet(G \cup H) /\ Cardinality(G \cup H) <= Cardinality(G) + Cardinality(H)
        /\ Cardinality(G \cup H) \in Nat
    <3>1. IsFiniteSet(G \cup H)
      BY <2>4, FS_Union
    <3>. QED BY <2>4, <3>1, SizeOfMore
  <2>6. L \in SUBSET (Lost(f) \cup (G \cup H))
    BY <1>0, <2>1, <2>2, <2>3
  <2>7. Cardinality(L) <= Cardinality(Lost(f)) + Cardinality(G \cup H) /\ Cardinality(L) \in Nat
    BY <1>1, <2>5, <2>6, SizeOfMore
  <2>8. Cardinality(L) <= Cardinality(Lost(f)) + Len(gone) + Len(tail)
    BY <1>1, <2>4, <2>5, <2>7
  <2>. QED BY <2>1, <2>4, <2>7, <2>8
<1>8. Weight(own) + Len(Rest(f)) <= LossOfKill /\ Len(Rest(f)) \in Nat
  <2>1. Len(Rest(f)) \in Nat
    BY RestType, SyncAssumption
  <2>2. Weight(own) + Len(Rest(f))
          <= LongestChunk - 1 + IF "ci" \in Left("loop") THEN 2 * Window ELSE Window
    BY DEF OwnOK
  <2>3. LongestChunk - 1 + 2 * Window \in Nat /\ Window \in Nat /\ LongestChunk \in Nat
    BY Longest
  <2>. QED BY <1>4, <2>1, <2>2, <2>3 DEF LossOfKill
<1>9. faults'.kill * LossOfKill = faults.kill * LossOfKill + LossOfKill
      /\ LossOfKill \in Nat /\ faults.kill * LossOfKill \in Nat
  <2>1. faults.kill \in Nat /\ LossOfKill \in Nat /\ faults.kill * LossOfKill \in Nat
    BY BoundIsNat
  <2>2. (faults.kill + 1) * LossOfKill = faults.kill * LossOfKill + LossOfKill
    BY <2>1, Products
  <2>. QED BY <2>1, <2>2
<1>. DEFINE bound == faults.kill * LossOfKill
<1>10. Cardinality(Lost(f)) + Weight(Stale(f)) + Weight(Clash(f, own)) <= bound
  BY DEF DebtOK
<1>11. bound \in Nat /\ LossOfKill \in Nat
  BY <1>9
<1>. HIDE DEF bound
<1>12. Cardinality(Lost(f)') + Weight(Stale(f)') + Weight(Clash(f, {})') <= bound + LossOfKill
  <2>1. PICK a \in Nat : a = Cardinality(Lost(f))
    BY <1>1
  <2>2. PICK b \in Nat : b = Weight(Stale(f))
    BY <1>1
  <2>3. PICK c \in Nat : c = Weight(Clash(f, own))
    BY <1>1
  <2>4. PICK u \in Nat : u = Weight(U)
    BY <1>4
  <2>5. PICK v \in Nat : v = Weight(own \ U)
    BY <1>4
  <2>6. PICK k \in Nat : k = Weight(T)
    BY <1>5
  <2>7. PICK x \in Nat : x = Weight(X)
    BY <1>5
  <2>8. PICK g \in Nat : g = Len(gone)
    BY <1>7
  <2>9. PICK t \in Nat : t = Len(tail)
    BY <1>7
  <2>10. PICK r \in Nat : r = Len(Rest(f))
    BY <1>8
  <2>11. PICK a2 \in Nat : a2 = Cardinality(Lost(f)')
    BY <1>7
  <2>12. PICK b2 \in Nat : b2 = Weight(Stale(f)')
    BY <1>5
  <2>13. PICK c2 \in Nat : c2 = Weight(Clash(f, {})')
    BY <1>6
  <2>14. PICK d \in Nat : d = bound
    BY <1>11
  <2>15. PICK most \in Nat : most = LossOfKill
    BY <1>11
  <2>16. a2 <= a + g + t
    BY <1>7, <2>11, <2>1, <2>8, <2>9
  <2>17. b2 <= k + u + x
    BY <1>5, <2>12, <2>6, <2>4, <2>7
  <2>18. k + g <= b
    BY <1>0, <2>6, <2>8, <2>2
  <2>19. x + t <= r
    BY <1>0, <2>7, <2>9, <2>10
  <2>20. c2 <= c + v
    BY <1>6, <2>13, <2>3, <2>5
  <2>21. u + v + r <= most
    BY <1>4, <1>8, <2>4, <2>5, <2>10, <2>15
  <2>22. a + b + c <= d
    BY <1>10, <2>1, <2>2, <2>3, <2>14
  <2>23. a2 + b2 + c2 <= d + most
    BY <2>16, <2>17, <2>18, <2>19, <2>20, <2>21, <2>22
  <2>. QED BY <2>11, <2>12, <2>13, <2>14, <2>15, <2>23
<1>. QED BY <1>9, <1>12 DEF DebtOK, bound

(* A piece, of m bytes, that was written in part.                          *)
Parts(buf, m, n, part, tail) ==
    part = SubSeq(SubSeq(buf, 1, m), 1, n) /\ tail = SubSeq(buf, n + 1, Len(buf))

LEMMA PartWritten ==
  ASSUME NEW buf \in Seq(Nat), NEW m \in Nat, NEW n \in Nat, n <= m, m <= Len(buf),
         NEW part, NEW tail, Parts(buf, m, n, part, tail)
  PROVE  /\ part \in Seq(Nat) /\ Len(part) = n /\ tail \in Seq(Nat)
         /\ Len(tail) + n = Len(buf) /\ ToSet(buf) \subseteq ToSet(part) \cup ToSet(tail)
<1>0. part = SubSeq(SubSeq(buf, 1, m), 1, n) /\ tail = SubSeq(buf, n + 1, Len(buf))
  BY DEF Parts
<1>1. PICK k \in Nat : k = Len(buf)
  OBVIOUS
<1>2. \A i \in 1 .. k : buf[i] \in Nat
  BY <1>1
<1>3. PICK piece : piece = SubSeq(buf, 1, m)
  OBVIOUS
<1>4. piece \in Seq(Nat) /\ Len(piece) = m /\ \A i \in 1 .. m : piece[i] = buf[i]
  <2>1. \A i \in 1 .. m : buf[i] \in Nat
    BY <1>1, <1>2
  <2>2. /\ SubSeq(buf, 1, m) \in Seq(Nat)
        /\ Len(SubSeq(buf, 1, m)) = IF 1 <= m THEN m - 1 + 1 ELSE 0
        /\ \A i \in 1 .. m - 1 + 1 : SubSeq(buf, 1, m)[i] = buf[1 + i - 1]
    BY <2>1, SubSeqProperties
  <2>. QED BY <1>3, <2>2
<1>5. part \in Seq(Nat) /\ Len(part) = n /\ \A i \in 1 .. n : part[i] = piece[i]
  <2>1. \A i \in 1 .. n : piece[i] \in Nat
    BY <1>2, <1>1, <1>4
  <2>2. /\ SubSeq(piece, 1, n) \in Seq(Nat)
        /\ Len(SubSeq(piece, 1, n)) = IF 1 <= n THEN n - 1 + 1 ELSE 0
        /\ \A i \in 1 .. n - 1 + 1 : SubSeq(piece, 1, n)[i] = piece[1 + i - 1]
    BY <2>1, SubSeqProperties
  <2>. QED BY <1>0, <1>3, <2>2
<1>6. /\ tail \in Seq(Nat) /\ Len(tail) = k - n
      /\ \A i \in 1 .. k - n : tail[i] = buf[n + i]
  <2>1. \A i \in n + 1 .. k : buf[i] \in Nat
    BY <1>2
  <2>2. /\ SubSeq(buf, n + 1, k) \in Seq(Nat)
        /\ Len(SubSeq(buf, n + 1, k)) = IF n + 1 <= k THEN k - (n + 1) + 1 ELSE 0
        /\ \A i \in 1 .. k - (n + 1) + 1 : SubSeq(buf, n + 1, k)[i] = buf[(n + 1) + i - 1]
    BY <2>1, SubSeqProperties
  <2>3. tail = SubSeq(buf, n + 1, k)
    BY <1>0, <1>1
  <2>4. /\ tail \in Seq(Nat)
        /\ Len(tail) = IF n + 1 <= k THEN k - (n + 1) + 1 ELSE 0
        /\ \A i \in 1 .. k - (n + 1) + 1 : tail[i] = buf[(n + 1) + i - 1]
    BY <2>2, <2>3, Zenon
  <2>5. n <= k
    BY <1>1
  <2>. QED BY <2>4, <2>5
<1>7. Len(tail) + n = Len(buf)
  BY <1>1, <1>6
<1>8. ASSUME NEW p \in ToSet(buf) PROVE p \in ToSet(part) \cup ToSet(tail)
  <2>1. PICK i \in 1 .. k : p = buf[i]
    BY <1>1, <1>8 DEF ToSet
  <2>2. CASE i <= n
    <3>1. i \in 1 .. Len(part) /\ p = part[i]
      BY <1>4, <1>5, <2>1, <2>2
    <3>. QED BY <1>5, <3>1, ElementOf
  <2>3. CASE ~(i <= n)
    <3>1. PICK j \in Nat : j = i - n /\ j \in 1 .. k - n /\ n + j = i
      BY <2>1, <2>3
    <3>2. j \in 1 .. Len(tail) /\ p = tail[j]
      BY <1>6, <2>1, <3>1
    <3>. QED BY <1>6, <3>2, ElementOf
  <2>. QED BY <2>2, <2>3
<1>. QED BY <1>5, <1>6, <1>7, <1>8

(* What is on the phone and on the device after a kill.                    *)
LEMMA Killed ==
  ASSUME SyncInv, LossOK, Kill
  PROVE  /\ UNCHANGED <<size, base, savedOff, savedCi, drive>>
         /\ name' = None /\ ~running' /\ plan'["loop"] = << >> /\ plan'["stop"] = << >>
         /\ faults'.kill = faults.kill + 1
         /\ Left("loop")' = {} /\ ~Has("loop", Flushers)'
         /\ ~Writing' /\ ~Counting' /\ ~Opening'
         /\ \A f \in Files : /\ Index(f)' = savedCi[f] /\ Rest(f)' = savedPend'[f]
                             /\ Fetched(f)' = savedOff[f]
                             /\ \/ savedPend'[f] = savedPend[f]
                                \/ savedPend'[f] = << >> /\ f = name
         /\ \/ outbox' = outbox
            \/ /\ Writing
               /\ \E n \in 0 .. Len(Piece("loop")) - 1 :
                     outbox' = Written(outbox, job["loop"].target, SubSeq(Piece("loop"), 1, n))
<1>1. /\ UNCHANGED <<size, base, savedOff, savedCi, drive>>
      /\ name' = None /\ ~running' /\ plan' = [w \in Workers |-> << >>]
  BY DEF Kill, device, cursors
<1>2. plan'["loop"] = << >> /\ plan'["stop"] = << >>
  BY <1>1 DEF Workers
<1>3. faults'.kill = faults.kill + 1
  BY DEF Kill, Fault, SyncInv, FaultsOK, Faults
<1>4. Left("loop")' = {}
  BY <1>2 DEF Left, ToSet
<1>5. ~Has("loop", Flushers)' /\ ~Writing' /\ ~Counting' /\ ~Opening'
  BY <1>4 DEF Has, Writing, Counting, Opening
<1>6. \A f \in Files : Index(f)' = savedCi[f] /\ Rest(f)' = savedPend'[f]
                       /\ Fetched(f)' = savedOff[f]
  BY <1>1, <1>5, SyncAssumption DEF Index, Rest, Fetched
<1>7. \A x : ~At("stop", x)
  BY DEF At, LossOK, FlowOK
<1>8. \A f \in Files : savedPend'[f] = savedPend[f] \/ (savedPend'[f] = << >> /\ f = name)
  <2>1. savedPend \in [Files -> Seq(Nat)]
    BY DEF SyncInv, SyncTypeOK
  <2>2. UNCHANGED savedPend \/ savedPend' = [savedPend EXCEPT ![name] = << >>]
    BY <1>7 DEF Kill, Workers, Captured
  <2>. QED BY <2>1, <2>2
<1>9. \/ outbox' = outbox
      \/ /\ Writing
         /\ \E n \in 0 .. Len(Piece("loop")) - 1 :
               outbox' = Written(outbox, job["loop"].target, SubSeq(Piece("loop"), 1, n))
  <2>. DEFINE Part(w) == \E n \in 0 .. Len(Piece(w)) - 1 :
                           outbox' = Written(outbox, job[w].target, SubSeq(Piece(w), 1, n))
  <2>1. outbox' = outbox \/ \E w \in Workers : At(w, "write") /\ Part(w)
    BY DEF Kill
  <2>. HIDE DEF Part
  <2>2. CASE \E w \in Workers : At(w, "write") /\ Part(w)
    <3>1. At("loop", "write") /\ Part("loop")
      BY <1>7, <2>2 DEF Workers
    <3>2. plan["loop"] \in Seq(Steps) /\ plan["loop"] # << >> /\ Head(plan["loop"]) = "write"
          /\ InOrder(plan["loop"])
      BY <3>1 DEF SyncInv, PlanOK, Workers, At
    <3>3. Writing
      BY <3>2, TailInOrder DEF Writing, Left
    <3>. QED BY <3>1, <3>3 DEF Part
  <2>. QED BY <2>1, <2>2
<1>. QED BY <1>1, <1>2, <1>3, <1>4, <1>5, <1>6, <1>8, <1>9

(* The open recording, killed between two writes.                          *)
LEMMA KillDebt ==
  ASSUME SyncInv, LossOK, Kill, NEW f \in Named, f = name, NEW own, OwnOK(own), DebtOK(f, own),
         outbox' = outbox
  PROVE  DebtOK(f, {})'
<1>1. /\ f \in Files /\ drive' = drive /\ savedCi' = savedCi /\ name' = None /\ None # f
      /\ faults'.kill = faults.kill + 1
      /\ Index(f)' = savedCi[f] /\ Rest(f)' = savedPend'[f] /\ Fetched(f)' = savedOff[f]
  BY Killed, SyncAssumption
<1>2. own \in SUBSET Pairs /\ Rest(f) \in Seq(Nat) /\ Len(Rest(f)) \in Nat
  BY <1>1, RestType DEF OwnOK
<1>3. PICK U : U = own \cap Sizes(outbox, f)
  OBVIOUS
<1>4. PICK T : T = Stale(f)
  OBVIOUS
<1>5. /\ T \in SUBSET Pairs /\ IsFiniteSet(T) /\ Weight(T) \in Nat
      /\ {} \in SUBSET Pairs /\ IsFiniteSet({}) /\ Weight({}) = 0
  BY <1>4, DebtTypes, FS_EmptySet, WeightOfNone DEF LossOK
<1>6. \A s \in Sizes(outbox, f) : s[1] >= savedCi[f] => s \in own \/ s \in Stale(f)
  BY UnsavedIsStale
<1>7. Stale(f)' \subseteq T \cup (U \cup {})
  BY <1>1, <1>3, <1>4, <1>6 DEF Stale
<1>8. Clash(f, {})' \subseteq Clash(f, own) \cup (own \ U)
  BY <1>1, <1>3 DEF Clash
<1>9. Lost(f)' \subseteq Lost(f) \cup (ToSet(<< >>) \cup ToSet(Rest(f)))
  <2>1. Present(f) \subseteq Present(f)' \cup ToSet(Rest(f))
    BY <1>1 DEF Present
  <2>2. savedOff[f] <= Fetched(f) /\ savedOff[f] \in Nat /\ Fetched(f) \in Nat
    BY <1>1 DEF Fetched, LossOK, NamedOK, SyncInv, SyncTypeOK
  <2>. QED BY <1>1, <2>1, <2>2 DEF Lost
<1>10. << >> \in Seq(Nat) /\ Weight(T) + Len(<< >>) <= Weight(Stale(f))
       /\ Weight({}) + Len(Rest(f)) <= Len(Rest(f))
  BY <1>2, <1>4, <1>5
<1>11. Costs(f, own, U, T, {}, << >>, Rest(f))
  BY <1>2, <1>3, <1>5, <1>7, <1>8, <1>9, <1>10 DEF Costs
<1>. QED BY <1>1, <1>11, KillCosts

(* The open recording, killed in the middle of a write.                    *)
LEMMA KillInWriteDebt ==
  ASSUME SyncInv, LossOK, Kill, NEW f \in Named, f = name, NEW own, OwnOK(own), DebtOK(f, own),
         Writing, NEW n \in 0 .. Len(Piece("loop")) - 1,
         outbox' = Written(outbox, job["loop"].target, SubSeq(Piece("loop"), 1, n))
  PROVE  DebtOK(f, {})'
<1>1. /\ f \in Files /\ drive' = drive /\ savedCi' = savedCi /\ name' = None /\ None # f
      /\ faults'.kill = faults.kill + 1
      /\ Index(f)' = savedCi[f] /\ Rest(f)' = savedPend'[f] /\ Fetched(f)' = savedOff[f]
  BY Killed, SyncAssumption
<1>2. PICK i \in Nat : i = chunkIndex
  BY DEF SyncInv, SyncTypeOK
<1>3. PICK buf \in Seq(Nat) : buf = job["loop"].buf
  BY PieceTypes DEF SyncInv, Workers
<1>4. PICK m : /\ Piece("loop") = SubSeq(buf, 1, m) /\ Len(Piece("loop")) = m
               /\ m \in Nat /\ m <= Len(buf)
  <2>1. PICK k : k = NextCut(job["loop"].buf, job["loop"].force)
    OBVIOUS
  <2>2. Piece("loop") = SubSeq(buf, 1, k)
    BY <1>3, <2>1 DEF Piece
  <2>3. Len(Piece("loop")) = k /\ k \in Nat
    BY <2>1, RestOfCut
  <2>4. k <= Len(buf)
    <3>1. PICK r \in Nat : k + r = Len(buf)
      BY <1>3, <2>3, RestOfCut
    <3>. QED BY <2>3, <3>1
  <2>. QED BY <2>2, <2>3, <2>4
<1>5. PICK part : part = SubSeq(Piece("loop"), 1, n)
  OBVIOUS
<1>6. PICK tail : tail = SubSeq(buf, n + 1, Len(buf))
  OBVIOUS
<1>7. /\ part \in Seq(Nat) /\ Len(part) = n /\ tail \in Seq(Nat) /\ n \in Nat
      /\ Len(tail) + n = Len(buf) /\ ToSet(buf) \subseteq ToSet(part) \cup ToSet(tail)
  <2>1. n \in Nat /\ m \in Nat /\ n <= m /\ m <= Len(buf)
    BY <1>4
  <2>2. Parts(buf, m, n, part, tail)
    BY <1>4, <1>5, <1>6, Zenon DEF Parts
  <2>. QED BY <2>1, <2>2, PartWritten
<1>8. ~Opening /\ ~Counting
  <2>1. ~Opening
    BY DEF Opening, Writing, LossOK, FlowOK, ChangeOK
  <2>2. PICK x \in Flushers : At("loop", x)
    BY DEF LossOK, CutOK
  <2>3. Left("loop") \cap Flushers \subseteq {x}
    BY <2>2, OneFlusher DEF SyncInv
  <2>. QED BY <2>1, <2>3 DEF Writing, Counting, Flushers
<1>9. Rest(f) = buf /\ Index(f) = i
  BY <1>2, <1>3, <1>8 DEF Rest, Index
<1>10. outbox' = Written(outbox, job["loop"].target, part)
  BY <1>5
<1>11. /\ \A s \in Sizes(outbox', f) : s = <<i, n>> \/ (s \in Sizes(outbox, f) /\ s[1] # i)
       /\ <<<<f, i>>, part>> \in outbox'
  BY <1>2, <1>7, <1>10, WrittenIs
<1>12. PICK gone \in Seq(Nat) : /\ gone = << >> \/ <<i, Len(gone)>> \in Sizes(outbox, f)
                                /\ \A c \in outbox : c \in outbox' \/ c[2] = gone
  <2>1. \E gone \in Seq(Nat) : Replaced(outbox', gone)
    BY <1>10, TargetIs, SomeReplaced
  <2>. QED BY <1>2, <2>1 DEF Replaced
<1>13. PICK U : U = own \cap Sizes(outbox, f)
  OBVIOUS
<1>14. PICK T : T = {s \in Stale(f) : s[1] # i}
  OBVIOUS
<1>15. PICK X : X = {<<i, n>>}
  OBVIOUS
<1>16. /\ T \in SUBSET Pairs /\ IsFiniteSet(T)
       /\ Weight(T) + Len(gone) <= Weight(Stale(f))
  BY <1>9, <1>12, <1>14, StaleWithout
<1>17. X \in SUBSET Pairs /\ IsFiniteSet(X) /\ Weight(X) <= n
  <2>1. PICK s : s = <<i, n>>
    OBVIOUS
  <2>2. s \in Pairs /\ s[2] = n /\ X = {s}
    BY <1>7, <1>15, <2>1 DEF Pairs
  <2>3. Weight({s}) = s[2] /\ IsFiniteSet({s}) /\ {s} \in SUBSET Pairs
    BY <2>2, WeightOfOne
  <2>. QED BY <1>7, <2>2, <2>3
<1>18. \A s \in Sizes(outbox, f) : s[1] >= savedCi[f] => s \in own \/ s \in Stale(f)
  BY UnsavedIsStale
<1>19. Stale(f)' \subseteq T \cup (U \cup X)
  <2>1. ASSUME NEW s \in Stale(f)' PROVE s \in T \cup (U \cup X)
    <3>1. s \in Sizes(outbox', f) /\ s[1] >= savedCi[f]
      BY <1>1 DEF Stale
    <3>2. CASE s = <<i, n>>
      BY <1>15, <3>2
    <3>3. CASE s \in Sizes(outbox, f) /\ s[1] # i
      BY <1>13, <1>14, <1>18, <3>1, <3>3
    <3>. QED BY <1>11, <3>1, <3>2, <3>3
  <2>. QED BY <2>1
<1>20. Clash(f, {})' \subseteq Clash(f, own) \cup (own \ U)
  <2>1. ASSUME NEW s \in Clash(f, {})' PROVE s \in Clash(f, own) \cup (own \ U)
    <3>1. s \in Sizes(drive, f) /\ (s \in Sizes(outbox', f) \/ s[1] >= savedCi[f])
      BY <1>1 DEF Clash
    <3>2. CASE s = <<i, n>>
      <4>1. s \notin own
        <5>1. s[1] = i /\ ~(i < i)
          BY <3>2
        <5>. QED BY <1>9, <5>1 DEF OwnOK
      <4>2. s[1] >= savedCi[f]
        BY <1>1, <1>2, <3>2 DEF LossOK, NamedOK, SyncInv, SyncTypeOK
      <4>. QED BY <3>1, <4>1, <4>2 DEF Clash
    <3>3. CASE s \in Sizes(outbox, f)
      BY <3>1, <3>3 DEF Clash
    <3>4. CASE s \notin Sizes(outbox, f) /\ s[1] >= savedCi[f]
      BY <1>13, <3>1, <3>4 DEF Clash
    <3>. QED BY <1>11, <3>1, <3>2, <3>3, <3>4
  <2>. QED BY <2>1
<1>21. Lost(f)' \subseteq Lost(f) \cup (ToSet(gone) \cup ToSet(tail))
  <2>1. ASSUME NEW p \in Present(f)
        PROVE  p \in Present(f)' \cup (ToSet(gone) \cup ToSet(tail))
    <3>1. CASE p \in ToSet(part)
      <4>1. PICK c : c = <<<<f, i>>, part>>
        OBVIOUS
      <4>2. c \in outbox' \cup drive' /\ c[1][1] = f /\ p \in ToSet(c[2])
        BY <1>11, <3>1, <4>1
      <4>. QED BY <4>2 DEF Present
    <3>2. CASE p \in ToSet(Rest(f)) /\ p \notin ToSet(part)
      BY <1>7, <1>9, <3>2
    <3>3. CASE p \notin ToSet(Rest(f))
      <4>1. PICK c \in outbox \cup drive : c[1][1] = f /\ p \in ToSet(c[2])
        BY <3>3 DEF Present
      <4>2. c \in outbox' \cup drive' \/ c[2] = gone
        BY <1>1, <1>12, <4>1
      <4>3. CASE c \in outbox' \cup drive'
        BY <4>1, <4>3 DEF Present
      <4>. QED BY <4>1, <4>2, <4>3
    <3>. QED BY <3>1, <3>2, <3>3
  <2>2. savedOff[f] <= Fetched(f) /\ savedOff[f] \in Nat /\ Fetched(f) \in Nat
    BY <1>1 DEF Fetched, LossOK, NamedOK, SyncInv, SyncTypeOK
  <2>. QED BY <1>1, <2>1, <2>2 DEF Lost
<1>22. Costs(f, own, U, T, X, gone, tail)
  <2>1. Weight(X) + Len(tail) <= Len(Rest(f))
    <3>1. Len(tail) + n = Len(Rest(f)) /\ Len(Rest(f)) \in Nat /\ Len(tail) \in Nat
      BY <1>7, <1>9
    <3>2. Weight(X) \in Nat
      BY <1>17, WeightType
    <3>. QED BY <1>7, <1>17, <3>1, <3>2
  <2>2. U \in SUBSET own
    BY <1>13
  <2>. QED BY <1>7, <1>16, <1>17, <1>19, <1>20, <1>21, <2>1, <2>2 DEF Costs
<1>. QED BY <1>1, <1>22, KillCosts

(* The others: nothing of them is in memory.                               *)
LEMMA KillOthers ==
  ASSUME SyncInv, LossOK, Kill, NEW f \in Named, f # name, NEW own, DebtOK(f, own)
  PROVE  DebtOK(f, {})'
<1>1. /\ f \in Files /\ drive' = drive /\ savedCi' = savedCi /\ name' = None /\ None # f
      /\ faults'.kill = faults.kill + 1
      /\ Index(f)' = savedCi[f] /\ Rest(f)' = savedPend[f] /\ Fetched(f)' = savedOff[f]
  BY Killed, SyncAssumption
<1>2. Index(f) = savedCi[f] /\ Rest(f) = savedPend[f] /\ Fetched(f) = savedOff[f]
  BY DEF Index, Rest, Fetched
<1>3. /\ \A d : d \in outbox' /\ d[1][1] = f <=> d \in outbox /\ d[1][1] = f
      /\ Sizes(outbox', f) = Sizes(outbox, f)
  <2>1. CASE outbox' = outbox
    BY <2>1
  <2>2. CASE outbox' # outbox
    <3>1. PICK n \in 0 .. Len(Piece("loop")) - 1 :
             outbox' = Written(outbox, job["loop"].target, SubSeq(Piece("loop"), 1, n))
      BY <2>2, Killed
    <3>2. Writing
      BY <2>2, Killed
    <3>3. SubSeq(Piece("loop"), 1, n) \in Seq(Nat)
      BY RestOfCut
    <3>. QED BY <3>1, <3>2, <3>3, WrittenIs
  <2>. QED BY <2>1, <2>2
<1>4. Stale(f)' = Stale(f)
  BY <1>1, <1>2, <1>3 DEF Stale
<1>5. Clash(f, {})' = Clash(f, own)
  BY <1>1, <1>3 DEF Clash
<1>6. Lost(f)' = Lost(f)
  <2>1. {d \in outbox' \cup drive' : d[1][1] = f} = {d \in outbox \cup drive : d[1][1] = f}
    BY <1>1, <1>3
  <2>2. Present(f)' = Present(f)
    BY <1>1, <1>2, <2>1 DEF Present
  <2>. QED BY <1>1, <1>2, <2>2 DEF Lost
<1>7. faults.kill * LossOfKill <= faults'.kill * LossOfKill
      /\ faults.kill * LossOfKill \in Nat /\ faults'.kill * LossOfKill \in Nat
  <2>1. faults.kill \in Nat /\ LossOfKill \in Nat /\ faults.kill * LossOfKill \in Nat
    BY BoundIsNat
  <2>2. (faults.kill + 1) * LossOfKill = faults.kill * LossOfKill + LossOfKill
    BY <2>1, Products
  <2>. QED BY <1>1, <2>1, <2>2
<1>8. Cardinality(Lost(f)) \in Nat /\ Weight(Stale(f)) \in Nat /\ Weight(Clash(f, own)) \in Nat
  BY DebtTypes DEF LossOK
<1>9. Cardinality(Lost(f)) + Weight(Stale(f)) + Weight(Clash(f, own)) <= faults'.kill * LossOfKill
  BY <1>7, <1>8 DEF DebtOK
<1>. QED BY <1>4, <1>5, <1>6, <1>9 DEF DebtOK

LEMMA KillLoss ==
  ASSUME SyncInv, LossOK, DebtsOK, Kill
  PROVE  LossOK' /\ DebtsOK'
<1>1. /\ UNCHANGED <<size, base, savedOff, savedCi, drive>>
      /\ name' = None /\ ~running' /\ plan'["loop"] = << >> /\ plan'["stop"] = << >>
      /\ Left("loop")' = {} /\ ~Has("loop", Flushers)'
      /\ ~Writing' /\ ~Counting' /\ ~Opening' /\ None \notin Named
  BY Killed, SyncAssumption
<1>2. ChunksOK'
  <2>1. CASE outbox' = outbox
    BY <1>1, <2>1 DEF LossOK, ChunksOK
  <2>2. CASE outbox' # outbox
    <3>1. PICK n \in 0 .. Len(Piece("loop")) - 1 :
             outbox' = Written(outbox, job["loop"].target, SubSeq(Piece("loop"), 1, n))
      BY <2>2, Killed
    <3>2. Writing
      BY <2>2, Killed
    <3>3. SubSeq(Piece("loop"), 1, n) \in Seq(Nat)
      BY RestOfCut
    <3>4. /\ outbox' \in SUBSET (((Files \cup {None}) \X Nat) \X Seq(Nat)) /\ IsFiniteSet(outbox')
          /\ \A c, d \in outbox' : c[1] = d[1] => c = d
      BY <3>1, <3>2, <3>3, WrittenIs
    <3>. QED BY <1>1, <3>4 DEF LossOK, ChunksOK
  <2>. QED BY <2>1, <2>2
<1>3. CutOK'
  BY <1>1 DEF CutOK
<1>4. FlowOK'
  BY <1>1 DEF FlowOK, ChangeOK
<1>5. NamedOK'
  BY <1>1 DEF LossOK, NamedOK
<1>6. RestOK'
  <2>1. ASSUME NEW f \in Named PROVE Len(savedPend'[f]) <= LongestChunk - 1
    <3>1. CASE savedPend'[f] = savedPend[f]
      BY <3>1 DEF LossOK, RestOK
    <3>2. CASE savedPend'[f] = << >>
      BY <3>2, Longest
    <3>. QED BY <3>1, <3>2, Killed, SyncAssumption
  <2>. QED BY <1>1, <2>1 DEF RestOK
<1>7. PICK own : OwnOK(own) /\ \A f \in Named : DebtOK(f, own)
  BY DEF DebtsOK
<1>8. ASSUME NEW f \in Named PROVE DebtOK(f, {})'
  <2>1. CASE f # name
    BY <1>7, <2>1, KillOthers
  <2>2. CASE f = name /\ outbox' = outbox
    BY <1>7, <2>2, KillDebt
  <2>3. CASE f = name /\ outbox' # outbox
    <3>1. PICK n \in 0 .. Len(Piece("loop")) - 1 :
             outbox' = Written(outbox, job["loop"].target, SubSeq(Piece("loop"), 1, n))
      BY <2>3, Killed
    <3>2. Writing
      BY <2>3, Killed
    <3>. QED BY <1>7, <2>3, <3>1, <3>2, KillInWriteDebt
  <2>. QED BY <2>1, <2>2, <2>3
<1>9. OwnOK({})'
  <2>1. {} \in SUBSET Pairs /\ IsFiniteSet({})
    BY FS_EmptySet
  <2>. QED BY <1>1, <2>1 DEF OwnOK
<1>10. DebtsOK'
  BY <1>8, <1>9 DEF DebtsOK
<1>. QED BY <1>2, <1>3, <1>4, <1>5, <1>6, <1>10 DEF LossOK
-----------------------------------------------------------------------------
(* A step of the device: its files only grow, those with an epoch name     *)
(* also past a format.                                                     *)
LEMMA QuietLoss ==
  ASSUME SyncInv, LossOK, DebtsOK, faults'.kill = faults.kill,
         UNCHANGED <<running, name, savedOff, savedCi, savedPend, outbox, drive>>,
         UNCHANGED <<offset, chunkIndex, pending, plan, job, todo, committed>>,
         \A f \in Named : base'[f] = base[f] /\ size[f] <= size'[f] /\ size'[f] \in Nat
  PROVE  LossOK' /\ DebtsOK'
<1>1. Left("loop")' = Left("loop") /\ (Writing' <=> Writing) /\ (Counting' <=> Counting)
      /\ (Opening' <=> Opening) /\ (Has("loop", Flushers)' <=> Has("loop", Flushers))
      /\ \A x : At("loop", x)' <=> At("loop", x)
  BY DEF Left, Writing, Counting, Opening, Has, At
<1>2. \A f : Index(f)' = Index(f) /\ Rest(f)' = Rest(f) /\ Fetched(f)' = Fetched(f)
  BY <1>1 DEF Index, Rest, Remainder, Piece, Fetched
<1>3. ChunksOK'
  BY DEF LossOK, ChunksOK
<1>4. CutOK'
  BY <1>1 DEF LossOK, CutOK, ChunkName
<1>5. FlowOK'
  BY <1>1 DEF LossOK, FlowOK, ChangeOK
<1>6. NamedOK'
  <2>1. ASSUME NEW f \in Named
        PROVE  /\ base'[f] = 0 /\ savedOff'[f] <= size'[f]
               /\ name' = f => /\ savedOff'[f] <= offset' /\ offset' <= size'[f]
                               /\ savedCi'[f] <= chunkIndex'
    <3>1. /\ savedOff[f] \in Nat /\ offset \in Nat /\ size[f] \in Nat
          /\ size[f] <= size'[f] /\ size'[f] \in Nat
      BY SyncAssumption DEF SyncInv, SyncTypeOK, MaxSize
    <3>. QED BY <3>1 DEF LossOK, NamedOK
  <2>2. \A f \in Named : "shrunk" \in Left("loop")' /\ f = Head(todo') => Fetched(f)' <= committed'
    BY <1>1, <1>2 DEF LossOK, NamedOK
  <2>. QED BY <2>1, <2>2 DEF NamedOK
<1>7. Rest(name)' = Rest(name)
  BY <1>1 DEF Rest, Remainder, Piece
<1>8. RestOK'
  BY <1>1, <1>7 DEF LossOK, RestOK
<1>9. DebtsOK'
  BY <1>1, <1>2, DebtsStay
<1>. QED BY <1>3, <1>4, <1>5, <1>6, <1>8, <1>9 DEF LossOK

LEMMA DeviceLoss ==
  ASSUME SyncInv, LossOK, DebtsOK, Grow \/ Pause \/ Resume \/ ReuseName
  PROVE  LossOK' /\ DebtsOK'
<1>1. /\ UNCHANGED <<running, name, savedOff, savedCi, savedPend, outbox, drive>>
      /\ UNCHANGED <<offset, chunkIndex, pending, plan, job, todo, committed>>
  BY DEF Grow, Pause, Resume, ReuseName, kept, cursors, object, work, locals
<1>2. faults'.kill = faults.kill
  <2>1. UNCHANGED faults \/ Fault("format")
    BY DEF Grow, Pause, Resume, ReuseName, history
  <2>. QED BY <2>1, KillsKept DEF Faults
<1>3. \A f \in Files : size[f] \in Nat
  BY DEF SyncInv, SyncTypeOK
<1>4. size \in [Files -> 0 .. MaxSize] /\ current \in 0 .. NFiles /\ base \in [Files -> Nat]
      /\ Named \subseteq Files
  BY SyncAssumption DEF SyncInv, SyncTypeOK
<1>5. \A f \in Named : base'[f] = base[f] /\ size[f] <= size'[f] /\ size'[f] \in Nat
  <2>1. CASE Pause \/ Resume
    BY <1>3, <1>4, <2>1 DEF Pause, Resume
  <2>2. CASE Grow
    <3>1. PICK n \in size[current] + 1 .. MaxSize :
             size' = [size EXCEPT ![current] = n] /\ base' = base /\ current # 0
      BY <2>2 DEF Grow
    <3>2. current \in Files
      BY <1>4, <3>1 DEF Files
    <3>3. n \in Nat /\ size[current] <= n
      BY <1>3, <3>1, <3>2 DEF MaxSize, SyncInv
    <3>. QED BY <1>3, <1>4, <3>1, <3>3
  <2>3. CASE ReuseName
    <3>1. PICK g \in 1 .. latest \ Named :
             size' = [size EXCEPT ![g] = 0] /\ base' = [base EXCEPT ![g] = @ + MaxSize]
      BY <2>3 DEF ReuseName
    <3>. QED BY <1>3, <1>4, <3>1
  <2>. QED BY <2>1, <2>2, <2>3
<1>. QED BY <1>1, <1>2, <1>5, QuietLoss

(* A new object has nothing in memory, as after a kill.                    *)
LEMMA StartLoss ==
  ASSUME SyncInv, LossOK, DebtsOK, Start
  PROVE  LossOK' /\ DebtsOK'
<1>1. /\ UNCHANGED <<size, base, savedOff, savedCi, savedPend, outbox, drive, faults>>
      /\ name' = None /\ plan' = [plan EXCEPT !["loop"] = <<"top">>]
      /\ ~running /\ plan["loop"] = << >>
  BY DEF Start, device, kept, cursors, history, Leave, Workers
<1>2. name = None /\ None \notin Named
  BY <1>1, SyncAssumption DEF LossOK, FlowOK
<1>3. plan'["loop"] = <<"top">> /\ plan'["stop"] = plan["stop"] /\ running'
  BY <1>1 DEF SyncInv, PlanOK, Workers, Start
<1>4. Left("loop") = {} /\ Left("loop")' = {"top"}
  BY <1>1, <1>3 DEF Left, ToSet
<1>5. /\ ~Writing /\ ~Counting /\ ~Opening /\ ~Writing' /\ ~Counting' /\ ~Opening'
      /\ ~Has("loop", Flushers)'
  BY <1>4 DEF Writing, Counting, Opening, Has, Flushers
<1>6. \A f \in Named : Index(f)' = Index(f) /\ Rest(f)' = Rest(f) /\ Fetched(f)' = Fetched(f)
  BY <1>1, <1>2 DEF Index, Rest, Fetched
<1>7. DebtsOK'
  BY <1>1, <1>2, <1>4, <1>6, DebtsStay
<1>8. ChunksOK'
  BY <1>1 DEF LossOK, ChunksOK
<1>9. CutOK'
  BY <1>4, <1>5 DEF CutOK
<1>10. FlowOK'
  BY <1>3, <1>4, <1>5 DEF LossOK, FlowOK, ChangeOK
<1>11. NamedOK'
  BY <1>1, <1>2, <1>4 DEF LossOK, NamedOK
<1>12. RestOK'
  BY <1>1, <1>2 DEF LossOK, RestOK
<1>. QED BY <1>7, <1>8, <1>9, <1>10, <1>11, <1>12 DEF LossOK

LEMMA StutterLoss ==
  ASSUME SyncInv, LossOK, DebtsOK, UNCHANGED vars
  PROVE  LossOK' /\ DebtsOK'
<1>1. /\ UNCHANGED <<running, name, savedOff, savedCi, savedPend, outbox, drive>>
      /\ UNCHANGED <<offset, chunkIndex, pending, plan, job, todo, committed>>
      /\ UNCHANGED <<size, base, faults>>
  BY DEF vars, device, kept, cursors, object, work, locals, history
<1>2. \A f \in Named : base'[f] = base[f] /\ size[f] <= size'[f] /\ size'[f] \in Nat
  <2>1. \A f \in Named : size[f] \in Nat
    BY SyncAssumption DEF SyncInv, SyncTypeOK
  <2>. QED BY <1>1, <2>1
<1>. QED BY <1>1, <1>2, QuietLoss

-----------------------------------------------------------------------------
LEMMA LoopLoss ==
  ASSUME SyncInv, LossOK, DebtsOK, ~legacy, Loop
  PROVE  LossOK' /\ DebtsOK'
<1>1. ~FetchLegacy
  BY DEF FetchLegacy
<1>2. CASE Top \/ MoreWindows \/ NextWindow \/ CheckEnd \/ LegacyIsEmpty \/ NoStatus
             \/ DrainThrows \/ ListFails \/ FetchClosedThrows \/ LegacyThrows
             \/ OpenSession \/ ListFiles \/ SkipFile \/ AfterFile \/ CheckShrunk
  BY <1>2, PlainLoss
<1>3. CASE Status \/ NextFile \/ Finish \/ MarkDone \/ MayPersistPending
  BY <1>3, VisitLoss, FinishLoss, MarkLoss
<1>4. CASE LoadCursor \/ LoadPending \/ FetchWindow \/ FetchClosed
  BY <1>4, LoadLoss, LoadPendingLoss, FetchLoss
<1>5. CASE Shared("loop")
  BY <1>5, FlushLoss, WriteLoss, CountLoss, PersistOffsetLoss, PersistIndexLoss, PersistPendingLoss
     DEF Shared
<1>. QED BY <1>1, <1>2, <1>3, <1>4, <1>5 DEF Loop

(* stop() has not been called: it has nothing to do.                       *)
LEMMA OthersLoss ==
  ASSUME SyncInv, LossOK, DebtsOK, Others, faults'.stop = 0
  PROVE  LossOK' /\ DebtsOK'
<1>1. \A x : ~At("stop", x)
  BY DEF At, LossOK, FlowOK
<1>2. ~Shared("stop") /\ ~CloseSession
  BY <1>1 DEF Shared, Flush, WriteChunk, CountChunk, PersistOffset, PersistIndex, PersistPending,
     CloseSession
<1>3. ~Stop
  <2>1. Fault("stop") => faults'.stop # 0
    BY DEF Fault, SyncInv, FaultsOK, Faults
  <2>. QED BY <2>1 DEF Stop
<1>4. CASE \E chunk \in outbox : Upload(chunk)
  BY <1>4, UploadLoss
<1>5. CASE Kill \/ Start \/ Grow \/ Pause \/ Resume \/ ReuseName
  BY <1>5, KillLoss, StartLoss, DeviceLoss
<1>. QED BY <1>2, <1>3, <1>4, <1>5 DEF Others

LEMMA LegacyStays == ASSUME [SyncNext]_vars PROVE legacy' = legacy
<1>1. CASE UNCHANGED vars
  BY <1>1 DEF vars, device
<1>2. CASE Loop
  BY <1>2 DEF Loop, Top, OpenSession, NoStatus, Status, LoadCursor, LoadPending, CheckShrunk,
     MoreWindows, FetchWindow, DrainThrows, ListFiles, ListFails, NextFile, NextWindow,
     FetchClosed, FetchClosedThrows, FetchLegacy, LegacyIsEmpty, LegacyThrows, CheckEnd,
     SkipFile, Finish, MarkDone, AfterFile, MayPersistPending, Shared, Flush, WriteChunk,
     CountChunk, PersistOffset, PersistIndex, PersistPending, Turn, Outside, device
<1>3. CASE Others
  BY <1>3 DEF Others, Shared, Flush, WriteChunk, CountChunk, PersistOffset, PersistIndex,
     PersistPending, CloseSession, Stop, Kill, Start, Upload, Grow, Pause, Resume, ReuseName,
     device
<1>. QED BY <1>1, <1>2, <1>3 DEF SyncNext

LEMMA InitLoss == SyncInit => LossInv
<1>. SUFFICES ASSUME SyncInit PROVE LossOK /\ DebtsOK
  BY DEF LossInv
<1>. USE DEF SyncInit
<1>1. /\ plan["loop"] = <<"top">> /\ plan["stop"] = << >> /\ name = None /\ None \notin Named
      /\ Named \subseteq Files
  BY SyncAssumption DEF Workers
<1>2. Left("loop") = {"top"}
  BY <1>1 DEF Left, ToSet
<1>3. ~Writing /\ ~Counting /\ ~Opening /\ ~Has("loop", Flushers)
  BY <1>2 DEF Writing, Counting, Opening, Has, Flushers
<1>4. ChunksOK
  BY FS_EmptySet DEF ChunksOK
<1>5. CutOK
  BY <1>2, <1>3 DEF CutOK
<1>6. FlowOK
  BY <1>1, <1>2, <1>3 DEF FlowOK, ChangeOK
<1>7. NamedOK
  BY <1>1, <1>2 DEF NamedOK
<1>8. RestOK
  <2>1. Len(<< >>) <= LongestChunk - 1
    BY Longest
  <2>. QED BY <1>1, <2>1 DEF RestOK
<1>9. OwnOK({})
  <2>1. {} \in SUBSET Pairs /\ IsFiniteSet({})
    BY FS_EmptySet
  <2>. QED BY <1>1, <2>1 DEF OwnOK
<1>10. ASSUME NEW f \in Named PROVE DebtOK(f, {})
  <2>1. Fetched(f) = 0 /\ Sizes(outbox, f) = {} /\ Sizes(drive, f) = {}
    BY <1>1 DEF Fetched, Sizes
  <2>2. Lost(f) = {} /\ Stale(f) = {} /\ Clash(f, {}) = {}
    BY <2>1 DEF Lost, Stale, Clash
  <2>3. Cardinality({}) = 0 /\ Weight({}) = 0
    BY FS_EmptySet, WeightOfNone
  <2>4. Cardinality(Lost(f)) + Weight(Stale(f)) + Weight(Clash(f, {})) = 0
    <3>1. Cardinality(Lost(f)) = 0
      BY <2>2, <2>3, Zenon
    <3>2. Weight(Stale(f)) = 0
      BY <2>2, <2>3, Zenon
    <3>3. Weight(Clash(f, {})) = 0
      BY <2>2, <2>3, Zenon
    <3>. QED BY <3>1, <3>2, <3>3
  <2>5. faults.kill = 0
    BY DEF Faults
  <2>6. 0 * LossOfKill = 0
    BY Longest DEF LossOfKill
  <2>. QED BY <2>4, <2>5, <2>6 DEF DebtOK
<1>11. DebtsOK
  BY <1>9, <1>10 DEF DebtsOK
<1>. QED BY <1>4, <1>5, <1>6, <1>7, <1>8, <1>11 DEF LossOK

LEMMA NextLoss ==
  ASSUME SyncInv, LossInv, [SyncNext]_vars
  PROVE  LossInv'
<1>. SUFFICES ASSUME faults'.stop = 0, ~legacy' PROVE LossOK' /\ DebtsOK'
  BY DEF LossInv
<1>1. ~legacy
  BY LegacyStays
<1>2. faults.stop = 0
  <2>1. CASE UNCHANGED vars
    BY <2>1 DEF vars, history
  <2>2. CASE SyncNext
    <3>1. faults.stop \in Nat /\ "stop" \in Faults
      BY DEF SyncInv, FaultsOK, Faults
    <3>2. faults'["stop"] >= faults["stop"]
      BY <2>2, <3>1, FormatsCounted
    <3>. QED BY <3>1, <3>2
  <2>. QED BY <2>1, <2>2
<1>3. LossOK /\ DebtsOK
  BY <1>1, <1>2 DEF LossInv
<1>4. CASE UNCHANGED vars
  BY <1>3, <1>4, StutterLoss
<1>5. CASE Loop
  BY <1>1, <1>3, <1>5, LoopLoss
<1>6. CASE Others
  BY <1>3, <1>6, OthersLoss
<1>. QED BY <1>4, <1>5, <1>6 DEF SyncNext

(* The promise of the saved cursor (wr_sd_sync.dart:249-267): as long as   *)
(* stop() is not called, what was fetched, window by window, of an epoch-  *)
(* named recording is on the phone or on Drive, but for a chunk and two    *)
(* windows a kill, whatever the requests, uploads, formats and changes of  *)
(* file between.                                                           *)
THEOREM KillLossIsBounded == SyncSpec => []BoundedKillLoss
<1>1. SyncInit => SyncInv /\ LossInv
  BY InitInv, InitLoss
<1>2. SyncInv /\ LossInv /\ [SyncNext]_vars => (SyncInv /\ LossInv)'
  BY NextInv, NextLoss
<1>3. SyncInv /\ LossInv => BoundedKillLoss
  BY OwedIsBounded
<1>. QED BY <1>1, <1>2, <1>3, PTL DEF SyncSpec
=============================================================================
