---------------------------- MODULE ChunkStream ----------------------------
(***************************************************************************)
(* What the incremental sync of the app promises                           *)
(* (app_mobile/lib/services/wr_sd_sync.dart:58-69): the bytes of every     *)
(* recording, fetched in order, leave the phone once each, in order, in    *)
(* chunks of ChunkBytes; only a last one is shorter.                       *)
(***************************************************************************)
EXTENDS Integers, Sequences

CONSTANTS Files, ChunkBytes

VARIABLES got,      \* bytes fetched of each recording
          chunks    \* its chunks so far: sequences of byte positions

stream == <<got, chunks>>

Bytes(first, n) == [i \in 1 .. n |-> first + i - 1]

StreamInit == got = [f \in Files |-> 0] /\ chunks = [f \in Files |-> <<>>]

(* All chunks but the last are full.                                       *)
Sent(f) == IF chunks[f] = <<>> THEN 0
           ELSE ChunkBytes * (Len(chunks[f]) - 1) + Len(chunks[f][Len(chunks[f])])

Open(f) == Sent(f) = ChunkBytes * Len(chunks[f])

Get(f) ==
    /\ Open(f)
    /\ got'[f] > got[f] /\ got' = [got EXCEPT ![f] = got'[f]]
    /\ UNCHANGED chunks

Cut(f) ==
    /\ Open(f) /\ Sent(f) < got[f]
    /\ \E n \in 1 .. ChunkBytes :
          /\ n = ChunkBytes \/ Sent(f) + n = got[f]
          /\ Sent(f) + n <= got[f]
          /\ chunks' = [chunks EXCEPT ![f] = Append(@, Bytes(Sent(f) + 1, n))]
    /\ UNCHANGED got

StreamNext == \E f \in Files : Get(f) \/ Cut(f)

Stream == StreamInit /\ [][StreamNext]_stream
=============================================================================
