------------------------------ MODULE MCSdSync ------------------------------
(* SdSync for TLC.                                                         *)
EXTENDS SdSync

CONSTANTS NamedSizes, RecSizes

(* Fewer interleavings that nobody can tell apart.  What the device does   *)
(* between two requests is seen by the second only: it does it then.  An   *)
(* upload matters only to a chunk of the same name, to be written or to be *)
(* uploaded next.                                                          *)
Asking == \E step \in {"status", "list", "fetch", "fetchClosed"} : At("loop", step)
Matters(chunk) == \/ \E w \in Workers : At(w, "write") /\ job[w].target = chunk[1]
                  \/ \E d \in drive : d[1] = chunk[1]

OnlyWhenSeen ==
    /\ device' # device => Asking
    /\ plan' = plan => \A chunk \in outbox \ outbox' : Matters(chunk)

(* The instance: sizes a recording is seen with; two seconds in all.       *)
Instance ==
    /\ \A f \in Files : size'[f] \in IF f \in Named THEN NamedSizes ELSE RecSizes
    /\ clock' <= 1
=============================================================================
