------------------------------ MODULE AbsSeen ------------------------------
(***************************************************************************)
(* What the table of already-seen pcs (emu_jit.c, "The negative cache")    *)
(* promises to the dispatcher: one answer per key, 0 for none.  An answer  *)
(* only ever moves the way a dispatch or a compaction moves it, for the    *)
(* key it was asked about; apart from that, answers are only forgotten.    *)
(* A forgotten answer never comes back.                                    *)
(***************************************************************************)
EXTENDS Integers

CONSTANTS Keys,             \* what an answer is about: a pc and a folded context
          HotThreshold,     \* misses before a pc is translated
          ThrashEvictions   \* evictions before a pc is given up; 0 is never

SeenDeclined == 255         \* the translator refused this pc
SeenThrash   == 254         \* evicted too often: interpreted instead
SeenEvicted  == 128         \* SeenEvicted + n: evicted n times
SeenValues   == 0..255

VARIABLE known
AbsTypeOK == known \in [Keys -> SeenValues]

AbsInit == known = [k \in Keys |-> 0]

\* The answers a dispatch or a compaction may give a key after the answer v.
Moves(v) ==
    (IF v < SeenEvicted /\ v + 1 < HotThreshold THEN {v + 1} ELSE {})
    \cup {SeenDeclined}
    \cup (IF v \notin {SeenDeclined, SeenThrash} /\ ThrashEvictions > 0
          THEN LET n == IF v >= SeenEvicted THEN v - SeenEvicted + 1 ELSE 1
               IN IF n < ThrashEvictions THEN {SeenEvicted + n}
                  ELSE {SeenThrash, SeenEvicted + n - 1}
          ELSE {})

\* Key k gets its next answer; every other key keeps its own or loses it.
Answer(k) ==
    /\ known'[k] \in Moves(known[k])
    /\ \A j \in Keys \ {k} : known'[j] \in {known[j], 0}
    /\ known' \in [Keys -> SeenValues]

\* Answers are dropped: a flush, a range of pcs, the thrashing marks.
Forget ==
    /\ \A j \in Keys : known'[j] \in {known[j], 0}
    /\ known' \in [Keys -> SeenValues]

AbsNext == Forget \/ \E k \in Keys : Answer(k)

AbsSpec == AbsInit /\ [][AbsNext]_known
=============================================================================
