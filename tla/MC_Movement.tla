---------------------------- MODULE MC_Movement ----------------------------
(* Instances of Movement for TLC.  On the line, 1 is jitter, 2 a movement   *)
(* between zones and 3 one within a zone.  Of a fast observation the code   *)
(* reads neither zone nor hand when it decides, so one of each stands for   *)
(* all.                                                                     *)
EXTENDS Movement

CONSTANTS za, zb

Seen(p, z, fast, hand, held, mode, surface, release) ==
    [pos |-> p, zone |-> z, fast |-> fast, hand |-> hand, held |-> held,
     mode |-> mode, surface |-> surface, release |-> release]

Hands == {<<FALSE, FALSE>>, <<TRUE, FALSE>>}

\* Tagged items: two zones, with and without a hand, or no zone.
TagPositions == {0, 2, 3}
TagInputs ==
    {Seen(p, z, FALSE, h[1], h[2], "aruco", FALSE, None) : p \in TagPositions, z \in Zones, h \in Hands}
    \cup {Seen(p, za, TRUE, FALSE, FALSE, "aruco", FALSE, None) : p \in TagPositions}
    \cup {Seen(p, NoZone, FALSE, FALSE, FALSE, "aruco", FALSE, None) : p \in {2, 3}}

\* Photo identities: co-motion, release proofs of a first and of a second
\* handling (an item is held or released, not both), support surfaces, which
\* the code asks for only when a release ends a movement.
PhotoPositions == {0, 3}
PhotoInputs ==
    {Seen(p, za, FALSE, FALSE, FALSE, "experimental", s, r) :
        p \in PhotoPositions, s \in BOOLEAN, r \in {2, 5}}
    \cup {Seen(p, za, FALSE, FALSE, h, "experimental", FALSE, None) : p \in PhotoPositions, h \in BOOLEAN}
    \cup {Seen(3, za, TRUE, FALSE, FALSE, "experimental", FALSE, None)}
AllInputs == TagInputs \cup PhotoInputs
\* A photo identity waits for a hand release inside the movement, so its
\* movements take more frames.
Frames == [mode \in Modes |-> IF mode = "aruco" THEN 5 ELSE 8]
=============================================================================
