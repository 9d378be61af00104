---------------------------- MODULE MCAtlasQueue ----------------------------
(* Values for the constants of AtlasQueue that a cfg cannot write down.     *)
EXTENDS AtlasQueue, TLC

CONSTANTS w1, w2, a1, a2, b1

\* Two workers with one lane each.
LanePerWorker == [l \in {a1, b1} |-> IF l = b1 THEN w2 ELSE w1]
\* One worker with two lanes.
OneWorker == [l \in {a1, a2} |-> w1]
\* One worker with one lane.
OneLane == [l \in {a1} |-> w1]
=============================================================================
