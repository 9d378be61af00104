---------------------------- MODULE MCReviewQueue ----------------------------
(* ReviewQueue on two workers with a lane each, or one worker with one.      *)
EXTENDS ReviewQueue, TLC

CONSTANTS w1, w2, a1, b1, j1, j2

LanePerWorker == a1 :> w1 @@ b1 :> w2
OneLane == a1 :> w1

\* Job ids are random UUIDs, so jobs are interchangeable.
JobSymmetry == Permutations(JobIds)
=============================================================================
