--------------------------- MODULE MCEnrichment ---------------------------
(* Instances of EnrichmentWorkers for TLC. *)
EXTENDS EnrichmentWorkers, TLC

CONSTANTS w1, w2, p1, p2

\* Two workers in the one pool ...
OnePool == w1 :> p1 @@ w2 :> p1

\* ... or one worker in each of two pools.
TwoPools == w1 :> p1 @@ w2 :> p2

\* One worker in the one pool.
Single == w1 :> p1

\* The workers of a pool are interchangeable.
WorkerSymmetry == Permutations(Workers)
=============================================================================
