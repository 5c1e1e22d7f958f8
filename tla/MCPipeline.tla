------------------------------ MODULE MCPipeline ------------------------------
(* Small instance of Pipeline: k1 is a base station report that tells its   *)
(* own time, k2 a sentence that does not.                                   *)
EXTENDS Pipeline, TLC

CONSTANTS k1, k2

PastClock == k1 :> -2

Threadwise == Permutations(Threads)
=============================================================================
