------------------------------- MODULE MCDedup -------------------------------
(* Small instance of Dedup, with fewer entries than keys.                   *)
EXTENDS Dedup, TLC

Symmetric == Permutations(Threads) \cup Permutations(Keys)
=============================================================================
