---------------------------- MODULE MCNodeRegistry ----------------------------
(* Three connections: two from one address, one from another, whose lines   *)
(* may carry either of two source ids.                                      *)
EXTENDS NodeRegistry, TLC

CONSTANTS s1, s2, s3, h1, h2

MCHosts == s1 :> h1 @@ s2 :> h1 @@ s3 :> h2
=============================================================================
