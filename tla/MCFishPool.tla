------------------------------ MODULE MCFishPool ------------------------------
(* Two connections to one site, each with up to two views; three sessions,    *)
(* so that two reconnects of one connection can race.                         *)
EXTENDS FishPool
CONSTANTS c1, c2, s1, s2, s3
===============================================================================
