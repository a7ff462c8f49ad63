--------------------------- MODULE MCRedisGateway ---------------------------
(* Constant values for the run of RedisGateway.                            *)
EXTENDS RedisGateway, TLC

CONSTANTS a, b, a1, b1, p1, h, i1, i2

(* a reports the hazard and leads; b looks on.                             *)
MCWho == (a1 :> a) @@ (b1 :> b)
MCAuthor == (h :> a) @@ (Tour :> a)
InstanceSymmetry == Permutations(Instance)
=============================================================================
