----------------------------- MODULE MCFailover -----------------------------
(* Two providers in one fail-over chain.                                    *)
EXTENDS Failover

CONSTANTS p1, p2, r1, r2

MCChains == {<<p1, p2>>}
=============================================================================
