------------------------------ MODULE MCQuota ------------------------------
(* One request of four tokens is 80% of the limit of five, two exceed it.   *)
EXTENDS Quota

CONSTANTS r1, r2
=============================================================================
