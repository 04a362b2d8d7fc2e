------------------------------ MODULE MCLedger ------------------------------
(* Two streams, a plain request and two aggregators.                        *)
EXTENDS Ledger

CONSTANTS s1, s2, n1, a1, a2
=============================================================================
