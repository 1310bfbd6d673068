----------------------------- MODULE MCProcessing -----------------------------
(* Processing on small instances.                                            *)
EXTENDS Processing, TLC

CONSTANTS b1, n0, n1, r1, f1, f2

OneBundle == {b1}
OnePeer   == {n0, n1}
=============================================================================
