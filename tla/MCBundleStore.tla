---------------------------- MODULE MCBundleStore ----------------------------
(* The bundle store on a small instance.                                     *)
EXTENDS BundleStore, TLC

CONSTANTS b1, n0, n1

OneBundle == {b1}
TwoNodes  == {n0, n1}
OneCopy   == {1}
=============================================================================
