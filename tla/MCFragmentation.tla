---------------------------- MODULE MCFragmentation ----------------------------
(* Instances of Fragmentation for TLC.  A byte of a payload is its position;   *)
(* the long payload has offsets on both sides of 24, where a number takes two  *)
(* bytes.                                                                      *)
EXTENDS Fragmentation

MCBytes == 0..26
MCPayloads == {[i \in 1..n |-> i - 1] : n \in {0, 27}}
=============================================================================
