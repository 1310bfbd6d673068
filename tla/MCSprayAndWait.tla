---------------------------- MODULE MCSprayAndWait ----------------------------
(* Instances of SprayAndWait for TLC.  The nodes that are neither the source  *)
(* nor the destination are relays; without liveness the destination is one    *)
(* more, and they are symmetric.                                              *)
EXTENDS SprayAndWait, TLC

FewRaces == races <= 1

Symmetry == Permutations(Nodes \ {Source}) \cup Permutations(Pipelines)
=============================================================================
