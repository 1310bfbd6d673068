------------------------------ MODULE MCRecBroker ------------------------------
(* Instances of RecBroker for TLC.                                            *)
EXTENDS RecBroker

\* hrw_select(key, nodes, replicas) of placement/hrw.py.
MCHrwParameters == {"key", "nodes", "replicas"}
=============================================================================
