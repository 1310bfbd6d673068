----------------------------- MODULE MCRecExecutor -----------------------------
(* Instances of RecExecutor for TLC: job 1 needs "x", which a datastore has,   *)
(* and produces "y", which job 2 needs; job 2 comes with "z", of the same      *)
(* content as "y".                                                            *)
EXTENDS RecExecutor

CONSTANTS j1, j2, v, w

MCExtends == {<<n, n>> : n \in Names}
MCRequired(j) == IF j = j1 THEN {"x"} ELSE {"y"}
MCProvided(j) == IF j = j1 THEN {} ELSE {"z"}
MCProduces(j) == IF j = j1 THEN {"y"} ELSE {}
MCContent(n) == IF n = "x" THEN v ELSE w
=============================================================================
