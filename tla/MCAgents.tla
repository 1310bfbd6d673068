------------------------------ MODULE MCAgents ------------------------------
(* The instance of Agents for TLC: the daemon runs one of the three agents;  *)
(* the REC agent, which reads several mailboxes in one request, has two      *)
(* bundles.                                                                  *)
EXTENDS Agents, TLC

MCConfigurations == {{a} : a \in Kinds}
MCMaxSends == [c \in MCConfigurations |-> IF "rec" \in c THEN 2 ELSE 1]
Symmetry == Permutations(Handlers) \cup Permutations(UUIDs)

=============================================================================
