----------------------------- MODULE MCClaManager -----------------------------
(* The CLA manager on small instances.                                       *)
EXTENDS ClaManager, TLC

CONSTANTS m1, q1

MtcpPeer  == {m1}
QuiclPeer == {q1}

\* One peer at a time: the MTCP peer and the QUICL peer share nothing but the
\* manager's lists, which are searched by address.
OnePeer ==
    \A cla, other \in Convergence :
        act[cla] # "none" /\ act[other] # "none" => cla[1] = other[1]
=============================================================================
