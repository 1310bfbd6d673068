------------------------------ MODULE MCMailbox ------------------------------
(* A mailbox on small instances, as each kind of agent uses it.              *)
EXTENDS Mailbox, TLC

CONSTANTS b1, b2, c1, c2

TwoBundles == {b1, b2}
TwoClients == {c1, c2}

\* The UNIX agent lets its clients choose.
AllCalls == Methods \X BOOLEAN

\* One call of each method; GetNew(true) loses messages.
LosslessCalls == {<<"GetAll", TRUE>>, <<"Get", TRUE>>, <<"GetNew", FALSE>>}

Symmetry == Permutations(TwoBundles) \cup Permutations(TwoClients)
=============================================================================
