----------------------------- MODULE SprayAndWait -----------------------------
(***************************************************************************)
(* Spray and wait routing (pkg/routing/spray_and_wait.go) of one bundle in *)
(* a network of nodes, each running the forwarding procedure of            *)
(* pkg/processing.  A node keeps the number of copies it may still hand    *)
(* out in the miscellaneous data of the bundle's descriptor, which the     *)
(* goroutines of receiveAsync and forwardingAsync read and write without a *)
(* common lock.                                                            *)
(*                                                                         *)
(* The bundle stays in the stores (Processing has deletion), its file can  *)
(* be read, and which peers a node is connected to is chosen at each       *)
(* selection.                                                              *)
(***************************************************************************)
EXTENDS Integers, FiniteSets, FiniteSetsExt, Functions, Sequences

CONSTANTS
    Nodes,
    Source,     \* the node an application gave the bundle to
    Dest,       \* the node it is addressed to
    L,          \* initial number of copies, the same in every configuration
    Pipelines   \* bound: forwardingAsync goroutines at a time

ASSUME SprayConstants == Source \in Nodes /\ Dest \in Nodes \ {Source} /\ L \in Nat \ {0}

None == -1      \* no entry in MiscellaneousData, or no BinarySprayBlock
New  == -2      \* the bundle was created on this node

VARIABLES
    binary,     \* the nodes configured for binary mode
    held,       \* the nodes with the bundle in their store
    block,      \* RemainingCopies of the BinarySprayBlock of the stored bundle
    known,      \* KnownHolders of the descriptor
    constraints,
    copies,     \* the "spray_and_wait/copies" of MiscellaneousData
    notify,     \* receiveAsync goroutines past InsertBundle, by what they hold
    fwd,        \* forwardingAsync goroutines
    sprayed,    \* history: transmissions of a bundle without a block
    races       \* history: how often a pipeline did not see the latest copies

sprayVars == <<binary, held, block, known, constraints, copies, notify, fwd, sprayed, races>>

Tags == None..L

IdlePipeline == [pc |-> "idle", node |-> Source, copies |-> 0, peers |-> {}, tag |-> None]

-----------------------------------------------------------------------------
(* receiveAsync                                                               *)

\* InsertBundle of a bundle with this block that arrives at n.
InsertBundle(n, tag) ==
    /\ held' = held \cup {n}
    /\ block' = IF n \in held THEN block ELSE [block EXCEPT ![n] = tag]
    /\ constraints' = IF n \in held THEN constraints
                      ELSE [constraints EXCEPT ![n] = {"DispatchPending"}]
    /\ notify' = [notify EXCEPT ![n] = Append(@, tag)]

Spawn(f, n) == fwd' = [fwd EXCEPT ![f] = [IdlePipeline EXCEPT !.pc = "begin", !.node = n]]

\* The rest of receiveAsync, from the notification on: a bundle with
\* DispatchPending is forwarded.
Forwarded(n) ==
    IF "DispatchPending" \in constraints[n]
    THEN \E f \in Pipelines : fwd[f] = IdlePipeline /\ Spawn(f, n)
    ELSE UNCHANGED fwd

NotifyNewBundle(n, i) ==
    /\ notify[n][i] = New
    /\ copies' = [copies EXCEPT ![n] = L]

NotifyReceivedBundle(n, i) ==
    /\ notify[n][i] # New
    /\ copies' = [copies EXCEPT ![n] = IF notify[n][i] = None THEN 0 ELSE notify[n][i]]

ReceiveAsync(n, i) ==
    /\ i \in DOMAIN notify[n]
    /\ NotifyNewBundle(n, i) \/ NotifyReceivedBundle(n, i)
    /\ Forwarded(n)
    /\ notify' = [notify EXCEPT ![n] = SubSeq(@, 1, i - 1) \o SubSeq(@, i + 1, Len(@))]
    /\ UNCHANGED <<binary, held, block, known, constraints, sprayed, races>>

-----------------------------------------------------------------------------
(* forwardingAsync                                                            *)

\* DispatchPending, of the timer or for a new peer: a bundle is dispatched
\* unless it has ForwardPending.
DispatchPending(n) ==
    /\ n \in held
    /\ "ForwardPending" \notin constraints[n]
    /\ \E f \in Pipelines : fwd[f] = IdlePipeline /\ Spawn(f, n)
    /\ UNCHANGED <<binary, held, block, known, constraints, copies, notify, sprayed, races>>

Begin(f) ==
    LET n == fwd[f].node
    IN  /\ fwd[f].pc = "begin"
        /\ constraints' = [constraints EXCEPT ![n] = (@ \cup {"ForwardPending"}) \ {"DispatchPending"}]
        /\ fwd' = [fwd EXCEPT ![f].pc = "select"]
        /\ UNCHANGED <<binary, held, block, known, copies, notify, sprayed, races>>

\* bundleContraindicated: ResetConstraints.
Contraindicated(f) ==
    /\ constraints' = [constraints EXCEPT ![fwd[f].node] = {}]
    /\ fwd' = [fwd EXCEPT ![f] = IdlePipeline]

FilterPeers(n, clas) == clas \ known[n]

\* Mutant of Stops: binary mode gives the last copy away.
StopsAtZero(n, c) == c = 0

\* Basic mode stops at 0 copies, binary mode at 1.
Stops(n, c) == IF n \in binary THEN c <= 1 ELSE c = 0

\* The copies read are not the ones the node will go on with: receiveAsync has
\* yet to set them, or another pipeline has yet to write what it leaves of them.
Races(n) ==
    \/ copies[n] = None
    \/ \E g \in Pipelines : fwd[g].node = n /\ fwd[g].pc = "set"

\* SelectPeersForForwarding as far as the reads: getSprayCopies, or the
\* default if there is no entry, and the connected peers that lack the bundle.
SelectPeersForForwarding(f, clas) ==
    LET n     == fwd[f].node
        c     == IF copies[n] = None THEN L ELSE copies[n]
        peers == FilterPeers(n, clas)
    IN  /\ fwd[f].pc = "select"
        /\ copies' = [copies EXCEPT ![n] = c]
        /\ IF Stops(n, c) \/ peers = {}
           THEN Contraindicated(f)
           ELSE /\ fwd' = [fwd EXCEPT ![f].pc = "set", ![f].copies = c, ![f].peers = peers]
                /\ UNCHANGED constraints
        /\ races' = races + (IF Races(n) THEN 1 ELSE 0)
        /\ UNCHANGED <<binary, held, block, known, notify, sprayed>>

\* The stored bundle goes to all the peers, or to as many as there are copies.
SelectBasicSpray(f) ==
    LET n == fwd[f].node
        c == fwd[f].copies
    IN  /\ n \notin binary
        /\ \E selected \in SUBSET fwd[f].peers :
              /\ Cardinality(selected) = Min({c, Cardinality(fwd[f].peers)})
              /\ copies' = [copies EXCEPT ![n] = c - Cardinality(selected)]
              /\ fwd' = [fwd EXCEPT ![f].pc = "send", ![f].peers = selected, ![f].tag = block[n]]
              /\ sprayed' = sprayed + (IF block[n] = None THEN Cardinality(selected) ELSE 0)

\* Mutant of SelectBinarySpray: the odd copy is given away and kept as well.
SelectBinarySprayRoundedUp(f) ==
    LET n == fwd[f].node
        c == fwd[f].copies
    IN  /\ n \in binary
        /\ \E peer \in fwd[f].peers :
              fwd' = [fwd EXCEPT ![f].pc = "send", ![f].peers = {peer}, ![f].tag = (c + 1) \div 2]
        /\ copies' = [copies EXCEPT ![n] = c \div 2 + (c % 2)]
        /\ UNCHANGED sprayed

\* One peer gets the bundle with a new block that holds half the copies.
SelectBinarySpray(f) ==
    LET n == fwd[f].node
        c == fwd[f].copies
    IN  /\ n \in binary
        /\ \E peer \in fwd[f].peers :
              fwd' = [fwd EXCEPT ![f].pc = "send", ![f].peers = {peer}, ![f].tag = c \div 2]
        /\ copies' = [copies EXCEPT ![n] = c \div 2 + (c % 2)]
        /\ UNCHANGED sprayed

\* The end of SelectPeersForForwarding: setSprayCopies, from the copies read.
SetSprayCopies(f) ==
    /\ fwd[f].pc = "set"
    /\ SelectBasicSpray(f) \/ SelectBinarySpray(f)
    /\ UNCHANGED <<binary, held, block, known, constraints, notify, races>>

\* forwardBundleToPeer with a Send that returns no error: the peer has the
\* bundle, and is a known holder.
Send(f, m) ==
    LET n == fwd[f].node
    IN  /\ fwd[f].pc = "send"
        /\ m \in fwd[f].peers
        /\ InsertBundle(m, fwd[f].tag)
        /\ known' = [known EXCEPT ![n] = @ \cup {m}, ![m] = @ \cup {m, n}]
        /\ fwd' = [fwd EXCEPT ![f].peers = @ \ {m}]
        /\ UNCHANGED <<binary, copies, sprayed, races>>

\* Send fails, or succeeds for a bundle that never arrives.
SendLost(f, m) ==
    LET n == fwd[f].node
    IN  /\ fwd[f].pc = "send"
        /\ m \in fwd[f].peers
        /\ known' \in {known, [known EXCEPT ![n] = @ \cup {m}]}
        /\ fwd' = [fwd EXCEPT ![f].peers = @ \ {m}]
        /\ UNCHANGED <<binary, held, block, constraints, copies, notify, sprayed, races>>

Finish(f) ==
    /\ fwd[f].pc = "send"
    /\ fwd[f].peers = {}
    /\ constraints' = [constraints EXCEPT ![fwd[f].node] = @ \ {"ForwardPending"}]
    /\ fwd' = [fwd EXCEPT ![f] = IdlePipeline]
    /\ UNCHANGED <<binary, held, block, known, copies, notify, sprayed, races>>

-----------------------------------------------------------------------------

SprayInit ==
    /\ binary \in SUBSET Nodes
    /\ held = {Source}
    /\ block = [n \in Nodes |-> None]
    /\ known = [n \in Nodes |-> IF n = Source THEN {Source} ELSE {}]
    /\ constraints = [n \in Nodes |-> IF n = Source THEN {"DispatchPending"} ELSE {}]
    /\ copies = [n \in Nodes |-> None]
    /\ notify = [n \in Nodes |-> IF n = Source THEN <<New>> ELSE <<>>]
    /\ fwd = [f \in Pipelines |-> IdlePipeline]
    /\ sprayed = 0
    /\ races = 0

SprayNext ==
    \/ \E n \in Nodes : DispatchPending(n) \/ \E i \in DOMAIN notify[n] : ReceiveAsync(n, i)
    \/ \E f \in Pipelines :
          \/ Begin(f) \/ SetSprayCopies(f) \/ Finish(f)
          \/ \E clas \in SUBSET (Nodes \ {fwd[f].node}) : SelectPeersForForwarding(f, clas)
          \/ \E m \in Nodes : Send(f, m) \/ SendLost(f, m)

SpraySpec == SprayInit /\ [][SprayNext]_sprayVars

\* The best of networks: every transmission arrives, the goroutines make
\* progress, the timer dispatches again and again, and a node that selects peers
\* again and again is connected to the destination again and again.
SprayFairSpec ==
    /\ SprayInit
    /\ [][SprayNext /\ \A f \in Pipelines, m \in Nodes : ~SendLost(f, m)]_sprayVars
    /\ \A n \in Nodes : /\ SF_sprayVars(DispatchPending(n))
                        /\ SF_sprayVars(\E i \in DOMAIN notify[n] : ReceiveAsync(n, i))
    /\ \A f \in Pipelines :
          /\ WF_sprayVars(Begin(f)) /\ WF_sprayVars(SetSprayCopies(f)) /\ WF_sprayVars(Finish(f))
          /\ WF_sprayVars(\E m \in Nodes : Send(f, m))
          /\ SF_sprayVars(\E clas \in SUBSET (Nodes \ {fwd[f].node}) :
                       Dest \in clas /\ SelectPeersForForwarding(f, clas))

-----------------------------------------------------------------------------
(* Properties                                                                 *)

\* The types of the variables.
SprayTypeOK ==
    /\ binary \subseteq Nodes /\ held \subseteq Nodes
    /\ block \in [Nodes -> Tags]
    /\ known \in [Nodes -> SUBSET Nodes]
    /\ constraints \in [Nodes -> SUBSET {"DispatchPending", "ForwardPending"}]
    /\ copies \in [Nodes -> Tags]
    /\ \A n \in Nodes : Range(notify[n]) \subseteq Tags \cup {New}
    /\ fwd \in [Pipelines -> [pc : {"idle", "begin", "select", "set", "send"}, node : Nodes,
                              copies : 0..L, peers : SUBSET Nodes, tag : Tags]]
    /\ sprayed \in Nat /\ races \in Nat

\* What a notification will make the copies of its node.
Weight(tag) == CASE tag = New -> L [] tag = None -> 0 [] OTHER -> tag

\* The copies that nodes may hand out, that are on the way to a node, and,
\* without blocks, that were handed out.
Tokens ==
    LET Kept(n)   == Weight(copies[n]) + FoldFunction(LAMBDA t, sum : Weight(t) + sum, 0, notify[n])
        Sending(f) == IF fwd[f].pc = "send" THEN Weight(fwd[f].tag) * Cardinality(fwd[f].peers) ELSE 0
    IN  sprayed + MapThenSumSet(Kept, Nodes) + MapThenSumSet(Sending, Pipelines)

\* Copies are made up by races only: in a network of one mode, the copies that
\* nodes may still hand out, those on the way and those handed out are never more
\* than the configured number, and so many more for each selection that read
\* copies another goroutine was about to set (Races), which the code does not
\* exclude.  Failed sends, bundles received again and any number of pipelines add
\* nothing.
CopiesAreNotMadeUp == binary \in {{}, Nodes} => Tokens <= L * (1 + races)

\* Binary mode never hands out nothing and never keeps nothing, races included:
\* a bundle that is sent carries at least one copy, and a node that was notified
\* keeps one, so that every holder can go on carrying the bundle.
BinaryKeepsOne ==
    binary = Nodes =>
        /\ \A n \in Nodes : copies[n] # 0 /\ \A t \in Range(notify[n]) : Weight(t) > 0
        /\ \A f \in Pipelines : fwd[f].pc = "send" => fwd[f].tag > 0

\* What selectBasicSpray says of the wait phase: a carrying node that encounters
\* the recipient transmits the bundle to it.
DirectTransmission == binary = {} => \A n \in Nodes : n \in held ~> Dest \in held
=============================================================================
