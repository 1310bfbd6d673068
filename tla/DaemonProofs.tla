---------------------------- MODULE DaemonProofs ----------------------------
(***************************************************************************)
(* Proofs about three parts of the daemon that share no state: spray and   *)
(* wait routing, the CLA manager, and a mailbox.                           *)
(***************************************************************************)
EXTENDS ClaManager, Mailbox, SprayAndWait, TLAPS

(***************************************************************************)
(* Spray and wait                                                          *)
(*                                                                         *)
(* In a network of binary mode no number of copies that a node records,    *)
(* that a block carries or that a pipeline has read is ever 0, whichever   *)
(* goroutine overwrites what another one wrote.  BinaryKeepsOne says this  *)
(* of the copies and of the bundles on the way; it is inductive together   *)
(* with the copies a pipeline goes on with, which are 2 at least, so that  *)
(* both halves of them are positive.                                       *)
(***************************************************************************)

\* What a node of binary mode has recorded, if anything.
CopyCounts == {None} \cup 1..L

\* A pipeline in binary mode: it goes on with two copies at least, and sends one at least.
PipelineOK(p) ==
    /\ p \in [pc : {"idle", "begin", "select", "set", "send"}, node : Nodes,
              copies : 0..L, peers : SUBSET Nodes, tag : CopyCounts]
    /\ p.pc = "set" => p.copies >= 2
    /\ p.pc = "send" => p.tag \in 1..L

\* Binary mode's inductive invariant: wherever copies are written down, they are positive.
BinaryInv ==
    /\ copies \in [Nodes -> CopyCounts]
    /\ notify \in [Nodes -> Seq({New} \cup 1..L)]
    /\ DOMAIN fwd = Pipelines /\ fwd = [f \in Pipelines |-> fwd[f]]
    /\ \A f \in Pipelines : PipelineOK(fwd[f])

\* What the constants are, as the steps below use them.
LEMMA BinaryConstants == L \in Nat /\ L >= 1 /\ Source \in Nodes /\ None = -1 /\ New = -2
BY SprayConstants DEF None, New

\* A free pipeline has nothing to send.
LEMMA IdleOK == PipelineOK(IdlePipeline)
BY BinaryConstants DEF PipelineOK, IdlePipeline, CopyCounts

\* A step that changes one pipeline.
LEMMA PipelineStep ==
    ASSUME BinaryInv, NEW f \in Pipelines, NEW p, PipelineOK(p), fwd' = [fwd EXCEPT ![f] = p],
           copies' \in [Nodes -> CopyCounts], notify' \in [Nodes -> Seq({New} \cup 1..L)]
    PROVE  BinaryInv'
<1>1. fwd' = [g \in Pipelines |-> IF g = f THEN p ELSE fwd[g]]
  BY DEF BinaryInv
<1>2. \A g \in Pipelines : PipelineOK(fwd'[g])
  BY <1>1 DEF BinaryInv
<1>3. \A g \in Pipelines : PipelineOK(fwd[g])'
  BY <1>2 DEF PipelineOK, CopyCounts
<1> QED BY <1>1, <1>3 DEF BinaryInv, CopyCounts

\* The start of forwardingAsync.
LEMMA SpawnStep ==
    ASSUME BinaryInv, NEW f \in Pipelines, NEW n \in Nodes, Spawn(f, n),
           copies' \in [Nodes -> CopyCounts], notify' \in [Nodes -> Seq({New} \cup 1..L)]
    PROVE  BinaryInv'
<1> DEFINE q == [IdlePipeline EXCEPT !.pc = "begin", !.node = n]
<1>1. fwd' = [fwd EXCEPT ![f] = q]
  BY DEF Spawn
<1>2. PipelineOK(q)
  BY IdleOK DEF PipelineOK
<1> HIDE DEF q
<1> QED BY <1>1, <1>2, PipelineStep

\* A notification sets L copies, or those of a block that was sent.
LEMMA ReceiveAsyncKeeps ==
    ASSUME BinaryInv, NEW n \in Nodes, NEW i \in DOMAIN notify[n], ReceiveAsync(n, i)
    PROVE  BinaryInv'
<1>1. notify[n] \in Seq({New} \cup 1..L) /\ notify[n][i] \in {New} \cup 1..L
  BY DEF BinaryInv
<1>2. copies' \in [Nodes -> CopyCounts]
  <2>1. PICK c \in 1..L : copies' = [copies EXCEPT ![n] = c]
    <3>1. CASE NotifyNewBundle(n, i)
      <4>1. L \in 1..L
        BY BinaryConstants
      <4> QED BY <3>1, <4>1 DEF NotifyNewBundle
    <3>2. CASE NotifyReceivedBundle(n, i)
      <4>1. notify[n][i] \in 1..L /\ notify[n][i] # None
        BY <1>1, <3>2, BinaryConstants DEF NotifyReceivedBundle
      <4> QED BY <3>2, <4>1 DEF NotifyReceivedBundle
    <3> QED BY <3>1, <3>2 DEF ReceiveAsync
  <2> QED BY <2>1 DEF BinaryInv, CopyCounts
<1>3. SubSeq(notify[n], 1, i - 1) \o SubSeq(notify[n], i + 1, Len(notify[n])) \in Seq({New} \cup 1..L)
  <2>1. i \in 1..Len(notify[n]) /\ Len(notify[n]) \in Nat
    BY <1>1
  <2>2. SubSeq(notify[n], 1, i - 1) \in Seq({New} \cup 1..L)
    BY <1>1, <2>1
  <2>3. SubSeq(notify[n], i + 1, Len(notify[n])) \in Seq({New} \cup 1..L)
    BY <1>1, <2>1
  <2> QED BY <2>2, <2>3
<1>4. notify' \in [Nodes -> Seq({New} \cup 1..L)]
  BY <1>3 DEF ReceiveAsync, BinaryInv
<1>5. CASE UNCHANGED fwd
  <2>1. \A g \in Pipelines : PipelineOK(fwd[g])'
    BY <1>5 DEF PipelineOK, CopyCounts, BinaryInv
  <2> QED BY <1>2, <1>4, <1>5, <2>1 DEF BinaryInv, CopyCounts
<1>6. CASE \E f \in Pipelines : Spawn(f, n)
  BY <1>2, <1>4, <1>6, SpawnStep
<1> QED BY <1>5, <1>6 DEF ReceiveAsync, Forwarded

\* A dispatch changes no copies.
LEMMA DispatchKeeps ==
    ASSUME BinaryInv, NEW n \in Nodes, DispatchPending(n)
    PROVE  BinaryInv'
<1>1. copies' \in [Nodes -> CopyCounts] /\ notify' \in [Nodes -> Seq({New} \cup 1..L)]
  BY DEF DispatchPending, BinaryInv
<1> QED BY <1>1, SpawnStep DEF DispatchPending

\* The steps of a pipeline.
LEMMA PipelineKeeps ==
    ASSUME BinaryInv, binary = Nodes, NEW f \in Pipelines,
           \/ Begin(f) \/ SetSprayCopies(f) \/ Finish(f)
           \/ \E clas \in SUBSET (Nodes \ {fwd[f].node}) : SelectPeersForForwarding(f, clas)
           \/ \E m \in Nodes : Send(f, m) \/ SendLost(f, m)
    PROVE  BinaryInv'
<1> DEFINE p == fwd[f]
           n == p.node
<1>1. PipelineOK(p) /\ n \in Nodes
  BY DEF BinaryInv, PipelineOK
<1>3. /\ copies \in [Nodes -> CopyCounts] /\ notify \in [Nodes -> Seq({New} \cup 1..L)]
      /\ DOMAIN fwd = Pipelines /\ fwd = [g \in Pipelines |-> fwd[g]]
  BY DEF BinaryInv
<1>4. CASE Begin(f)
  <2> DEFINE q == [p EXCEPT !.pc = "select"]
  <2>1. fwd' = [fwd EXCEPT ![f] = q] /\ UNCHANGED <<copies, notify>>
    BY <1>3, <1>4 DEF Begin
  <2>2. PipelineOK(q)
    BY <1>1 DEF PipelineOK
  <2> HIDE DEF q
  <2> QED BY <1>3, <2>1, <2>2, PipelineStep
<1>5. ASSUME NEW clas \in SUBSET (Nodes \ {fwd[f].node}), SelectPeersForForwarding(f, clas)
      PROVE  BinaryInv'
  <2> DEFINE c == IF copies[n] = None THEN L ELSE copies[n]
             q == [p EXCEPT !.pc = "set", !.copies = c, !.peers = FilterPeers(n, clas)]
  <2>1. c \in 1..L
    BY <1>1, <1>3, BinaryConstants DEF CopyCounts
  <2>2. copies' = [copies EXCEPT ![n] = c] /\ UNCHANGED notify
    BY <1>5 DEF SelectPeersForForwarding
  <2>3. copies' \in [Nodes -> CopyCounts] /\ notify' \in [Nodes -> Seq({New} \cup 1..L)]
    BY <1>3, <2>1, <2>2 DEF CopyCounts
  <2>4. CASE Contraindicated(f)
    BY <2>3, <2>4, IdleOK, PipelineStep DEF Contraindicated
  <2>5. CASE ~Stops(n, c) /\ fwd' = [fwd EXCEPT ![f].pc = "set", ![f].copies = c, ![f].peers = FilterPeers(n, clas)]
    <3>1. fwd' = [fwd EXCEPT ![f] = q]
      BY <1>3, <2>5
    <3>2. c >= 2
      BY <1>1, <2>1, <2>5 DEF Stops
    <3>3. PipelineOK(q)
      <4>1. FilterPeers(n, clas) \in SUBSET Nodes /\ c \in 0..L
        BY <2>1, BinaryConstants DEF FilterPeers
      <4> HIDE DEF c
      <4> QED BY <1>1, <3>2, <4>1 DEF PipelineOK
    <3> HIDE DEF q, c
    <3> QED BY <2>3, <3>1, <3>3, PipelineStep
  <2> QED BY <1>5, <2>4, <2>5 DEF SelectPeersForForwarding
<1>6. CASE SetSprayCopies(f)
  <2> DEFINE c == p.copies
  <2>1. c \in 2..L
    <3>1. p.pc = "set"
      BY <1>6, Zenon DEF SetSprayCopies
    <3>2. PipelineOK(p)
      BY <1>1
    <3> HIDE DEF p
    <3> QED BY <3>1, <3>2, BinaryConstants DEF PipelineOK
  <2>2. SelectBinarySpray(f) /\ UNCHANGED notify
    <3>1. ~SelectBasicSpray(f)
      BY <1>1, Zenon DEF SelectBasicSpray
    <3> QED BY <1>6, <3>1, Zenon DEF SetSprayCopies
  <2>3. PICK peer \in p.peers :
           fwd' = [fwd EXCEPT ![f].pc = "send", ![f].peers = {peer}, ![f].tag = c \div 2]
    BY <2>2 DEF SelectBinarySpray
  <2>4. c \div 2 \in 1..L /\ c \div 2 + (c % 2) \in 1..L
    BY <2>1, BinaryConstants
  <2>5. copies' \in [Nodes -> CopyCounts]
    BY <1>3, <2>2, <2>4 DEF SelectBinarySpray, CopyCounts
  <2> DEFINE q == [p EXCEPT !.pc = "send", !.peers = {peer}, !.tag = c \div 2]
  <2>6. fwd' = [fwd EXCEPT ![f] = q]
    BY <1>3, <2>3
  <2>7. PipelineOK(q)
    BY <1>1, <2>4 DEF PipelineOK, CopyCounts
  <2> HIDE DEF q
  <2> QED BY <1>3, <2>2, <2>5, <2>6, <2>7, PipelineStep
<1>7. ASSUME NEW m \in Nodes, Send(f, m) \/ SendLost(f, m)
      PROVE  BinaryInv'
  <2> DEFINE q == [p EXCEPT !.peers = @ \ {m}]
  <2>1. fwd' = [fwd EXCEPT ![f] = q] /\ UNCHANGED copies
    BY <1>3, <1>7 DEF Send, SendLost
  <2>2. PipelineOK(q)
    BY <1>1 DEF PipelineOK
  <2>3. p.tag \in {New} \cup 1..L
    BY <1>1, <1>7 DEF Send, SendLost, PipelineOK
  <2>4. notify' \in [Nodes -> Seq({New} \cup 1..L)]
    <3>1. CASE Send(f, m)
      <4>1. Append(notify[m], p.tag) \in Seq({New} \cup 1..L)
        BY <1>3, <2>3
      <4> QED BY <1>3, <3>1, <4>1 DEF Send, InsertBundle
    <3>2. CASE SendLost(f, m)
      BY <1>3, <3>2 DEF SendLost
    <3> QED BY <1>7, <3>1, <3>2
  <2> HIDE DEF q
  <2> QED BY <1>3, <2>1, <2>2, <2>4, PipelineStep
<1>8. CASE Finish(f)
  BY <1>3, <1>8, IdleOK, PipelineStep DEF Finish
<1> QED BY <1>4, <1>5, <1>6, <1>7, <1>8

\* In a network of binary mode, for any number of nodes, copies and pipelines and
\* whatever they read of each other's copies, every transmission hands out a copy at
\* least, and a node that was notified keeps one (SelectPeersForForwarding).
THEOREM BinaryTheorem == SpraySpec => []BinaryKeepsOne
<1> DEFINE Inv == binary = Nodes => BinaryInv
<1>1. SprayInit => Inv
  <2> SUFFICES ASSUME SprayInit PROVE BinaryInv
    OBVIOUS
  <2>1. copies \in [Nodes -> CopyCounts]
    BY DEF SprayInit, CopyCounts
  <2>2. notify \in [Nodes -> Seq({New} \cup 1..L)]
    <3>1. <<New>> \in Seq({New} \cup 1..L) /\ <<>> \in Seq({New} \cup 1..L)
      OBVIOUS
    <3> QED BY <3>1 DEF SprayInit
  <2>3. \A f \in Pipelines : PipelineOK(fwd[f])
    BY IdleOK DEF SprayInit
  <2> QED BY <2>1, <2>2, <2>3 DEF SprayInit, BinaryInv
<1>2. Inv /\ [SprayNext]_sprayVars => Inv'
  <2> SUFFICES ASSUME Inv, [SprayNext]_sprayVars, binary' = Nodes PROVE BinaryInv'
    OBVIOUS
  <2>1. binary' = binary
    BY DEF SprayNext, sprayVars, DispatchPending, ReceiveAsync, Begin, SetSprayCopies, Finish,
           SelectPeersForForwarding, Send, SendLost
  <2>2. BinaryInv /\ binary = Nodes
    BY <2>1
  <2>3. CASE UNCHANGED sprayVars
    <3>1. \A g \in Pipelines : PipelineOK(fwd[g])'
      BY <2>2, <2>3 DEF PipelineOK, CopyCounts, BinaryInv, sprayVars
    <3> QED BY <2>2, <2>3, <3>1 DEF BinaryInv, CopyCounts, sprayVars
  <2>4. CASE SprayNext
    BY <2>2, <2>4, ReceiveAsyncKeeps, DispatchKeeps, PipelineKeeps DEF SprayNext
  <2> QED BY <2>3, <2>4
<1>3. Inv => BinaryKeepsOne
  <2> SUFFICES ASSUME BinaryInv
               PROVE  /\ \A n \in Nodes : copies[n] # 0 /\ \A t \in Range(notify[n]) : Weight(t) > 0
                      /\ \A f \in Pipelines : fwd[f].pc = "send" => fwd[f].tag > 0
    BY DEF BinaryKeepsOne
  <2>1. ASSUME NEW n \in Nodes PROVE copies[n] # 0
    BY BinaryConstants DEF BinaryInv, CopyCounts
  <2>2. ASSUME NEW n \in Nodes, NEW t \in Range(notify[n]) PROVE Weight(t) > 0
    <3>1. t \in {New} \cup 1..L
      BY DEF BinaryInv, Range
    <3> QED BY <3>1, BinaryConstants DEF Weight
  <2>3. ASSUME NEW f \in Pipelines, fwd[f].pc = "send" PROVE fwd[f].tag > 0
    BY <2>3, BinaryConstants DEF BinaryInv, PipelineOK
  <2> QED BY <2>1, <2>2, <2>3
<1> QED BY <1>1, <1>2, <1>3, PTL DEF SpraySpec

(***************************************************************************)
(* The CLA manager                                                         *)
(*                                                                         *)
(* For any number of addresses and CLA objects, the manager keeps one      *)
(* entry per address, and an MTCP client that nobody has closed stays in   *)
(* use although disconnections remove by address.  The reason is in        *)
(* NotifyInv: a client is closed at most once, and from the moment it is   *)
(* connected until its own removal it occupies its address.                *)
(***************************************************************************)

\* Exactly the activated CLAs have, or have had, a connection; only listed ones are senders.
ConnInv ==
    /\ senders \subseteq {cla \in Convergence : act[cla] = "listed"}
    /\ \A cla \in Convergence : conn[cla] # "none" <=> act[cla] \in {"activated", "listed"}

\* A call of NotifyDisconnect for an MTCP client is the only one there is for it,
\* and until it has removed the client nothing else can have its address.
NotifyInv ==
    \A r \in notifying \cup removing :
        IsMTCP(r[1]) =>
            /\ r[1] \in stopped
            /\ singleton = "up" => r[1] \in pendingStart \cup senders
            /\ \A s \in notifying \cup removing : s[1] = r[1] => s = r
            /\ r \notin notifying \cap removing

ClaInv ==
    /\ ManagerTypeOK
    /\ PendingIsActivating
    /\ OneEntryPerAddress
    /\ RemovalIsUnderWay
    /\ ConnectedIsListed
    /\ ConnInv
    /\ NotifyInv

\* The initial state satisfies the invariant.
LEMMA ClaInitInv == ManagerInit => ClaInv
BY DEF ManagerInit, ClaInv, ManagerTypeOK, PendingIsActivating, OneEntryPerAddress, RemovalIsUnderWay,
       ConnectedIsListed, ConnInv, NotifyInv

\* Registration and activation keep the invariant.
LEMMA RegisterStepInv ==
    ASSUME NEW cla \in Convergence, ClaInv, RegisterStep(cla)
    PROVE  ClaInv'
<1> USE DEF ClaInv
<1>1. CASE HandleDiscovery(cla) \/ Accept(cla)
  <2>1. /\ act[cla] = "none"
        /\ act' = [act EXCEPT ![cla] = "register"]
        /\ singleton' = IF singleton = "up" THEN "up" ELSE "fatal"
        /\ UNCHANGED <<pendingStart, senders, pendingRemoval, notifying, removing,
                       disconnected, conn, handlers, sending, receiving, stopped, closing>>
    BY <1>1 DEF HandleDiscovery, Accept, GetManagerSingleton, lists, calls
  <2>2. ManagerTypeOK' BY <2>1 DEF ManagerTypeOK
  <2>3. PendingIsActivating' BY <2>1 DEF ManagerTypeOK, PendingIsActivating
  <2>4. OneEntryPerAddress' BY <2>1 DEF OneEntryPerAddress
  <2>5. RemovalIsUnderWay' BY <2>1 DEF RemovalIsUnderWay
  <2>6. ConnectedIsListed' BY <2>1 DEF ManagerTypeOK, ConnectedIsListed
  <2>7. ConnInv' BY <2>1 DEF ManagerTypeOK, ConnInv
  <2>8. NotifyInv' BY <2>1 DEF ManagerTypeOK, NotifyInv
  <2> QED BY <2>2, <2>3, <2>4, <2>5, <2>6, <2>7, <2>8
<1>2. CASE registerAsync(cla)
  <2>1. /\ act[cla] = "register"
        /\ UNCHANGED <<senders, pendingRemoval, notifying, removing, disconnected,
                       conn, handlers, sending, receiving, stopped, closing, singleton>>
        /\ \/ /\ checkPresent(cla)
              /\ act' = [act EXCEPT ![cla] = "rejected"]
              /\ pendingStart' = pendingStart
           \/ /\ ~checkPresent(cla)
              /\ act' = [act EXCEPT ![cla] = "activate"]
              /\ pendingStart' = pendingStart \cup {cla}
    BY <1>2 DEF registerAsync, calls, manager
  <2>2. ManagerTypeOK' BY <2>1 DEF ManagerTypeOK
  <2>3. PendingIsActivating' BY <2>1 DEF ManagerTypeOK, PendingIsActivating
  <2>4. OneEntryPerAddress'
    BY <2>1 DEF OneEntryPerAddress, checkPresent, SameAddress
  <2>5. RemovalIsUnderWay' BY <2>1 DEF RemovalIsUnderWay
  <2>6. ConnectedIsListed' BY <2>1 DEF ManagerTypeOK, ConnectedIsListed
  <2>7. ConnInv' BY <2>1 DEF ManagerTypeOK, ConnInv
  <2>8. NotifyInv' BY <2>1 DEF ManagerTypeOK, NotifyInv
  <2> QED BY <2>2, <2>3, <2>4, <2>5, <2>6, <2>7, <2>8
<1>3. CASE Activate(cla)
  <2>1. /\ act[cla] = "activate"
        /\ UNCHANGED <<pendingStart, senders, pendingRemoval, notifying, removing,
                       disconnected, sending, receiving, stopped, closing>>
        /\ \/ /\ conn' = [conn EXCEPT ![cla] = "up"]
              /\ handlers' = handlers \cup {cla}
              /\ act' = [act EXCEPT ![cla] = "activated"]
              /\ singleton' = IF singleton = "up" THEN "up" ELSE "fatal"
           \/ /\ act' = [act EXCEPT ![cla] = "failed"]
              /\ UNCHANGED <<conn, handlers, singleton>>
    BY <1>3 DEF Activate, GetManagerSingleton, lists, calls
  <2>2. ManagerTypeOK' BY <2>1 DEF ManagerTypeOK
  <2>3. PendingIsActivating' BY <2>1 DEF ManagerTypeOK, PendingIsActivating
  <2>4. OneEntryPerAddress' BY <2>1 DEF OneEntryPerAddress
  <2>5. RemovalIsUnderWay' BY <2>1 DEF RemovalIsUnderWay
  <2>6. ConnectedIsListed' BY <2>1 DEF ManagerTypeOK, ConnectedIsListed
  <2>7. ConnInv' BY <2>1 DEF ManagerTypeOK, ConnInv
  <2>8. NotifyInv' BY <2>1 DEF ManagerTypeOK, NotifyInv
  <2> QED BY <2>2, <2>3, <2>4, <2>5, <2>6, <2>7, <2>8
<1>4. CASE activateCLA(cla)
  <2>1. /\ act[cla] \in {"activated", "failed"}
        /\ UNCHANGED <<pendingRemoval, notifying, removing, disconnected,
                       conn, handlers, sending, receiving, stopped, closing, singleton>>
        /\ senders' = IF act[cla] = "activated" THEN senders \cup {cla} ELSE senders
        /\ act' = [act EXCEPT ![cla] = IF act[cla] = "activated" THEN "listed" ELSE "rejected"]
    BY <1>4 DEF activateCLA, calls, manager
  <2>2. cla \in pendingStart BY <2>1 DEF PendingIsActivating
  <2>3. pendingStart' = pendingStart \ {cla}
    BY <1>4, <2>2 DEF activateCLA, SameAddress, OneEntryPerAddress
  <2>4. ManagerTypeOK' BY <2>1, <2>3 DEF ManagerTypeOK
  <2>5. PendingIsActivating' BY <2>1, <2>3 DEF ManagerTypeOK, PendingIsActivating
  <2>6. OneEntryPerAddress' BY <2>1, <2>2, <2>3 DEF OneEntryPerAddress
  <2>7. RemovalIsUnderWay' BY <2>1 DEF RemovalIsUnderWay
  <2>8. ConnectedIsListed' BY <2>1 DEF ManagerTypeOK, ConnectedIsListed
  <2>9. act[cla] = "failed" => conn[cla] = "none" BY DEF ConnInv
  <2>10. ConnInv' BY <2>1, <2>9 DEF ManagerTypeOK, ConnInv
  <2>11. cla \in stopped => cla \in senders'
    BY <2>1, <2>9 DEF ManagerTypeOK
  <2>12. NotifyInv' BY <2>1, <2>3, <2>11 DEF NotifyInv
  <2> QED BY <2>4, <2>5, <2>6, <2>7, <2>8, <2>10, <2>12
<1> QED BY <1>1, <1>2, <1>3, <1>4 DEF RegisterStep

\* A new call of NotifyDisconnect for an MTCP client comes with its being stopped
\* for the first time.
LEMMA CloseClientInv ==
    ASSUME NEW cla \in Convergence, NEW caller \in Callers, ClaInv,
           IsMTCP(cla), conn[cla] # "none",
           CloseClient(cla, caller)
    PROVE  /\ stopped' \subseteq {c \in Convergence : IsMTCP(c) /\ conn[c] # "none"}
           /\ stopped \subseteq stopped'
           /\ singleton' \in {"up", "nil", "fatal"}
           /\ singleton' = "up" <=> singleton = "up"
           /\ notifying' \subseteq Convergence \X Callers
           /\ UNCHANGED <<pendingStart, senders, removing>> => NotifyInv'
<1> USE DEF ClaInv
<1>1. CASE cla \in stopped
  BY <1>1 DEF CloseClient, ManagerTypeOK, NotifyInv
<1>2. CASE cla \notin stopped
  <2>1. /\ stopped' = stopped \cup {cla}
        /\ notifying' = IF singleton = "up" THEN notifying \cup {<<cla, caller>>} ELSE notifying
        /\ singleton' = IF singleton = "up" THEN "up" ELSE "fatal"
    BY <1>2 DEF CloseClient, CallNotify, GetManagerSingleton
  <2>2. \A r \in notifying \cup removing : r[1] # cla
    BY <1>2 DEF NotifyInv
  <2>3. singleton = "up" => cla \in pendingStart \cup senders
    <3>1. act[cla] \in {"activated", "listed"} BY DEF ConnInv
    <3>2. act[cla] = "activated" => cla \in pendingStart BY DEF PendingIsActivating
    <3> QED BY <1>2, <3>1, <3>2 DEF ConnectedIsListed
  <2>4. ASSUME UNCHANGED <<pendingStart, senders, removing>> PROVE NotifyInv'
    <3>1. SUFFICES ASSUME NEW r \in notifying' \cup removing', IsMTCP(r[1])
                   PROVE  /\ r[1] \in stopped'
                          /\ singleton' = "up" => r[1] \in pendingStart \cup senders
                          /\ \A s \in notifying' \cup removing' : s[1] = r[1] => s = r
                          /\ r \notin notifying' \cap removing'
      BY <2>4 DEF NotifyInv
    <3>2. CASE r \in notifying \cup removing
      BY <2>1, <2>2, <2>4, <3>1, <3>2 DEF NotifyInv
    <3>3. CASE r = <<cla, caller>>
      BY <2>1, <2>2, <2>3, <2>4, <3>1, <3>3 DEF ManagerTypeOK
    <3> QED BY <2>1, <2>4, <3>2, <3>3
  <2> QED BY <2>1, <2>4 DEF ManagerTypeOK
<1> QED BY <1>1, <1>2

\* One for a QUICL endpoint does not concern NotifyInv.
LEMMA CallNotifyInv ==
    ASSUME NEW cla \in Convergence, NEW caller \in Callers, ClaInv,
           IsQUICL(cla), CallNotify(cla, caller),
           UNCHANGED <<pendingStart, senders, stopped, removing>>
    PROVE  /\ singleton' \in {"up", "nil", "fatal"}
           /\ singleton' = "up" <=> singleton = "up"
           /\ notifying' \subseteq Convergence \X Callers
           /\ NotifyInv'
<1> USE DEF ClaInv
<1>1. ~IsMTCP(cla) BY AddressAssumption DEF IsMTCP, IsQUICL
<1>2. /\ notifying' = IF singleton = "up" THEN notifying \cup {<<cla, caller>>} ELSE notifying
      /\ singleton' = IF singleton = "up" THEN "up" ELSE "fatal"
  BY DEF CallNotify, GetManagerSingleton
<1>3. \A r \in notifying' : r \in notifying \/ r = <<cla, caller>> BY <1>2
<1>4. NotifyInv'
  <2>1. SUFFICES ASSUME NEW r \in notifying' \cup removing', IsMTCP(r[1])
                 PROVE  /\ r[1] \in stopped
                        /\ singleton' = "up" => r[1] \in pendingStart \cup senders
                        /\ \A s \in notifying' \cup removing' : s[1] = r[1] => s = r
                        /\ r \notin notifying' \cap removing'
    BY DEF NotifyInv
  <2>2. r[1] # cla BY <1>1, <2>1
  <2>3. r \in notifying \cup removing BY <1>3, <2>1, <2>2
  <2> QED BY <1>2, <1>3, <2>1, <2>2, <2>3 DEF NotifyInv
<1> QED BY <1>2, <1>4 DEF ManagerTypeOK

\* What a step on the connections or of the shutdown leaves alone is kept, whatever
\* it does to the connection and to the goroutines that watch it or send with it.
LEMMA AdapterStepInv ==
    ASSUME ClaInv, ManagerTypeOK', NotifyInv',
           UNCHANGED <<pendingStart, senders, pendingRemoval, act, removing>>,
           stopped \subseteq stopped', singleton' = "up" => singleton = "up",
           \A cla \in Convergence : conn'[cla] = "none" <=> conn[cla] = "none"
    PROVE  ClaInv'
<1>1. PendingIsActivating' BY DEF ClaInv, PendingIsActivating
<1>2. OneEntryPerAddress' BY DEF ClaInv, OneEntryPerAddress
<1>3. RemovalIsUnderWay' BY DEF ClaInv, RemovalIsUnderWay
<1>4. ConnectedIsListed' BY DEF ClaInv, ConnectedIsListed
<1>5. ConnInv' BY DEF ClaInv, ConnInv
<1> QED BY <1>1, <1>2, <1>3, <1>4, <1>5 DEF ClaInv

\* The connections' own steps keep the invariant.
LEMMA ConnectionStepInv ==
    ASSUME NEW cla \in Convergence, ClaInv, ConnectionStep(cla)
    PROVE  ClaInv'
<1> USE DEF ClaInv
<1>1. ASSUME NEW how \in {"timeout", "remote", "error"}, Lose(cla, how)
      PROVE  ClaInv'
  <2>1. ManagerTypeOK' BY <1>1 DEF ManagerTypeOK, Lose, lists, calls, manager
  <2>2. NotifyInv' BY <1>1 DEF NotifyInv, Lose, lists, calls, manager
  <2>3. \A c \in Convergence : conn'[c] = "none" <=> conn[c] = "none"
    BY <1>1 DEF ManagerTypeOK, Lose
  <2> QED BY <1>1, <2>1, <2>2, <2>3, AdapterStepInv DEF Lose, lists, calls, manager
<1>2. CASE KeepaliveFails(cla)
  <2>1. /\ IsMTCP(cla) /\ conn[cla] # "none" /\ CloseClient(cla, "handler")
        /\ UNCHANGED <<pendingStart, senders, act, conn, handlers, sending, receiving,
                       pendingRemoval, removing, disconnected, closing>>
    BY <1>2 DEF KeepaliveFails, lists, ManagerTypeOK
  <2>2. /\ stopped' \subseteq {c \in Convergence : IsMTCP(c) /\ conn[c] # "none"}
        /\ stopped \subseteq stopped'
        /\ singleton' \in {"up", "nil", "fatal"}
        /\ singleton' = "up" <=> singleton = "up"
        /\ notifying' \subseteq Convergence \X Callers
        /\ NotifyInv'
    BY <2>1, CloseClientInv DEF Callers
  <2>3. ManagerTypeOK' BY <2>1, <2>2 DEF ManagerTypeOK
  <2> QED BY <2>1, <2>2, <2>3, AdapterStepInv
<1>3. CASE HandlerStops(cla)
  <2>1. ManagerTypeOK' BY <1>3 DEF ManagerTypeOK, HandlerStops, lists, calls, manager
  <2>2. NotifyInv' BY <1>3 DEF NotifyInv, HandlerStops, lists, calls, manager
  <2>3. \A c \in Convergence : conn'[c] = "none" <=> conn[c] = "none"
    BY <1>3 DEF ManagerTypeOK, HandlerStops
  <2> QED BY <1>3, <2>1, <2>2, <2>3, AdapterStepInv DEF HandlerStops, lists, calls, manager
<1>4. CASE handleConnection(cla)
  <2>1. /\ IsQUICL(cla)
        /\ handlers' = handlers \ {cla}
        /\ UNCHANGED <<pendingStart, senders, act, conn, sending, receiving, stopped,
                       pendingRemoval, removing, disconnected, closing>>
        /\ UNCHANGED <<notifying, singleton>> \/ CallNotify(cla, "handler")
    BY <1>4 DEF handleConnection, lists
  <2>2. /\ singleton' \in {"up", "nil", "fatal"}
        /\ singleton' = "up" <=> singleton = "up"
        /\ notifying' \subseteq Convergence \X Callers
        /\ NotifyInv'
    <3>1. CASE UNCHANGED <<notifying, singleton>> BY <2>1, <3>1 DEF ManagerTypeOK, NotifyInv
    <3>2. CASE CallNotify(cla, "handler") BY <2>1, <3>2, CallNotifyInv DEF Callers
    <3> QED BY <2>1, <3>1, <3>2
  <2>3. ManagerTypeOK' BY <2>1, <2>2 DEF ManagerTypeOK
  <2> QED BY <2>1, <2>2, <2>3, AdapterStepInv
<1>5. CASE SendStart(cla) \/ AcceptStream(cla)
  <2>1. /\ UNCHANGED <<pendingStart, senders, pendingRemoval, notifying, removing, disconnected,
                       act, conn, handlers, stopped, closing, singleton>>
        /\ \/ sending' = sending \cup {cla} /\ cla \in senders
           \/ sending' = sending
        /\ \/ receiving' = receiving \cup {cla} /\ IsQUICL(cla) /\ conn[cla] # "none"
           \/ receiving' = receiving
    BY <1>5 DEF SendStart, AcceptStream, lists, calls, manager
  <2>2. ManagerTypeOK' BY <2>1 DEF ManagerTypeOK, ConnInv
  <2>3. NotifyInv' BY <2>1 DEF NotifyInv
  <2> QED BY <2>1, <2>2, <2>3, AdapterStepInv
<1>6. CASE SendEnd(cla)
  <2>1. /\ sending' = sending \ {cla}
        /\ UNCHANGED <<pendingStart, senders, act, conn, handlers, receiving,
                       pendingRemoval, removing, disconnected, closing>>
    BY <1>6 DEF SendEnd, lists
  <2>2. act[cla] = "listed" /\ conn[cla] # "none"
    BY <1>6 DEF SendEnd, ManagerTypeOK, ConnInv
  <2>3. /\ stopped' \subseteq {c \in Convergence : IsMTCP(c) /\ conn[c] # "none"}
        /\ stopped \subseteq stopped'
        /\ singleton' \in {"up", "nil", "fatal"}
        /\ singleton' = "up" <=> singleton = "up"
        /\ notifying' \subseteq Convergence \X Callers
        /\ NotifyInv'
    <3>1. CASE UNCHANGED <<stopped, notifying, singleton>>
      BY <2>1, <3>1 DEF ManagerTypeOK, NotifyInv
    <3>2. CASE IsMTCP(cla) /\ CloseClient(cla, "send")
      BY <2>1, <2>2, <3>2, CloseClientInv DEF Callers
    <3>3. CASE IsQUICL(cla) /\ CallNotify(cla, "send") /\ UNCHANGED stopped
      BY <2>1, <3>3, CallNotifyInv DEF Callers, ManagerTypeOK
    <3> QED BY <1>6, <3>1, <3>2, <3>3 DEF SendEnd
  <2>4. ManagerTypeOK' BY <2>1, <2>3 DEF ManagerTypeOK
  <2> QED BY <2>1, <2>3, <2>4, AdapterStepInv
<1>7. CASE handleStream(cla)
  <2>1. /\ IsQUICL(cla)
        /\ receiving' = receiving \ {cla}
        /\ UNCHANGED <<pendingStart, senders, act, conn, handlers, sending, stopped,
                       pendingRemoval, removing, disconnected, closing>>
        /\ UNCHANGED <<notifying, singleton>> \/ CallNotify(cla, "receive")
    BY <1>7 DEF handleStream, lists, ManagerTypeOK
  <2>2. /\ singleton' \in {"up", "nil", "fatal"}
        /\ singleton' = "up" <=> singleton = "up"
        /\ notifying' \subseteq Convergence \X Callers
        /\ NotifyInv'
    <3>1. CASE UNCHANGED <<notifying, singleton>> BY <2>1, <3>1 DEF ManagerTypeOK, NotifyInv
    <3>2. CASE CallNotify(cla, "receive") BY <2>1, <3>2, CallNotifyInv DEF Callers
    <3> QED BY <2>1, <3>1, <3>2
  <2>3. ManagerTypeOK' BY <2>1, <2>2 DEF ManagerTypeOK
  <2> QED BY <2>1, <2>2, <2>3, AdapterStepInv
<1> QED BY <1>1, <1>2, <1>3, <1>4, <1>5, <1>6, <1>7 DEF ConnectionStep

\* Both parts of NotifyDisconnect keep the invariant.  What RemoveCLA takes off the
\* list is, for MTCP, the client it was called for: that one still has the address.
LEMMA DisconnectStepInv ==
    ASSUME NEW cla \in Convergence, ClaInv, DisconnectStep(cla)
    PROVE  ClaInv'
<1> USE DEF ClaInv
<1>1. ASSUME NEW caller \in Callers, NotifyDisconnect(cla, caller)
      PROVE  ClaInv'
  <2> DEFINE call == <<cla, caller>>
  <2>1. /\ call \in notifying
        /\ notifying' = notifying \ {call}
        /\ UNCHANGED <<pendingStart, senders, act, conn, handlers, sending, receiving, stopped,
                       disconnected, closing, singleton>>
        /\ \/ UNCHANGED <<pendingRemoval, removing>>
           \/ /\ cla[1] \notin pendingRemoval
              /\ pendingRemoval' = pendingRemoval \cup {cla[1]}
              /\ removing' = removing \cup {call}
    BY <1>1 DEF NotifyDisconnect, lists, adapter, manager
  <2>2. cla[1] \in Addresses BY DEF Convergence
  <2>3. call[1] = cla OBVIOUS
  <2> HIDE DEF call
  <2>4. ManagerTypeOK' BY <2>1, <2>2 DEF ManagerTypeOK
  <2>5. PendingIsActivating' BY <2>1 DEF PendingIsActivating
  <2>6. OneEntryPerAddress' BY <2>1 DEF OneEntryPerAddress
  <2>7. RemovalIsUnderWay' BY <2>1, <2>3 DEF RemovalIsUnderWay
  <2>8. ConnectedIsListed' BY <2>1 DEF ConnectedIsListed
  <2>9. ConnInv' BY <2>1 DEF ConnInv
  <2>10. NotifyInv' BY <2>1 DEF NotifyInv
  <2> QED BY <2>4, <2>5, <2>6, <2>7, <2>8, <2>9, <2>10
<1>2. ASSUME NEW caller \in Callers, RemoveCLA(cla, caller)
      PROVE  ClaInv'
  <2> DEFINE call == <<cla, caller>>
  <2>1. /\ call \in removing
        /\ removing' = removing \ {call}
        /\ senders' = {other \in senders : other[1] # cla[1]}
        /\ pendingRemoval' = pendingRemoval \ {cla[1]}
        /\ disconnected' = disconnected \cup {cla}
        /\ UNCHANGED <<pendingStart, act, conn, handlers, sending, receiving, stopped,
                       notifying, closing, singleton>>
    BY <1>2 DEF RemoveCLA, SameAddress, adapter, manager
  <2>2. call[1] = cla OBVIOUS
  <2> HIDE DEF call
  <2>3. ASSUME NEW other \in senders, other[1] = cla[1], IsMTCP(other), singleton = "up"
        PROVE  other = cla
    <3>1. IsMTCP(call[1]) BY <2>2, <2>3 DEF IsMTCP
    <3>2. cla \in pendingStart \cup senders BY <2>1, <2>2, <2>3, <3>1 DEF NotifyInv
    <3> QED BY <2>3, <3>2 DEF OneEntryPerAddress
  <2>4. IsMTCP(cla) => cla \in stopped BY <2>1, <2>2 DEF NotifyInv
  <2>5. ManagerTypeOK' BY <2>1 DEF ManagerTypeOK
  <2>6. PendingIsActivating' BY <2>1 DEF PendingIsActivating
  <2>7. OneEntryPerAddress' BY <2>1 DEF OneEntryPerAddress
  <2>8. RemovalIsUnderWay' BY <2>1, <2>2 DEF RemovalIsUnderWay
  <2>9. ConnectedIsListed' BY <2>1, <2>3, <2>4 DEF ConnectedIsListed
  <2>10. ConnInv' BY <2>1 DEF ConnInv
  <2>11. NotifyInv'
    <3>1. SUFFICES ASSUME NEW r \in notifying \cup removing', IsMTCP(r[1])
                   PROVE  /\ r[1] \in stopped
                          /\ singleton = "up" => r[1] \in pendingStart \cup senders'
                          /\ \A s \in notifying \cup removing' : s[1] = r[1] => s = r
                          /\ r \notin notifying \cap removing'
      BY <2>1 DEF NotifyInv
    <3>2. r # call BY <2>1, <2>2, <3>1 DEF NotifyInv
    <3>3. r[1] # cla BY <2>1, <2>2, <3>1, <3>2 DEF NotifyInv
    <3>4. singleton = "up" => r[1] \in pendingStart \cup senders'
      BY <2>1, <2>3, <3>1, <3>3 DEF NotifyInv
    <3> QED BY <2>1, <3>1, <3>4 DEF NotifyInv
  <2> QED BY <2>5, <2>6, <2>7, <2>8, <2>9, <2>10, <2>11
<1> QED BY <1>1, <1>2 DEF DisconnectStep

\* The shutdown keeps the invariant: once the singleton is gone, what it says of
\* clients in use is void, and the lists only shrink.
LEMMA ShutdownStepInv == ClaInv /\ ShutdownStep => ClaInv'
<1> SUFFICES ASSUME ClaInv, ShutdownStep PROVE ClaInv'
  OBVIOUS
<1> USE DEF ClaInv
<1>1. CASE Shutdown
  <2>1. /\ singleton' = "nil" /\ singleton = "up"
        /\ UNCHANGED <<pendingStart, senders, pendingRemoval, notifying, removing, disconnected,
                       act, conn, handlers, sending, receiving, stopped, closing>>
    BY <1>1 DEF Shutdown, lists, calls, adapter
  <2>2. ManagerTypeOK' BY <2>1 DEF ManagerTypeOK
  <2>3. NotifyInv' BY <2>1 DEF NotifyInv
  <2> QED BY <2>1, <2>2, <2>3, AdapterStepInv
<1>2. CASE ShutdownLists
  <2>1. /\ singleton = "nil" /\ senders' = {} /\ closing' = closing \cup senders
        /\ UNCHANGED <<pendingStart, pendingRemoval, notifying, removing, disconnected,
                       act, conn, handlers, sending, receiving, stopped, singleton>>
    BY <1>2 DEF ShutdownLists, calls, adapter
  <2>2. ManagerTypeOK' BY <2>1 DEF ManagerTypeOK, ConnInv
  <2>3. PendingIsActivating' BY <2>1 DEF PendingIsActivating
  <2>4. OneEntryPerAddress' BY <2>1 DEF OneEntryPerAddress
  <2>5. RemovalIsUnderWay' BY <2>1 DEF RemovalIsUnderWay
  <2>6. ConnectedIsListed' BY <2>1 DEF ConnectedIsListed
  <2>7. ConnInv' BY <2>1 DEF ConnInv
  <2>8. NotifyInv' BY <2>1 DEF NotifyInv
  <2> QED BY <2>2, <2>3, <2>4, <2>5, <2>6, <2>7, <2>8
<1>3. ASSUME NEW cla \in Convergence, Close(cla) PROVE ClaInv'
  <2>1. /\ closing' = closing \ {cla}
        /\ UNCHANGED <<pendingStart, senders, pendingRemoval, removing, disconnected,
                       act, handlers, sending, receiving>>
    BY <1>3 DEF Close, lists
  <2>2. act[cla] = "listed" /\ conn[cla] # "none"
    BY <1>3 DEF Close, ManagerTypeOK, ConnInv
  <2>3. CASE IsMTCP(cla)
    <3>1. CloseClient(cla, "send") /\ UNCHANGED conn BY <1>3, <2>3 DEF Close
    <3>2. /\ stopped' \subseteq {c \in Convergence : IsMTCP(c) /\ conn[c] # "none"}
          /\ stopped \subseteq stopped'
          /\ singleton' \in {"up", "nil", "fatal"}
          /\ singleton' = "up" <=> singleton = "up"
          /\ notifying' \subseteq Convergence \X Callers
          /\ NotifyInv'
      BY <2>1, <2>2, <2>3, <3>1, CloseClientInv DEF Callers
    <3>3. ManagerTypeOK' BY <2>1, <3>1, <3>2 DEF ManagerTypeOK
    <3> QED BY <2>1, <3>1, <3>2, <3>3, AdapterStepInv
  <2>4. CASE ~IsMTCP(cla)
    <3>1. /\ conn' = [conn EXCEPT ![cla] = IF @ = "up" THEN "closed" ELSE @]
          /\ UNCHANGED <<stopped, notifying, singleton>>
      BY <1>3, <2>4 DEF Close
    <3>2. \A c \in Convergence : conn'[c] = "none" <=> conn[c] = "none"
      BY <3>1 DEF ManagerTypeOK
    <3>3. ManagerTypeOK' BY <2>1, <3>1, <3>2 DEF ManagerTypeOK
    <3>4. NotifyInv' BY <2>1, <3>1 DEF NotifyInv
    <3> QED BY <2>1, <3>1, <3>2, <3>3, <3>4, AdapterStepInv
  <2> QED BY <2>3, <2>4
<1> QED BY <1>1, <1>2, <1>3 DEF ShutdownStep

\* ClaInv is inductive.
THEOREM ClaInvariant == ManagerSpec => []ClaInv
<1>1. ClaInv /\ [ManagerNext]_vars => ClaInv'
  <2>1. SUFFICES ASSUME ClaInv, [ManagerNext]_vars PROVE ClaInv'
    OBVIOUS
  <2>2. CASE UNCHANGED vars
    <3>1. UNCHANGED <<pendingStart, senders, pendingRemoval, notifying, removing, disconnected,
                      act, conn, handlers, sending, receiving, stopped, closing, singleton>>
      BY <2>2 DEF vars, lists, calls, adapter, manager
    <3>2. ManagerTypeOK' BY <2>1, <3>1 DEF ClaInv, ManagerTypeOK
    <3>3. NotifyInv' BY <2>1, <3>1 DEF ClaInv, NotifyInv
    <3> QED BY <2>1, <3>1, <3>2, <3>3, AdapterStepInv
  <2>3. CASE ManagerNext
    BY <2>1, <2>3, RegisterStepInv, ConnectionStepInv, DisconnectStepInv, ShutdownStepInv
    DEF ManagerNext
  <2> QED BY <2>1, <2>2, <2>3
<1> QED BY <1>1, ClaInitInv, PTL DEF ManagerSpec

\* Every variable of the CLA manager and of the connections has its type; only
\* CLAs in use are sent with, only MTCP clients that were connected are stopped.
THEOREM ClaTypeCorrect == ManagerSpec => []ManagerTypeOK
<1>1. ClaInv => ManagerTypeOK BY DEF ClaInv
<1> QED BY <1>1, ClaInvariant, PTL

\* An address is blocked by pendingStart exactly while its activateCLA runs.
THEOREM PendingIsTransient == ManagerSpec => []PendingIsActivating
<1>1. ClaInv => PendingIsActivating BY DEF ClaInv
<1> QED BY <1>1, ClaInvariant, PTL

\* However many goroutines register CLAs with one address, and whatever they saw
\* when they checked, the manager holds at most one of them.
THEOREM AddressesAreUnique == ManagerSpec => []OneEntryPerAddress
<1>1. ClaInv => OneEntryPerAddress BY DEF ClaInv
<1> QED BY <1>1, ClaInvariant, PTL

\* A NotifyDisconnect is turned away only while another one is removing the
\* same address.
THEOREM RemovalIsExclusive == ManagerSpec => []RemovalIsUnderWay
<1>1. ClaInv => RemovalIsUnderWay BY DEF ClaInv
<1> QED BY <1>1, ClaInvariant, PTL

\* An MTCP client that nobody has closed is never taken out of use by a
\* NotifyDisconnect that was meant for an earlier client with its address.
THEOREM OpenClientsStayListed == ManagerSpec => []ConnectedIsListed
<1>1. ClaInv => ConnectedIsListed BY DEF ClaInv
<1> QED BY <1>1, ClaInvariant, PTL

(***************************************************************************)
(* A mailbox, for every set of bundles, clients and calls                  *)
(***************************************************************************)

InBox(m) == {b \in BundleIDs : m[b] # "absent"}

Quiet == {Idle, Waiting}

\* What holds of a client's call f with messages m, of which d were delivered.  A
\* GetAll that removes has yet to visit whatever it has not loaded.
CallOK(f, m, d) ==
    /\ f \in FetchState
    /\ f.method \in Methods => <<f.method, f.remove>> \in Calls
    /\ f.method \in {"none", "wait"} => f \in Quiet
    /\ f.method = "GC" => f.remove /\ f.loading = {}
    /\ f.todo \cup f.loading \subseteq InBox(m)
    /\ \A x, y \in f.loading : x = y
    /\ f.got \subseteq d
    /\ f.method = "GetAll" /\ f.remove => InBox(m) \subseteq f.todo \cup f.loading \cup f.got

\* A call that removes is alone.
Exclusive == \A c, d \in Clients : c # d /\ fetch[c].remove => fetch[d] \in Quiet

MailInv ==
    /\ TypeOK
    /\ InBox(messages) \subseteq delivered
    /\ \A c \in Clients : CallOK(fetch[c], messages, delivered)
    /\ Exclusive

-----------------------------------------------------------------------------
LEMMA QuietOK ==
    ASSUME NEW f \in Quiet, NEW m, NEW d PROVE CallOK(f, m, d)
<1>1. Idle \in FetchState
  BY DEF Idle, FetchState
<1>2. Idle \in FetchState /\ Waiting \in FetchState
  BY <1>1 DEF Waiting, FetchState
<1>3. f.method \in {"none", "wait"} /\ f.remove = FALSE /\ f.todo = {} /\ f.loading = {} /\ f.got = {}
  BY DEF Quiet, Idle, Waiting
<1>4. f.method \notin Methods /\ f.method # "GC" /\ f.method # "GetAll"
  BY <1>3 DEF Methods
<1>5. f \in FetchState
  BY <1>2 DEF Quiet
<1> QED BY <1>3, <1>4, <1>5 DEF CallOK

LEMMA SameBoxOK ==
    ASSUME NEW f, NEW m, NEW d, NEW n, NEW e,
           CallOK(f, m, d), InBox(n) = InBox(m), d \subseteq e
    PROVE  CallOK(f, n, e)
BY DEF CallOK

LEMMA MailInitInv == Init => MailInv
<1> SUFFICES ASSUME Init PROVE MailInv OBVIOUS
<1>1. Idle \in FetchState /\ Idle \in Quiet
  BY DEF Idle, FetchState, Quiet
<1>2. status \in [BundleIDs -> Status] /\ messages \in [BundleIDs -> {"absent", "new", "retrieved"}]
      /\ fetch \in [Clients -> FetchState] /\ InBox(messages) = {}
  BY <1>1 DEF Init, StoreInit, Status, Held, InBox
<1>3. \A c \in Clients : fetch[c] \in Quiet
  BY <1>1 DEF Init
<1>4. \A c \in Clients : CallOK(fetch[c], messages, delivered)
  BY <1>3, QuietOK
<1> QED BY <1>2, <1>3, <1>4 DEF MailInv, TypeOK, Exclusive, Init

\* Steps that leave the mailbox alone.
LEMMA UnchangedInv ==
    ASSUME MailInv, UNCHANGED mailboxVars, status' \in [BundleIDs -> Status]
    PROVE  MailInv'
BY DEF MailInv, mailboxVars, history, TypeOK, Exclusive

LEMMA StoreStepInv ==
    ASSUME MailInv, NEW b \in BundleIDs, StoreStep(b) PROVE MailInv'
<1>1. status \in [BundleIDs -> Status]
  BY DEF MailInv, TypeOK
<1>2. status' \in [BundleIDs -> Status]
  BY <1>1 DEF StoreStep, StoreInsert, StoreDelete, StoreForget, Status, Held
<1> QED BY <1>2, UnchangedInv DEF StoreStep

\* Steps while nobody is in a call but the changes of messages.
LEMMA LockedInv ==
    ASSUME MailInv, CanLock, UNCHANGED <<status, fetch>>,
           messages' \in [BundleIDs -> {"absent", "new", "retrieved"}],
           delivered' \subseteq BundleIDs, delivered \subseteq delivered',
           InBox(messages') \subseteq delivered',
           handed' = handed, dropped' \subseteq delivered'
    PROVE  MailInv'
<1>1. \A c \in Clients : fetch'[c] = fetch[c] /\ fetch[c] \in Quiet
  BY DEF CanLock, Quiet
<1>2. \A c \in Clients : CallOK(fetch'[c], messages', delivered')
  BY <1>1, QuietOK
<1>3. TypeOK'
  BY DEF MailInv, TypeOK
<1> QED BY <1>1, <1>2, <1>3 DEF MailInv, Exclusive

LEMMA DeliverInv ==
    ASSUME MailInv, NEW b \in BundleIDs, Deliver(b) PROVE MailInv'
<1>1. messages' = [messages EXCEPT ![b] = "new"] /\ delivered' = delivered \cup {b}
      /\ UNCHANGED <<status, fetch, handed, dropped>> /\ CanLock
  BY DEF Deliver
<1>2. messages \in [BundleIDs -> {"absent", "new", "retrieved"}] /\ delivered \subseteq BundleIDs
      /\ dropped \subseteq delivered /\ InBox(messages) \subseteq delivered
  BY DEF MailInv, TypeOK
<1>3. messages' \in [BundleIDs -> {"absent", "new", "retrieved"}]
  BY <1>1, <1>2
<1>4. InBox(messages') \subseteq InBox(messages) \cup {b}
  BY <1>1, <1>2 DEF InBox
<1> QED BY <1>1, <1>2, <1>3, <1>4, LockedInv

LEMMA RemoveInv ==
    ASSUME MailInv, NEW ids \in SUBSET BundleIDs, RemoveBundles(ids) PROVE MailInv'
<1>1. messages' = [b \in BundleIDs |-> IF b \in ids THEN "absent" ELSE messages[b]]
      /\ dropped' = dropped \cup (ids \cap Stored)
      /\ UNCHANGED <<status, fetch, delivered, handed>> /\ CanLock
  BY DEF RemoveBundles
<1>2. messages \in [BundleIDs -> {"absent", "new", "retrieved"}] /\ delivered \subseteq BundleIDs
      /\ dropped \subseteq delivered /\ InBox(messages) \subseteq delivered /\ Stored = InBox(messages)
  BY DEF MailInv, TypeOK, Stored, InBox
<1>3. messages' \in [BundleIDs -> {"absent", "new", "retrieved"}]
  BY <1>1, <1>2
<1>4. InBox(messages') \subseteq InBox(messages)
  BY <1>1, <1>2 DEF InBox
<1> QED BY <1>1, <1>2, <1>3, <1>4, LockedInv

\* A step of one client's call.  If messages go away, the call has the lock.
LEMMA CallStepInv ==
    ASSUME MailInv, NEW c \in Clients, NEW f,
           fetch' = [fetch EXCEPT ![c] = f], status' = status, delivered' = delivered,
           handed' \subseteq delivered, dropped' \subseteq delivered,
           messages' \in [BundleIDs -> {"absent", "new", "retrieved"}],
           CallOK(f, messages', delivered),
           \/ InBox(messages') = InBox(messages)
           \/ fetch[c].remove /\ InBox(messages') \subseteq InBox(messages),
           f.remove => \A d \in Clients \ {c} : fetch[d] \in Quiet,
           f \in Quiet \/ \A d \in Clients \ {c} : ~fetch[d].remove
    PROVE  MailInv'
<1>1. /\ status \in [BundleIDs -> Status] /\ fetch \in [Clients -> FetchState]
      /\ delivered \subseteq BundleIDs /\ InBox(messages) \subseteq delivered
      /\ \A d \in Clients : CallOK(fetch[d], messages, delivered)
      /\ Exclusive
  BY DEF MailInv, TypeOK
<1>2. f \in FetchState
  BY DEF CallOK
<1>3. fetch'[c] = f /\ \A d \in Clients \ {c} : fetch'[d] = fetch[d]
  BY <1>1
<1>4. TypeOK'
  BY <1>1, <1>2 DEF TypeOK
<1>5. InBox(messages') \subseteq delivered'
  BY <1>1
<1>6. ASSUME NEW d \in Clients PROVE CallOK(fetch'[d], messages', delivered')
  <2>1. CASE d = c
    BY <2>1, <1>3
  <2>2. CASE d # c /\ InBox(messages') = InBox(messages)
    BY <2>2, <1>1, <1>3, SameBoxOK
  <2>3. CASE d # c /\ fetch[c].remove
    BY <2>3, <1>1, <1>3, QuietOK DEF Exclusive
  <2> QED BY <2>1, <2>2, <2>3
<1>7. Exclusive'
  <2> SUFFICES ASSUME NEW a \in Clients, NEW d \in Clients, a # d, fetch'[a].remove
               PROVE  fetch'[d] \in Quiet'
    BY DEF Exclusive
  <2>1. CASE a = c
    BY <2>1, <1>3 DEF Quiet
  <2>2. CASE d = c
    BY <2>2, <1>3 DEF Quiet
  <2>3. CASE a # c /\ d # c
    BY <2>3, <1>1, <1>3 DEF Exclusive, Quiet
  <2> QED BY <2>1, <2>2, <2>3
<1> QED BY <1>4, <1>5, <1>6, <1>7 DEF MailInv

\* A call that is not quiet is alone or shares the lock with others that do not
\* remove.
LEMMA Sharing ==
    ASSUME MailInv, NEW c \in Clients, fetch[c].method \in Methods \cup {"GC"}
    PROVE  /\ fetch[c].remove => \A d \in Clients \ {c} : fetch[d] \in Quiet
           /\ \A d \in Clients \ {c} : ~fetch[d].remove
<1>1. fetch[c] \notin Quiet
  BY DEF Quiet, Idle, Waiting, Methods
<1> QED BY <1>1 DEF MailInv, Exclusive

LEMMA FetchStartInv ==
    ASSUME MailInv, NEW c \in Clients, NEW call \in Calls, NEW ids \in SUBSET BundleIDs,
           FetchStart(c, call[1], call[2], ids)
    PROVE  MailInv'
<1> DEFINE f == [Idle EXCEPT !.method = call[1], !.remove = call[2], !.todo = ids]
<1>1. fetch' = [fetch EXCEPT ![c] = f] /\ UNCHANGED <<status, messages, delivered, handed, dropped>>
  BY DEF FetchStart, history
<1>2. call[1] \in Methods /\ call[2] \in BOOLEAN /\ <<call[1], call[2]>> \in Calls
  BY CallsAssumption
<1>3. f \in FetchState
  <2>1. Idle \in FetchState
    BY DEF Idle, FetchState
  <2> QED BY <1>2, <2>1 DEF FetchState
<1>4. ids \subseteq InBox(messages) /\ (call[1] # "Get" => ids = InBox(messages))
  BY DEF FetchStart, Stored, InBox
<1>5. CallOK(f, messages', delivered)
  <2>1. f.method = call[1] /\ f.remove = call[2] /\ f.todo = ids /\ f.loading = {} /\ f.got = {}
    BY DEF Idle
  <2>2. f.method \notin {"none", "wait", "GC"}
    BY <1>2 DEF Methods
  <2> HIDE DEF f
  <2> QED BY <1>1, <1>2, <1>3, <1>4, <2>1, <2>2 DEF CallOK
<1>6. f.remove = call[2] /\ (IF call[2] THEN CanLock ELSE CanRLock)
  BY DEF FetchStart, Idle
<1>7. f.remove => \A d \in Clients \ {c} : fetch[d] \in Quiet
  BY <1>6 DEF CanLock, Quiet
<1>8. \A d \in Clients \ {c} : ~fetch[d].remove
  BY <1>6, <1>2 DEF CanLock, CanRLock, Idle, Waiting
<1>9. messages' \in [BundleIDs -> {"absent", "new", "retrieved"}] /\ handed' \subseteq delivered /\ dropped' \subseteq delivered
  BY <1>1 DEF MailInv, TypeOK
<1> HIDE DEF f
<1> QED BY <1>1, <1>5, <1>7, <1>8, <1>9, CallStepInv

\* A call, or a garbage collection, that returns.
LEMMA ReturnInv ==
    ASSUME MailInv, NEW c \in Clients, NEW f \in Quiet, fetch' = [fetch EXCEPT ![c] = f],
           status' = status, delivered' = delivered,
           handed' \subseteq delivered, dropped' = dropped,
           messages' \in [BundleIDs -> {"absent", "new", "retrieved"}],
           \/ messages' = messages
           \/ fetch[c].remove /\ InBox(messages') \subseteq InBox(messages)
    PROVE  MailInv'
<1>1. CallOK(f, messages', delivered)
  BY QuietOK
<1>2. ~f.remove
  BY DEF Quiet, Idle, Waiting
<1>3. dropped' \subseteq delivered
  BY DEF MailInv, TypeOK
<1> QED BY <1>1, <1>2, <1>3, CallStepInv

LEMMA FetchLookupInv ==
    ASSUME MailInv, NEW c \in Clients, NEW b \in BundleIDs, FetchLookup(c, b)
    PROVE  MailInv'
<1> DEFINE old == fetch[c]
           rest == [old EXCEPT !.todo = @ \ {b}]
           next == [rest EXCEPT !.loading = {b}]
<1>1. /\ old \in FetchState /\ CallOK(old, messages, delivered)
      /\ messages \in [BundleIDs -> {"absent", "new", "retrieved"}]
      /\ handed \subseteq delivered /\ dropped \subseteq delivered
  BY DEF MailInv, TypeOK
<1>2. /\ old.method \in Methods /\ old.loading = {} /\ b \in old.todo
      /\ UNCHANGED <<status, messages, delivered, dropped>>
  BY DEF FetchLookup
<1>3. \/ old.method = "GetNew" /\ fetch' = [fetch EXCEPT ![c] = rest] /\ handed' = handed
      \/ fetch' = [fetch EXCEPT ![c] = next] /\ handed' = handed
      \/ fetch' = [fetch EXCEPT ![c] = Idle] /\ handed' = handed \cup {}
  BY DEF FetchLookup, Return
<1>4. /\ rest \in FetchState /\ rest.method = old.method /\ rest.remove = old.remove
      /\ rest.todo = old.todo \ {b} /\ rest.loading = {} /\ rest.got = old.got
  BY <1>1, <1>2 DEF FetchState
<1>5. /\ next \in FetchState /\ next.method = old.method /\ next.remove = old.remove
      /\ next.todo = old.todo \ {b} /\ next.loading = {b} /\ next.got = old.got
  BY <1>1, <1>2 DEF FetchState
<1> HIDE DEF rest, next, old
<1>6. old.method \notin {"none", "wait", "GC"}
  BY <1>2 DEF Methods
<1>7. /\ old.remove => \A d \in Clients \ {c} : fetch[d] \in Quiet
      /\ \A d \in Clients \ {c} : ~fetch[d].remove
  BY <1>2, Sharing DEF old
<1>8. CASE old.method = "GetNew" /\ fetch' = [fetch EXCEPT ![c] = rest] /\ handed' = handed
  <2>1. CallOK(rest, messages', delivered)
    BY <1>1, <1>2, <1>4, <1>6, <1>8 DEF CallOK
  <2> QED BY <1>1, <1>2, <1>4, <1>7, <1>8, <2>1, CallStepInv
<1>9. CASE fetch' = [fetch EXCEPT ![c] = next] /\ handed' = handed
  <2>1. CallOK(next, messages', delivered)
    BY <1>1, <1>2, <1>5, <1>6 DEF CallOK
  <2> QED BY <1>1, <1>2, <1>5, <1>7, <1>9, <2>1, CallStepInv
<1>10. CASE fetch' = [fetch EXCEPT ![c] = Idle] /\ handed' = handed \cup {}
  BY <1>1, <1>2, <1>10, ReturnInv DEF Quiet
<1> QED BY <1>3, <1>8, <1>9, <1>10

LEMMA FetchLoadInv ==
    ASSUME MailInv, NEW c \in Clients, NEW b \in BundleIDs, FetchLoad(c, b)
    PROVE  MailInv'
<1> DEFINE old == fetch[c]
           next == [old EXCEPT !.loading = {}, !.got = @ \cup {b}]
<1>1. /\ old \in FetchState /\ CallOK(old, messages, delivered)
      /\ messages \in [BundleIDs -> {"absent", "new", "retrieved"}]
      /\ handed \subseteq delivered /\ dropped \subseteq delivered
      /\ InBox(messages) \subseteq delivered
      /\ fetch \in [Clients -> FetchState]
  BY DEF MailInv, TypeOK
<1>2. b \in old.loading /\ UNCHANGED <<status, delivered, dropped>>
  BY DEF FetchLoad
<1>3. \/ /\ fetch' = [fetch EXCEPT ![c] = next] /\ handed' = handed
         /\ messages' = messages \/ messages' = [messages EXCEPT ![b] = "retrieved"]
      \/ fetch' = [fetch EXCEPT ![c] = Idle] /\ handed' = handed \cup old.got /\ messages' = messages
  BY <1>1 DEF FetchLoad, Return
<1>4. /\ next.method = old.method /\ next.remove = old.remove /\ next.todo = old.todo
      /\ next.loading = {} /\ next.got = old.got \cup {b} /\ next \in FetchState
  BY <1>1 DEF FetchState
<1> HIDE DEF next
<1>5. old.method \in Methods \cup {"GC"}
  <2>1. old.method \in Methods \cup {"wait", "GC", "none"}
    BY <1>1 DEF FetchState
  <2>2. \A f \in Quiet : f.loading = {}
    BY DEF Quiet, Idle, Waiting
  <2> QED BY <1>1, <1>2, <2>1, <2>2 DEF CallOK
<1>6. /\ old.remove => \A d \in Clients \ {c} : fetch[d] \in Quiet
      /\ \A d \in Clients \ {c} : ~fetch[d].remove
  BY <1>5, Sharing
<1>7. b \in InBox(messages) /\ old.got \subseteq delivered
  BY <1>1, <1>2 DEF CallOK
<1> HIDE DEF old
<1>8. CASE /\ fetch' = [fetch EXCEPT ![c] = next] /\ handed' = handed
           /\ messages' = messages \/ messages' = [messages EXCEPT ![b] = "retrieved"]
  <2>1. messages' \in [BundleIDs -> {"absent", "new", "retrieved"}] /\ InBox(messages') = InBox(messages)
    BY <1>1, <1>7, <1>8 DEF InBox
  <2>2. old.loading = {b}
    BY <1>1, <1>2 DEF CallOK
  <2>3. CallOK(next, messages', delivered)
    BY <1>1, <1>2, <1>4, <1>5, <1>7, <2>1, <2>2 DEF CallOK, Methods
  <2> QED BY <1>1, <1>2, <1>4, <1>6, <1>8, <2>1, <2>3, CallStepInv
<1>9. CASE fetch' = [fetch EXCEPT ![c] = Idle] /\ handed' = handed \cup old.got /\ messages' = messages
  <2>1. handed' \subseteq delivered
    BY <1>1, <1>7, <1>9
  <2> QED BY <1>1, <1>2, <1>9, <2>1, ReturnInv DEF Quiet
<1> QED BY <1>3, <1>8, <1>9

LEMMA FetchEndInv ==
    ASSUME MailInv, NEW c \in Clients, FetchEnd(c) PROVE MailInv'
<1>1. /\ messages \in [BundleIDs -> {"absent", "new", "retrieved"}]
      /\ handed \subseteq delivered /\ CallOK(fetch[c], messages, delivered)
  BY DEF MailInv, TypeOK
<1>2. PICK removed : /\ ~fetch[c].remove => removed = {}
                     /\ messages' = [b \in BundleIDs |-> IF b \in removed THEN "absent" ELSE messages[b]]
  BY DEF FetchEnd
<1>3. /\ fetch' = [fetch EXCEPT ![c] = Idle] /\ handed' = handed \cup fetch[c].got
      /\ UNCHANGED <<status, delivered, dropped>>
  BY DEF FetchEnd, Return
<1>4. messages' \in [BundleIDs -> {"absent", "new", "retrieved"}]
  BY <1>1, <1>2
<1>5. InBox(messages') \subseteq InBox(messages)
  BY <1>1, <1>2 DEF InBox
<1>6. ~fetch[c].remove => messages' = messages
  BY <1>1, <1>2
<1>7. handed' \subseteq delivered
  BY <1>1, <1>3 DEF CallOK
<1> QED BY <1>3, <1>4, <1>5, <1>6, <1>7, ReturnInv DEF Quiet

LEMMA GCLockInv ==
    ASSUME MailInv, NEW c \in Clients, GCLock(c) PROVE MailInv'
BY ReturnInv DEF GCLock, Quiet, history, MailInv, TypeOK

LEMMA GCEndInv ==
    ASSUME MailInv, NEW c \in Clients, GCEnd(c) PROVE MailInv'
BY ReturnInv DEF GCEnd, Quiet, history, MailInv, TypeOK

LEMMA GCStartInv ==
    ASSUME MailInv, NEW c \in Clients, GCStart(c) PROVE MailInv'
<1> DEFINE f == [Idle EXCEPT !.method = "GC", !.remove = TRUE, !.todo = Stored]
<1>1. /\ fetch' = [fetch EXCEPT ![c] = f] /\ CanLock
      /\ UNCHANGED <<status, messages, delivered, handed, dropped>>
  BY DEF GCStart, history
<1>2. Stored = InBox(messages) /\ Stored \subseteq BundleIDs
  BY DEF Stored, InBox
<1>3. f \in FetchState
  <2>1. Idle \in FetchState
    BY DEF Idle, FetchState
  <2> QED BY <1>2, <2>1 DEF FetchState
<1>4. f.method = "GC" /\ f.remove /\ f.todo = Stored /\ f.loading = {} /\ f.got = {}
  BY DEF Idle
<1> HIDE DEF f
<1>5. CallOK(f, messages', delivered)
  BY <1>1, <1>2, <1>3, <1>4 DEF CallOK, Methods
<1>6. \A d \in Clients \ {c} : fetch[d] \in Quiet /\ ~fetch[d].remove
  BY <1>1 DEF CanLock, Quiet, Idle, Waiting
<1>7. /\ messages' \in [BundleIDs -> {"absent", "new", "retrieved"}]
      /\ handed' \subseteq delivered /\ dropped' \subseteq delivered
  BY <1>1 DEF MailInv, TypeOK
<1> QED BY <1>1, <1>5, <1>6, <1>7, CallStepInv

LEMMA GCVisitInv ==
    ASSUME MailInv, NEW c \in Clients, NEW b \in BundleIDs, GCVisit(c, b) PROVE MailInv'
<1> DEFINE old == fetch[c]
           next == [old EXCEPT !.todo = @ \ {b}]
<1>1. /\ old \in FetchState /\ CallOK(old, messages, delivered)
      /\ messages \in [BundleIDs -> {"absent", "new", "retrieved"}]
      /\ handed \subseteq delivered /\ dropped \subseteq delivered
      /\ InBox(messages) \subseteq delivered
      /\ fetch \in [Clients -> FetchState]
  BY DEF MailInv, TypeOK
<1>2. /\ old.method = "GC" /\ b \in old.todo
      /\ fetch' = [fetch EXCEPT ![c] = next]
      /\ UNCHANGED <<status, delivered, handed>>
      /\ \/ messages' = messages /\ dropped' = dropped
         \/ messages' = [messages EXCEPT ![b] = "absent"] /\ dropped' = dropped \cup {b}
  BY <1>1 DEF GCVisit
<1>3. /\ next.method = old.method /\ next.remove = old.remove /\ next.todo = old.todo \ {b}
      /\ next.loading = old.loading /\ next.got = old.got /\ next \in FetchState
  BY <1>1 DEF FetchState
<1>4. /\ \A d \in Clients \ {c} : fetch[d] \in Quiet
      /\ \A d \in Clients \ {c} : ~fetch[d].remove
      /\ old.remove
  BY <1>1, <1>2, Sharing DEF CallOK
<1> HIDE DEF next, old
<1>5. /\ messages' \in [BundleIDs -> {"absent", "new", "retrieved"}]
      /\ InBox(messages') \subseteq InBox(messages) /\ InBox(messages) \ {b} \subseteq InBox(messages')
  BY <1>1, <1>2 DEF InBox
<1>6. b \in delivered /\ dropped' \subseteq delivered
  BY <1>1, <1>2 DEF CallOK
<1>7. old.loading = {}
  BY <1>1, <1>2 DEF CallOK
<1>8. CallOK(next, messages', delivered)
  BY <1>1, <1>2, <1>3, <1>4, <1>5, <1>7 DEF CallOK, Methods
<1> QED BY <1>1, <1>2, <1>3, <1>4, <1>5, <1>6, <1>8, CallStepInv DEF old

LEMMA RestartInv == Restart => MailInv'
<1> SUFFICES ASSUME Restart PROVE MailInv' OBVIOUS
<1>1. Idle \in FetchState /\ Idle \in Quiet
  BY DEF Idle, FetchState, Quiet
<1>2. status' \in [BundleIDs -> Status]
      /\ messages' \in [BundleIDs -> {"absent", "new", "retrieved"}]
      /\ fetch' \in [Clients -> FetchState] /\ InBox(messages') = {}
  BY <1>1 DEF Restart, StoreRestart, Status, Held, InBox
<1>3. \A c \in Clients : fetch'[c] \in Quiet
  BY <1>1 DEF Restart
<1>4. \A c \in Clients : CallOK(fetch'[c], messages', delivered')
  BY <1>3, QuietOK
<1> QED BY <1>2, <1>3, <1>4 DEF MailInv, TypeOK, Exclusive, Restart

LEMMA MailNextInv == MailInv /\ [Next]_allVars => MailInv'
<1> SUFFICES ASSUME MailInv, [Next]_allVars PROVE MailInv' OBVIOUS
<1>1. ASSUME NEW b \in BundleIDs, StoreStep(b) \/ Deliver(b) \/ Delete(b) PROVE MailInv'
  BY <1>1, StoreStepInv, DeliverInv, RemoveInv DEF Delete
<1>2. ASSUME NEW c \in Clients, FetchStep(c) PROVE MailInv'
  BY <1>2, FetchStartInv, FetchLookupInv, FetchLoadInv, FetchEndInv DEF FetchStep
<1>3. ASSUME NEW c \in Clients, GCStep(c) PROVE MailInv'
  BY <1>3, GCLockInv, GCStartInv, GCVisitInv, GCEndInv DEF GCStep
<1>4. CASE Clear
  BY <1>4, RemoveInv DEF Clear
<1>5. CASE Restart
  BY <1>5, RestartInv
<1>6. CASE UNCHANGED allVars
  <2>1. status' \in [BundleIDs -> Status] /\ UNCHANGED mailboxVars
    BY <1>6 DEF allVars, MailInv, TypeOK
  <2> QED BY <2>1, UnchangedInv
<1> QED BY <1>1, <1>2, <1>3, <1>4, <1>5, <1>6 DEF Next

LEMMA MailInvariance == Spec => []MailInv
BY MailInitInv, MailNextInv, PTL DEF Spec

-----------------------------------------------------------------------------
\* The types of the mailbox, of the calls in progress and of the histories hold
\* throughout, for every set of calls the agents make.
THEOREM MailboxTypes == Spec => []TypeOK
<1>1. MailInv => TypeOK
  BY DEF MailInv
<1> QED BY <1>1, MailInvariance, PTL

\* No Deliver, Delete, Clear, other fetch or garbage collection removes an ID that
\* a fetch or a garbage collection has still to visit: rwMutex covers every loop
\* over Mailbox.messages.
THEOREM IterationTheorem == Spec => []IterationIsStable
<1>1. MailInv => IterationIsStable
  BY DEF MailInv, CallOK, IterationIsStable, InBox, Stored
<1> QED BY <1>1, MailInvariance, PTL

LEMMA LosslessStep ==
    ASSUME <<"GetNew", TRUE>> \notin Calls, MailInv, NothingIsLost, [Next]_allVars
    PROVE  NothingIsLost'
<1> SUFFICES ASSUME NEW x \in delivered', x \notin handed', x \notin dropped'
             PROVE  x \in Stored'
  BY DEF NothingIsLost
<1>1. /\ messages \in [BundleIDs -> {"absent", "new", "retrieved"}]
      /\ delivered \subseteq BundleIDs /\ Stored \subseteq delivered
      /\ Stored = InBox(messages)
  BY DEF MailInv, TypeOK, Stored, InBox
<1>2. CASE /\ delivered' = delivered /\ messages' = messages
           /\ handed \subseteq handed' /\ dropped \subseteq dropped'
  BY <1>2 DEF NothingIsLost, Stored
<1>3. ASSUME NEW b \in BundleIDs, StoreStep(b) PROVE x \in Stored'
  BY <1>2, <1>3 DEF StoreStep, mailboxVars, history
<1>4. ASSUME NEW b \in BundleIDs, Deliver(b) PROVE x \in Stored'
  BY <1>1, <1>4 DEF Deliver, NothingIsLost, Stored
<1>5. ASSUME NEW ids \in SUBSET BundleIDs, RemoveBundles(ids) PROVE x \in Stored'
  <2>1. x \in Stored
    BY <1>5 DEF RemoveBundles, NothingIsLost
  <2>2. x \notin ids
    BY <1>5, <2>1 DEF RemoveBundles
  <2> QED BY <1>5, <2>1, <2>2 DEF RemoveBundles, Stored
<1>6. ASSUME NEW c \in Clients, FetchStep(c) PROVE x \in Stored'
  <2>1. ASSUME NEW call \in Calls, NEW ids \in SUBSET BundleIDs, FetchStart(c, call[1], call[2], ids)
        PROVE  x \in Stored'
    BY <1>2, <2>1 DEF FetchStart, history
  <2>2. ASSUME NEW b \in BundleIDs, FetchLookup(c, b) PROVE x \in Stored'
    <3>1. handed \subseteq handed'
      BY <2>2 DEF FetchLookup, Return
    <3> QED BY <1>2, <2>2, <3>1 DEF FetchLookup
  <2>3. ASSUME NEW b \in BundleIDs, FetchLoad(c, b) PROVE x \in Stored'
    <3>1. handed \subseteq handed' /\ UNCHANGED <<delivered, dropped>>
      BY <2>3 DEF FetchLoad, Return
    <3>2. messages' = messages \/ messages' = [messages EXCEPT ![b] = "retrieved"]
      BY <2>3 DEF FetchLoad
    <3> QED BY <1>1, <3>1, <3>2 DEF NothingIsLost, Stored
  <2>4. CASE FetchEnd(c)
    <3> DEFINE f == fetch[c]
               removed == IF ~f.remove THEN {} ELSE IF f.method = "Get" THEN f.got ELSE BundleIDs
    <3>1. /\ f.method \in Methods /\ f.todo = {} /\ f.loading = {}
          /\ handed' = handed \cup f.got /\ UNCHANGED <<delivered, dropped>>
          /\ messages' = [b \in BundleIDs |-> IF b \in removed THEN "absent" ELSE messages[b]]
      BY <2>4 DEF FetchEnd, Return
    <3>2. CallOK(f, messages, delivered)
      BY DEF MailInv
    <3>3. x \in Stored /\ x \in BundleIDs /\ x \notin f.got
      BY <1>1, <3>1 DEF NothingIsLost
    <3>4. f.remove => f.method = "Get" \/ f.method = "GetAll"
      BY <3>1, <3>2 DEF CallOK, Methods, FetchState
    <3>5. ~(f.remove /\ f.method = "GetAll")
      BY <1>1, <3>1, <3>2, <3>3 DEF CallOK
    <3>6. x \notin removed
      BY <3>3, <3>4, <3>5
    <3> HIDE DEF removed
    <3> QED BY <3>1, <3>3, <3>6 DEF Stored
  <2> QED BY <1>6, <2>1, <2>2, <2>3, <2>4 DEF FetchStep
<1>7. ASSUME NEW c \in Clients, GCStep(c) PROVE x \in Stored'
  <2>1. CASE GCLock(c) \/ GCStart(c) \/ GCEnd(c)
    BY <1>2, <2>1 DEF GCLock, GCStart, GCEnd, history
  <2>2. ASSUME NEW b \in BundleIDs, GCVisit(c, b) PROVE x \in Stored'
    BY <1>1, <2>2 DEF GCVisit, NothingIsLost, Stored
  <2> QED BY <1>7, <2>1, <2>2 DEF GCStep
<1>8. CASE Restart
  BY <1>8 DEF Restart
<1>9. CASE UNCHANGED allVars
  BY <1>2, <1>9 DEF allVars, mailboxVars, history
<1> QED BY <1>3, <1>4, <1>5, <1>6, <1>7, <1>8, <1>9 DEF Next, Delete, Clear

\* Whatever was delivered to a mailbox is still there, was returned to a client, or
\* was deleted or collected, as long as no agent calls GetNew with remove (the one
\* call that clears messages it has not loaded).
THEOREM LosslessTheorem ==
    ASSUME <<"GetNew", TRUE>> \notin Calls PROVE Spec => []NothingIsLost
<1>1. Init => NothingIsLost
  BY DEF Init, NothingIsLost
<1>2. MailInv /\ NothingIsLost /\ [Next]_allVars => NothingIsLost'
  BY LosslessStep
<1> QED BY <1>1, <1>2, MailInvariance, PTL DEF Spec
=============================================================================
