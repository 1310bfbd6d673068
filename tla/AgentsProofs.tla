---------------------------- MODULE AgentsProofs ----------------------------
(***************************************************************************)
(* Proofs about modules IdKeeper and Agents, second part: for every set of *)
(* endpoints, requests and configurations and every history of restarts, a *)
(* bundle is in one place, and a client has its mailbox.  The invariant is *)
(* the one of AgentsRequests.                                              *)
(***************************************************************************)
EXTENDS AgentsRequests

\* How long the provers may take for a step.
USE SMTT(30), ZenonT(20)

-----------------------------------------------------------------------------
(* Places, numbers of mailboxes                                              *)

\* Places(a, b) are those that have the bundle.
LEMMA PlacesAre ==
    ASSUME handed \subseteq Record, dropped \subseteq Loss, NEW a \in Kinds, NEW b \in Bundle
    PROVE  Places(a, b) \subseteq Place /\ \A p \in Place : p \in Places(a, b) <=> Has(a, p, b)
<1> DEFINE P == Places(a, b)
<1>2. /\ \A y \in Boxes : <<"mailbox", y>> \in P <=> Has(a, <<"mailbox", y>>, b)
      /\ \A h \in Handlers : <<"request", h>> \in P <=> Has(a, <<"request", h>>, b)
  BY DEF Places, Has
<1>3. <<"client", 0>> \in P <=> Has(a, <<"client", 0>>, b)
  <2>1. \A d \in handed : d.agent = a /\ d.bundle = b <=> d = [agent |-> a, bundle |-> b]
    BY DEF Record
  <2> QED BY <2>1 DEF Places, Has
<1>4. \A w \in Reasons : <<"lost", w>> \in P <=> Has(a, <<"lost", w>>, b)
  <2>1. \A d \in dropped : \A w : d.agent = a /\ d.bundle = b /\ d.why = w
                                 <=> d = [agent |-> a, bundle |-> b, why |-> w]
    BY DEF Loss
  <2> QED BY <2>1 DEF Places, Has
<1>5. P \subseteq Place
  <2>1. \A d \in dropped : d.why \in Reasons
    BY DEF Loss
  <2> QED BY <2>1 DEF Places, Place
<1> HIDE DEF P
<1>6. \A p \in Place : p \in P <=> Has(a, p, b)
  BY <1>2, <1>3, <1>4, PlaceCases
<1> QED BY <1>5, <1>6 DEF P

\* The reserved addresses are those of the agents that run.
LEMMA SameBanks == ASSUME agents' = agents PROVE \A a \in Kinds : NewBank(a)' = NewBank(a)
BY DEF NewBank, ReservedAt

\* What a union has at most.
LEMMA UnionBound ==
    ASSUME NEW f \in Nat, NEW g \in Nat, NEW both \in Nat, NEW m \in Nat, NEW n \in Nat, f <= m - 1, g <= n
    PROVE  f + g - both <= m - 1 + n
OBVIOUS

-----------------------------------------------------------------------------
(* Taking bundles out of a mailbox                                           *)

LEMMA NotEmpty == ASSUME NEW q \in Seq(Addresses), Len(q) # 0 PROVE q # << >>
OBVIOUS

\* Where a call of a mailbox puts the bundles: it takes some of the contents out,
\* or it only looks at them.
LEMMA ReturnsPart ==
    ASSUME NEW mode \in {"one", "all", "new"}, NEW contents, NEW taken \in Returns(mode, contents)
    PROVE  taken \subseteq contents
<1>1. CASE mode = "one"
  BY <1>1 DEF Returns
<1>2. CASE mode = "all"
  BY <1>2 DEF Returns
<1>3. CASE mode = "new"
  BY <1>3 DEF Returns
<1> QED BY <1>1, <1>2, <1>3

\* A call of mailbox x leaves "left" there, puts "taken" into the request and
\* skips the rest.
LEMMA CollectMoves ==
    ASSUME PlacesInv, AgentsTypes, NEW h \in Handlers, NEW x \in Boxes, handler[h].agent = x[1],
           NEW left \in SUBSET messages[x], NEW taken \in SUBSET messages[x], NEW now,
           \/ left \cap taken = {} /\ now = handler[h].got \cup taken
           \/ left = messages[x] /\ now = handler[h].got,
           Leave(x, left, Lost(x[1], (messages[x] \ left) \ taken, "skipped")),
           \A k \in Handlers : k # h => handler'[k] = handler[k],
           handler'[h].got = now, handler'[h].agent = x[1],
           UNCHANGED <<delivered, handed>>
    PROVE  PlacesInv' /\ messages' \in [Boxes -> SUBSET Bundle]
           /\ (FlowOK /\ ErrorsInv => dropped' \subseteq Loss /\ ErrorsInv')
<1> DEFINE contents == messages[x]
           got == handler[h].got
           skipped == (contents \ left) \ taken
           held == contents \cup got
           D == {<<"mailbox", x>>, <<"request", h>>, <<"client", 0>>} \cup ({"lost"} \X Reasons)
<1>1. messages \in [Boxes -> SUBSET Bundle] /\ got \in SUBSET Bundle /\ contents \in SUBSET Bundle
  <2>1. messages \in [Boxes -> SUBSET Bundle] /\ handler[h] \in Work
    BY DEF AgentsTypes, BoxesOK
  <2> QED BY <2>1 DEF Work
<1>2. contents \cap got = {}
  BY TakenOut
<1>3. PICK keep \in {left, {}} :
         /\ messages' = [messages EXCEPT ![x] = keep]
         /\ dropped' = dropped \cup Lost(x[1], skipped, "skipped")
                               \cup Lost(x[1], left \ keep, "unregistered")
  <2> DEFINE lost == Lost(x[1], skipped, "skipped")
  <2>1. Leave(x, left, lost)
    OBVIOUS
  <2> HIDE DEF lost, skipped
  <2>2. PICK keep \in {left, {}} :
           /\ messages' = [messages EXCEPT ![x] = keep]
           /\ dropped' = dropped \cup lost \cup Lost(x[1], left \ keep, "unregistered")
    BY <2>1, LeaveOK, Zenon
  <2> QED BY <2>2, Zenon DEF lost
<1> DEFINE dest == [b \in Bundle |->
                       IF b \in got THEN <<"request", h>>
                       ELSE IF b \in keep THEN <<"mailbox", x>>
                       ELSE IF b \in left THEN <<"lost", "unregistered">>
                       ELSE IF b \in taken THEN <<"request", h>>
                       ELSE <<"lost", "skipped">>]
<1>4. keep \subseteq left /\ left \subseteq contents /\ taken \subseteq contents
  BY <1>3
<1>5. dest \in [Bundle -> D]
  <2>1. <<"request", h>> \in D /\ <<"mailbox", x>> \in D
        /\ <<"lost", "unregistered">> \in D /\ <<"lost", "skipped">> \in D
    BY DEF Reasons
  <2> HIDE DEF D
  <2> QED BY <2>1
<1>6. /\ \A b \in held : dest[b] = <<"mailbox", x>> <=> b \in keep
      /\ \A b \in held : dest[b] = <<"request", h>> <=> b \in now
      /\ \A b \in held : dest[b] # <<"client", 0>>
      /\ \A b \in held : \A w : dest[b] = <<"lost", w>>
                               <=> \/ w = "skipped" /\ b \in skipped
                                   \/ w = "unregistered" /\ b \in left \ keep
  <2> SUFFICES ASSUME NEW b \in held
               PROVE  /\ dest[b] = <<"mailbox", x>> <=> b \in keep
                      /\ dest[b] = <<"request", h>> <=> b \in now
                      /\ dest[b] # <<"client", 0>>
                      /\ \A w : dest[b] = <<"lost", w>>
                                   <=> \/ w = "skipped" /\ b \in skipped
                                       \/ w = "unregistered" /\ b \in left \ keep
    BY ZenonT(30)
  <2>1. b \in Bundle /\ dest[b] = IF b \in got THEN <<"request", h>>
                       ELSE IF b \in keep THEN <<"mailbox", x>>
                       ELSE IF b \in left THEN <<"lost", "unregistered">>
                       ELSE IF b \in taken THEN <<"request", h>>
                       ELSE <<"lost", "skipped">>
    BY <1>1
  <2> DEFINE d == dest[b]
  <2> HIDE DEF dest
  <2>2. CASE b \in got
    BY <1>2, <1>4, <2>1, <2>2
  <2>3. CASE b \notin got /\ b \in keep
    BY <1>4, <2>1, <2>3
  <2>4. CASE b \notin got /\ b \in left \ keep
    BY <1>4, <2>1, <2>4
  <2>5. CASE b \notin got /\ b \in taken \ left
    BY <1>4, <2>1, <2>5
  <2>6. CASE b \notin got /\ b \notin taken /\ b \notin left
    BY <1>4, <2>1, <2>6
  <2> QED BY <1>4, <2>2, <2>3, <2>4, <2>5, <2>6
<1>7. now \subseteq held /\ keep \subseteq held /\ skipped \subseteq held /\ left \ keep \subseteq held
  BY <1>4
<1> HIDE DEF dest, held
<1>8. MovesTo(x, h, held, dest)
  <2>1. held = messages[x] \cup handler[h].got
    BY DEF held
  <2>2. messages' = [messages EXCEPT ![x] = {b \in held : dest[b] = <<"mailbox", x>>}]
    <3>1. keep = {b \in held : dest[b] = <<"mailbox", x>>}
      BY <1>6, <1>7
    <3> QED BY <1>3, <3>1
  <2>3. handler'[h].got = {b \in held : dest[b] = <<"request", h>>}
    BY <1>6, <1>7
  <2>4. \A a, b : [agent |-> a, bundle |-> b] \in handed'
                     <=> \/ [agent |-> a, bundle |-> b] \in handed
                         \/ a = x[1] /\ b \in held /\ dest[b] = <<"client", 0>>
    BY <1>6, Zenon
  <2>5. \A a, b, w : [agent |-> a, bundle |-> b, why |-> w] \in dropped'
                        <=> \/ [agent |-> a, bundle |-> b, why |-> w] \in dropped
                            \/ a = x[1] /\ b \in held /\ dest[b] = <<"lost", w>>
    <3> SUFFICES ASSUME NEW a, NEW b, NEW w
                 PROVE  [agent |-> a, bundle |-> b, why |-> w] \in dropped'
                           <=> \/ [agent |-> a, bundle |-> b, why |-> w] \in dropped
                               \/ a = x[1] /\ b \in held /\ dest[b] = <<"lost", w>>
      BY Zenon
    <3>1. [agent |-> a, bundle |-> b, why |-> w] \in Lost(x[1], skipped, "skipped")
             <=> a = x[1] /\ b \in skipped /\ w = "skipped"
      BY ZenonT(30) DEF Lost
    <3>2. [agent |-> a, bundle |-> b, why |-> w] \in Lost(x[1], left \ keep, "unregistered")
             <=> a = x[1] /\ b \in left \ keep /\ w = "unregistered"
      BY ZenonT(30) DEF Lost
    <3>3. b \in held /\ dest[b] = <<"lost", w>>
             <=> \/ w = "skipped" /\ b \in skipped
                 \/ w = "unregistered" /\ b \in left \ keep
      BY <1>6, <1>7
    <3> HIDE DEF skipped
    <3> QED BY ONLY <1>3, <3>1, <3>2, <3>3, SMTT(30)
  <2>6. dest \in [Bundle -> {<<"mailbox", x>>, <<"request", h>>, <<"client", 0>>}
                               \cup ({"lost"} \X Reasons)]
    BY <1>5
  <2>7. handler'[h].got # {} => handler'[h].agent = x[1]
    OBVIOUS
  <2> QED BY <2>1, <2>2, <2>3, <2>4, <2>5, <2>6, <2>7, Zenon DEF MovesTo
<1>9. PlacesInv'
  BY <1>8, RequestMoves
<1>10. messages' \in [Boxes -> SUBSET Bundle]
  BY <1>1, <1>3, <1>4
<1>11. FlowOK /\ ErrorsInv => dropped' \subseteq Loss /\ ErrorsInv'
  <2>1. x[1] \in Kinds /\ skipped \in SUBSET Bundle /\ left \ keep \in SUBSET Bundle
    BY <1>1, <1>4, BoxFacts
  <2> HIDE DEF skipped
  <2>2. Lost(x[1], skipped, "skipped") \subseteq Loss /\ Lost(x[1], left \ keep, "unregistered") \subseteq Loss
    BY <2>1 DEF Lost, Loss, Reasons
  <2>3. /\ \A d \in Lost(x[1], skipped, "skipped") : d.why # "error"
        /\ \A d \in Lost(x[1], left \ keep, "unregistered") : d.why # "error"
    BY DEF Lost
  <2> QED BY <1>3, <2>2, <2>3, ZenonT(30) DEF FlowOK, ErrorsInv
<1> QED BY <1>9, <1>10, <1>11

\* A call of mailbox x fails, and what the request had taken out before is lost.
LEMMA CollectFails ==
    ASSUME PlacesInv, AgentsTypes, NEW h \in Handlers, NEW x \in Boxes, handler[h].agent = x[1],
           Leave(x, messages[x], Lost(x[1], handler[h].got, "error")),
           Finish(h), UNCHANGED <<delivered, handed>>
    PROVE  PlacesInv' /\ messages' \in [Boxes -> SUBSET Bundle]
           /\ (FlowOK /\ ErrorsInv /\ (x[1] = "rec" \/ handler[h].got = {})
                 => dropped' \subseteq Loss /\ ErrorsInv')
<1> DEFINE contents == messages[x]
           got == handler[h].got
           held == contents \cup got
           D == {<<"mailbox", x>>, <<"request", h>>, <<"client", 0>>} \cup ({"lost"} \X Reasons)
<1>1. messages \in [Boxes -> SUBSET Bundle] /\ got \in SUBSET Bundle /\ contents \in SUBSET Bundle
  <2>1. messages \in [Boxes -> SUBSET Bundle] /\ handler[h] \in Work
    BY DEF AgentsTypes, BoxesOK
  <2> QED BY <2>1 DEF Work
<1>2. contents \cap got = {}
  BY TakenOut
<1>3. PICK keep \in {contents, {}} :
         /\ messages' = [messages EXCEPT ![x] = keep]
         /\ dropped' = dropped \cup Lost(x[1], got, "error")
                               \cup Lost(x[1], contents \ keep, "unregistered")
  <2> DEFINE lost == Lost(x[1], got, "error")
  <2>1. Leave(x, contents, lost)
    OBVIOUS
  <2> HIDE DEF lost, contents
  <2>2. PICK keep \in {contents, {}} :
           /\ messages' = [messages EXCEPT ![x] = keep]
           /\ dropped' = dropped \cup lost \cup Lost(x[1], contents \ keep, "unregistered")
    BY <2>1, LeaveOK, Zenon
  <2> QED BY <2>2, Zenon DEF lost
<1> DEFINE dest == [b \in Bundle |-> IF b \in got THEN <<"lost", "error">>
                                     ELSE IF b \in keep THEN <<"mailbox", x>>
                                     ELSE <<"lost", "unregistered">>]
<1>4. keep \subseteq contents
  BY <1>3
<1>5. dest \in [Bundle -> D]
  <2>1. <<"mailbox", x>> \in D /\ <<"lost", "unregistered">> \in D /\ <<"lost", "error">> \in D
    BY DEF Reasons
  <2> HIDE DEF D
  <2> QED BY <2>1
<1>6. /\ \A b \in held : dest[b] = <<"mailbox", x>> <=> b \in keep
      /\ \A b \in held : dest[b] # <<"request", h>> /\ dest[b] # <<"client", 0>>
      /\ \A b \in held : \A w : dest[b] = <<"lost", w>>
                               <=> \/ w = "error" /\ b \in got
                                   \/ w = "unregistered" /\ b \in contents \ keep
  <2> SUFFICES ASSUME NEW b \in held
               PROVE  /\ dest[b] = <<"mailbox", x>> <=> b \in keep
                      /\ dest[b] # <<"request", h>> /\ dest[b] # <<"client", 0>>
                      /\ \A w : dest[b] = <<"lost", w>>
                                   <=> \/ w = "error" /\ b \in got
                                       \/ w = "unregistered" /\ b \in contents \ keep
    OBVIOUS
  <2>1. b \in Bundle /\ dest[b] = IF b \in got THEN <<"lost", "error">>
                                  ELSE IF b \in keep THEN <<"mailbox", x>>
                                  ELSE <<"lost", "unregistered">>
    BY <1>1
  <2> HIDE DEF dest
  <2>2. CASE b \in got
    BY <1>2, <1>4, <2>1, <2>2
  <2>3. CASE b \notin got /\ b \in keep
    BY <1>4, <2>1, <2>3
  <2>4. CASE b \notin got /\ b \notin keep
    BY <1>4, <2>1, <2>4
  <2> QED BY <2>2, <2>3, <2>4
<1>7. got \subseteq held /\ keep \subseteq held /\ contents \ keep \subseteq held
  BY <1>4
<1>8. /\ handler'[h] = Idle /\ \A k \in Handlers : k # h => handler'[k] = handler[k]
  BY FinishOK
<1> HIDE DEF dest, held
<1>9. MovesTo(x, h, held, dest)
  <2>1. held = messages[x] \cup handler[h].got
    BY DEF held
  <2>2. messages' = [messages EXCEPT ![x] = {b \in held : dest[b] = <<"mailbox", x>>}]
    <3>1. keep = {b \in held : dest[b] = <<"mailbox", x>>}
      BY <1>6, <1>7
    <3> QED BY <1>3, <3>1
  <2>3. handler'[h].got = {b \in held : dest[b] = <<"request", h>>} /\ handler'[h].got = {}
    BY <1>6, <1>8, IdleFacts
  <2>4. \A a, b : [agent |-> a, bundle |-> b] \in handed'
                     <=> \/ [agent |-> a, bundle |-> b] \in handed
                         \/ a = x[1] /\ b \in held /\ dest[b] = <<"client", 0>>
    BY <1>6, Zenon
  <2>5. \A a, b, w : [agent |-> a, bundle |-> b, why |-> w] \in dropped'
                        <=> \/ [agent |-> a, bundle |-> b, why |-> w] \in dropped
                            \/ a = x[1] /\ b \in held /\ dest[b] = <<"lost", w>>
    <3> SUFFICES ASSUME NEW a, NEW b, NEW w
                 PROVE  [agent |-> a, bundle |-> b, why |-> w] \in dropped'
                           <=> \/ [agent |-> a, bundle |-> b, why |-> w] \in dropped
                               \/ a = x[1] /\ b \in held /\ dest[b] = <<"lost", w>>
      BY Zenon
    <3>1. [agent |-> a, bundle |-> b, why |-> w] \in Lost(x[1], got, "error")
             <=> a = x[1] /\ b \in got /\ w = "error"
      BY ZenonT(30) DEF Lost
    <3>2. [agent |-> a, bundle |-> b, why |-> w] \in Lost(x[1], contents \ keep, "unregistered")
             <=> a = x[1] /\ b \in contents \ keep /\ w = "unregistered"
      BY ZenonT(30) DEF Lost
    <3>3. b \in held /\ dest[b] = <<"lost", w>>
             <=> \/ w = "error" /\ b \in got
                 \/ w = "unregistered" /\ b \in contents \ keep
      BY <1>6, <1>7
    <3> QED BY ONLY <1>3, <3>1, <3>2, <3>3, SMTT(30)
  <2>6. dest \in [Bundle -> {<<"mailbox", x>>, <<"request", h>>, <<"client", 0>>}
                               \cup ({"lost"} \X Reasons)]
    BY <1>5
  <2>7. handler'[h].got # {} => handler'[h].agent = x[1]
    BY <2>3
  <2> QED BY <1>8, <2>1, <2>2, <2>3, <2>4, <2>5, <2>6, <2>7, Zenon DEF MovesTo
<1>10. PlacesInv'
  BY <1>9, RequestMoves
<1>11. messages' \in [Boxes -> SUBSET Bundle]
  BY <1>1, <1>3, <1>4
<1>12. ASSUME FlowOK, ErrorsInv, x[1] = "rec" \/ got = {}
       PROVE  dropped' \subseteq Loss /\ ErrorsInv'
  <2>1. x[1] \in Kinds /\ contents \ keep \in SUBSET Bundle
    BY <1>1, <1>4, BoxFacts
  <2>2. Lost(x[1], got, "error") \subseteq Loss
        /\ Lost(x[1], contents \ keep, "unregistered") \subseteq Loss
    BY <1>1, <2>1 DEF Lost, Loss, Reasons
  <2>3. /\ \A d \in Lost(x[1], got, "error") : d.agent = "rec"
        /\ \A d \in Lost(x[1], contents \ keep, "unregistered") : d.why # "error"
    BY <1>12 DEF Lost
  <2> QED BY <1>3, <1>12, <2>2, <2>3, ZenonT(30) DEF FlowOK, ErrorsInv
<1> QED BY <1>10, <1>11, <1>12

LEMMA CollectStep ==
    ASSUME Room, AgentsInv, NEW h \in Handlers, Collect(h)
    PROVE  StepOK
<1> DEFINE r == handler[h]
           x == r.box
           contents == messages[x]
<1>1. AgentsTypes /\ PlacesInv /\ ErrorsInv /\ ClientInv /\ FlowOK
  BY DEF AgentsInv, AgentsTypes
<1>2. r \in Work /\ RequestOK(r) /\ r.pc = "collect" /\ handler \in [Handlers -> Work]
  BY <1>1 DEF AgentsTypes, Collect
<1>3. /\ x \in Boxes /\ x[1] = r.agent /\ x[1] \in Kinds
      /\ r.todo \in Seq(Addresses) /\ r.todo # << >>
      /\ x[1] # "rec" => Len(r.todo) = 1 /\ r.got = {}
      /\ r.calls \in SUBSET ({"one", "all", "new"} \X BOOLEAN)
  BY <1>2 DEF Work, RequestOK
<1>4. UNCHANGED <<agents, clients, flow, delivered, handed, revoked>>
  BY DEF Collect
<1>5. ASSUME bank' = bank, handler' \in [Handlers -> Work],
             \A k \in Handlers : RequestOK(handler'[k]),
             \A k \in Handlers : k # h => handler'[k] = handler[k],
             handler'[h].pc \notin {"enter", "unregister"},
             PlacesInv', messages' \in [Boxes -> SUBSET Bundle],
             dropped' \subseteq Loss, ErrorsInv'
      PROVE  StepOK
  <2>1. AgentsTypes'
    BY <1>1, <1>4, <1>5 DEF AgentsTypes, BoxesOK, FlowOK, flow
  <2>2. ClientInv'
    BY <1>1, <1>4, <1>5, ClientKept
  <2> QED BY <1>5, <2>1, <2>2 DEF StepOK
<1>6. ASSUME Finish(h), bank' = bank, Leave(x, contents, Lost(x[1], r.got, "error"))
      PROVE  StepOK
  <2>1. PlacesInv' /\ messages' \in [Boxes -> SUBSET Bundle] /\ dropped' \subseteq Loss /\ ErrorsInv'
    BY <1>1, <1>3, <1>4, <1>6, CollectFails
  <2>2. /\ handler' \in [Handlers -> Work] /\ \A k \in Handlers : RequestOK(handler'[k])
        /\ handler'[h] = Idle /\ \A k \in Handlers : k # h => handler'[k] = handler[k]
    BY <1>1, <1>6, FinishOK
  <2> QED BY <1>5, <1>6, <2>1, <2>2, IdleFacts
<1>7. ASSUME NEW m \in r.calls, NEW taken \in Returns(m[1], contents), taken \subseteq stored,
             handler' = [handler EXCEPT ![h].todo = Tail(@), ![h].box = NoBox,
                                        ![h].pc = IF Len(r.todo) = 1 THEN "reply" ELSE "lookup",
                                        ![h].got = IF m[2] THEN @ \cup taken ELSE @],
             UNCHANGED bank,
             LET left == Clear(contents, taken, m[1], m[2])
             IN  Leave(x, left, Lost(r.agent, (contents \ left) \ taken, "skipped"))
      PROVE  StepOK
  <2> DEFINE left == Clear(contents, taken, m[1], m[2])
             now == IF m[2] THEN r.got \cup taken ELSE r.got
             pc == IF Len(r.todo) = 1 THEN "reply" ELSE "lookup"
             s == [pc |-> pc, agent |-> r.agent, uuid |-> r.uuid, eid |-> r.eid,
                   todo |-> Tail(r.todo), calls |-> r.calls, box |-> NoBox, got |-> now]
  <2>1. m[1] \in {"one", "all", "new"} /\ m[2] \in BOOLEAN
    BY <1>3
  <2>2. /\ taken \subseteq contents /\ left \subseteq contents
        /\ \/ left \cap taken = {} /\ now = r.got \cup taken
           \/ left = contents /\ now = r.got
    <3> DEFINE mode == m[1]
               remove == m[2]
               c == contents
               g == r.got
    <3>1. mode \in {"one", "all", "new"} /\ remove \in BOOLEAN
          /\ taken \in Returns(mode, c) /\ taken \subseteq stored
      BY <1>7, <2>1
    <3>2. left = Clear(c, taken, mode, remove)
          /\ now = IF remove THEN g \cup taken ELSE g
      OBVIOUS
    <3> HIDE DEF mode, remove, c, g, left, now
    <3>3. /\ taken \subseteq c /\ left \subseteq c
          /\ \/ left \cap taken = {} /\ now = g \cup taken
             \/ left = c /\ now = g
      <4>1. taken \subseteq c
        BY ONLY <3>1, ReturnsPart, SMTT(30)
      <4>2. CASE remove
        BY ONLY <3>1, <3>2, <4>1, <4>2, SMTT(30) DEF Clear
      <4>3. CASE ~remove
        BY ONLY <3>1, <3>2, <4>1, <4>3, SMTT(30) DEF Clear
      <4> QED BY <4>2, <4>3
    <3> QED BY ONLY <3>3, SMTT(30) DEF c, g
  <2>3. handler' = [handler EXCEPT ![h] = s]
    BY <1>2, <1>7 DEF Work
  <2>4. Tail(r.todo) \in Seq(Addresses) /\ (Len(r.todo) # 1 => Tail(r.todo) # << >>)
    <3> DEFINE q == r.todo
    <3>1. q \in Seq(Addresses) /\ q # << >>
      BY <1>3
    <3> HIDE DEF q
    <3>2. Tail(q) \in Seq(Addresses)
      BY ONLY <3>1, SMTT(30)
    <3>3. Len(Tail(q)) = Len(q) - 1 /\ Len(q) \in Nat
      BY ONLY <3>1, SMTT(30)
    <3>4. Len(q) # 1 => Tail(q) # << >>
      <4> SUFFICES ASSUME Len(q) # 1 PROVE Tail(q) # << >>
        OBVIOUS
      <4>1. Len(Tail(q)) # 0
        BY <3>3
      <4> QED BY ONLY <3>2, <4>1, NotEmpty, Zenon
    <3> QED BY ONLY <3>2, <3>4, SMTT(30) DEF q
  <2>5. now \in SUBSET Bundle
    <3>1. r.got \in SUBSET Bundle /\ contents \in SUBSET Bundle
      BY <1>1, <1>2, <1>3 DEF Work, AgentsTypes, BoxesOK
    <3> QED BY <2>2, <3>1
  <2> HIDE DEF now, left
  <2>6. s \in Work
    <3> DEFINE Q == Seq(Addresses)
    <3>1. Tail(r.todo) \in Q
      BY <2>4
    <3> HIDE DEF Q
    <3>2. Work = [pc : {"idle", "enter", "unregister", "delete", "lookup", "collect", "reply"},
                  agent : Kinds \cup {"none"}, uuid : UUIDs \cup {"none"},
                  eid : EIDs \cup {"none"}, todo : Q,
                  calls : SUBSET ({"one", "all", "new"} \X BOOLEAN),
                  box : Boxes \cup {NoBox}, got : SUBSET Bundle]
      BY DEF Work, Q
    <3>3. r.uuid \in UUIDs \cup {"none"} /\ r.eid \in EIDs \cup {"none"}
      BY <1>2, <3>2
    <3> HIDE DEF r
    <3> QED BY <1>3, <2>5, <3>1, <3>2, <3>3
  <2>7. RequestOK(s)
    BY <1>3, <2>4 DEF RequestOK
  <2>8. s.got = now /\ s.agent = x[1] /\ s.pc \notin {"enter", "unregister"}
    BY <1>3
  <2> HIDE DEF s
  <2>9. /\ handler' \in [Handlers -> Work] /\ \A k \in Handlers : RequestOK(handler'[k])
        /\ handler'[h] = s /\ \A k \in Handlers : k # h => handler'[k] = handler[k]
    BY <1>1, <2>3, <2>6, <2>7 DEF AgentsTypes
  <2>10. Leave(x, left, Lost(x[1], (messages[x] \ left) \ taken, "skipped"))
    BY <1>3, <1>7 DEF left
  <2>11. PlacesInv' /\ messages' \in [Boxes -> SUBSET Bundle] /\ dropped' \subseteq Loss /\ ErrorsInv'
    <3> HIDE DEF x, r
    <3>1. x \in Boxes /\ handler[h].agent = x[1] /\ h \in Handlers
          /\ left \in SUBSET messages[x] /\ taken \in SUBSET messages[x]
      BY <1>3, <2>2 DEF r
    <3>2. \/ left \cap taken = {} /\ now = handler[h].got \cup taken
          \/ left = messages[x] /\ now = handler[h].got
      BY <2>2 DEF r
    <3>3. handler'[h].got = now /\ handler'[h].agent = x[1]
      BY <2>8, <2>9
    <3>4. UNCHANGED <<delivered, handed>>
      BY <1>4
    <3> QED BY ONLY <1>1, <2>9, <2>10, <3>1, <3>2, <3>3, <3>4, CollectMoves, Zenon
  <2> QED BY <1>5, <1>7, <2>8, <2>9, <2>11
<1>8. CASE \E m \in r.calls : Returns(m[1], contents) = {}
           /\ Finish(h) /\ UNCHANGED bank /\ Leave(x, contents, Got(h))
  BY <1>3, <1>6, <1>8 DEF Got
<1>9. ASSUME NEW m \in r.calls, NEW taken \in Returns(m[1], contents), ~(taken \subseteq stored),
             Finish(h), UNCHANGED bank,
             LET left == Clear(contents, taken, m[1], m[2])
             IN  Leave(x, left, Got(h) \cup Lost(r.agent, contents \ left, "error"))
      PROVE  StepOK
  <2>1. Clear(contents, taken, m[1], m[2]) = contents
    BY <1>9, Zenon DEF Clear
  <2>2. Lost(r.agent, contents \ contents, "error") = {}
    BY DEF Lost
  <2>3. Leave(x, contents, Got(h) \cup {})
    BY <1>9, <2>1, <2>2
  <2>4. Got(h) \cup {} = Lost(x[1], r.got, "error")
    BY <1>3 DEF Got
  <2> QED BY <1>6, <1>9, <2>3, <2>4
<1>10. \/ \E m \in r.calls : \E taken \in Returns(m[1], contents) :
             LET left == Clear(contents, taken, m[1], m[2])
                 gone == contents \ left
             IN  IF taken \subseteq stored
                 THEN /\ handler' = [handler EXCEPT ![h].todo = Tail(@), ![h].box = NoBox,
                                         ![h].pc = IF Len(r.todo) = 1 THEN "reply" ELSE "lookup",
                                         ![h].got = IF m[2] THEN @ \cup taken ELSE @]
                      /\ UNCHANGED bank
                      /\ Leave(r.box, left, Lost(r.agent, gone \ taken, "skipped"))
                 ELSE /\ Finish(h) /\ UNCHANGED bank
                      /\ Leave(r.box, left, Got(h) \cup Lost(r.agent, gone, "error"))
       \/ /\ \E m \in r.calls : Returns(m[1], contents) = {}
          /\ Finish(h) /\ UNCHANGED bank
          /\ Leave(r.box, contents, Got(h))
  BY Zenon DEF Collect
<1> QED BY <1>7, <1>8, <1>9, <1>10, Zenon

-----------------------------------------------------------------------------
(* The steps of the store and of the manager                                 *)

LEMMA GCStep ==
    ASSUME AgentsInv, GC
    PROVE  StepOK
<1>1. AgentsTypes /\ PlacesInv /\ ErrorsInv /\ ClientInv
  BY DEF AgentsInv
<1>2. PICK a \in agents, e \in Addresses : BankGC(a, e)
  BY DEF GC
<1> DEFINE x == bank[a][e]
           gone == messages[x] \ stored
<1>3. /\ x # NoBox /\ messages' = [messages EXCEPT ![x] = messages[x] \ gone]
      /\ dropped' = dropped \cup Lost(a, gone, "gone")
      /\ UNCHANGED <<agents, bank, clients, handler, flow, delivered, handed, revoked>>
  BY <1>2 DEF BankGC
<1>4. a \in Kinds /\ x \in Boxes /\ x[1] = a /\ messages[x] \in SUBSET Bundle
      /\ messages \in [Boxes -> SUBSET Bundle]
  BY <1>1, <1>3 DEF AgentsTypes, BoxesOK
<1>5. gone \in SUBSET messages[x]
  OBVIOUS
<1> HIDE DEF gone, x
<1>6. SameGot
  BY <1>3 DEF SameGot
<1>7. PlacesInv'
  <2>1. "gone" \in Reasons /\ dropped' = dropped \cup Lost(x[1], gone, "gone")
    BY <1>3, <1>4 DEF Reasons
  <2>2. BoxesOK
    BY <1>1 DEF AgentsTypes
  <2> QED BY <1>1, <1>3, <1>4, <1>5, <1>6, <2>1, <2>2, MailboxLoses, ZenonT(30)
<1>8. dropped' \subseteq Loss /\ ErrorsInv'
  <2>1. Lost(a, gone, "gone") \subseteq Loss
    BY <1>4, <1>5 DEF Lost, Loss, Reasons
  <2>2. \A d \in Lost(a, gone, "gone") : d.why = "gone"
    BY DEF Lost
  <2>3. dropped \subseteq Loss
    BY <1>1 DEF AgentsTypes, FlowOK
  <2> QED BY <1>1, <1>3, <2>1, <2>2, <2>3 DEF ErrorsInv
<1>9. messages' \in [Boxes -> SUBSET Bundle]
  BY <1>3, <1>4, <1>5
<1>10. AgentsTypes'
  BY <1>1, <1>3, <1>8, <1>9 DEF AgentsTypes, BoxesOK, FlowOK, flow
<1>11. ClientInv'
  BY <1>1, <1>3, ClientKept
<1> QED BY <1>7, <1>8, <1>10, <1>11 DEF StepOK

\* The steps that do not touch the mailboxes, the requests and what became of
\* the bundles.
LEMMA OutsideStep ==
    ASSUME AgentsInv, UNCHANGED <<boxes, handler, history>>,
           stored' \subseteq Bundle, incoming' \subseteq Bundle, delivering' \subseteq Delivery
    PROVE  StepOK
<1>1. AgentsTypes /\ PlacesInv /\ ErrorsInv /\ ClientInv
  BY DEF AgentsInv
<1>2. AgentsTypes'
  BY <1>1 DEF AgentsTypes, BoxesOK, FlowOK, boxes, history
<1>3. PlacesInv'
  <2>1. SameGot
    BY DEF SameGot
  <2> QED BY <1>1, <2>1, NothingMoves DEF boxes, history
<1>4. ErrorsInv'
  BY <1>1 DEF ErrorsInv, history
<1>5. ClientInv'
  BY <1>1, ClientKept DEF boxes, history
<1> QED BY <1>2, <1>3, <1>4, <1>5 DEF StepOK

LEMMA FreshKept ==
    ASSUME FreshInv, UNCHANGED <<incoming, delivering, delivered, data>>
    PROVE  FreshInv'
BY DEF FreshInv, Counted

LEMMA StoreDeleteStep ==
    ASSUME AgentsInv, NEW b \in stored, StoreDelete(b)
    PROVE  StepOK /\ FreshInv'
<1>1. FlowOK /\ FreshInv
  BY DEF AgentsInv, AgentsTypes
<1>2. StepOK
  BY <1>1, OutsideStep DEF StoreDelete, FlowOK
<1>3. FreshInv'
  BY <1>1, FreshKept DEF StoreDelete, history, ids
<1> QED BY <1>2, <1>3

\* A bundle that the builder has just numbered is none of those on their way.
LEMMA SendStep ==
    ASSUME AgentsInv, NEW src \in EIDs, NEW dst \in Addresses, NEW time \in 0..MaxClock,
           NEW given \in BOOLEAN, Send(src, dst, time, given)
    PROVE  StepOK /\ FreshInv'
<1> DEFINE p == <<src, time>>
           b == [src |-> src, time |-> time, dst |-> dst, seq |-> data'[p]]
           new == [life |-> life, given |-> given, bundle |-> b]
<1>1. FlowOK /\ FreshInv /\ IdInv
  BY DEF AgentsInv, AgentsTypes
<1>2. /\ data' = [data EXCEPT ![p] = data[p] + 1] /\ sent' = Append(sent, new)
      /\ incoming' = incoming \cup {sent'[Len(sent')].bundle}
      /\ UNCHANGED <<boxes, handler, stored, delivering, history>>
  BY DEF Send, Issue, Update
<1>3. /\ p \in Tuples /\ data \in [Tuples -> Int] /\ data[p] >= -1
      /\ data'[p] = data[p] + 1 /\ data'[p] \in Nat
      /\ \A q \in Tuples : data[q] \in Int /\ data'[q] \in Int /\ data'[q] >= data[q]
  <2>1. p \in Tuples /\ data \in [Tuples -> Int] /\ data[p] >= -1
    BY <1>1 DEF IdInv, IdTypeOK, Tuples
  <2> QED BY <1>2, <2>1
<1>4. b \in Bundle
  BY <1>3 DEF Bundle
<1>5. incoming' = incoming \cup {b}
  <2>1. sent \in Seq(Entry) /\ new.bundle = b
    BY <1>1 DEF IdInv, IdTypeOK
  <2> HIDE DEF new
  <2>2. sent'[Len(sent')] = new
    BY <1>2, <2>1
  <2> QED BY <1>2, <2>1, <2>2, ZenonT(30)
<1>6. StepOK
  BY <1>1, <1>2, <1>4, <1>5, OutsideStep, ZenonT(30) DEF FlowOK
<1>7. b.src = src /\ b.time = time /\ b.seq = data'[p]
  OBVIOUS
<1> HIDE DEF b, new
<1>8. ASSUME NEW c \in Bundle, Counted(c)
      PROVE  c.seq <= data'[<<c.src, c.time>>] /\ ~SameID(b, c) /\ ~SameID(c, b)
  <2> DEFINE q == <<c.src, c.time>>
  <2>1. q \in Tuples /\ c.seq \in Nat /\ c.seq <= data[q]
    BY <1>8 DEF Bundle, Tuples, Counted
  <2>2. q = p => c.seq # data'[p]
    BY <1>3, <2>1
  <2>3. c.seq <= data'[q]
    <3>1. data[q] \in Int /\ data'[q] \in Int /\ data'[q] >= data[q]
      BY <1>3, <2>1
    <3> HIDE DEF q
    <3> QED BY <2>1, <3>1
  <2>4. SameID(b, c) \/ SameID(c, b) => q = p /\ c.seq = data'[p]
    BY <1>7 DEF SameID
  <2> QED BY <2>2, <2>3, <2>4
<1>9. b.seq <= data'[<<b.src, b.time>>]
  <2>1. data'[p] <= data'[p]
    BY <1>3
  <2>2. <<b.src, b.time>> = p
    BY <1>7
  <2> QED BY <1>7, <2>1, <2>2
<1>10. /\ \A c \in incoming : c \in Bundle /\ Counted(c)
       /\ \A d \in delivering : d.bundle \in Bundle /\ Counted(d.bundle)
       /\ \A r \in delivered : r.bundle \in Bundle /\ Counted(r.bundle)
  BY <1>1 DEF FlowOK, FreshInv, Delivery, Record
<1>11. /\ \A c \in incoming : /\ c.seq <= data'[<<c.src, c.time>>]
                               /\ ~SameID(b, c) /\ ~SameID(c, b)
       /\ \A d \in delivering : /\ d.bundle.seq <= data'[<<d.bundle.src, d.bundle.time>>]
                                 /\ ~SameID(b, d.bundle)
       /\ \A r \in delivered : /\ r.bundle.seq <= data'[<<r.bundle.src, r.bundle.time>>]
                                /\ ~SameID(b, r.bundle)
  BY <1>8, <1>10
<1>12. delivering' = delivering /\ delivered' = delivered
  BY <1>2 DEF history
<1>13. /\ \A c \in incoming' : Counted(c)'
       /\ \A d \in delivering' : Counted(d.bundle)'
       /\ \A r \in delivered' : Counted(r.bundle)'
  BY <1>5, <1>9, <1>11, <1>12 DEF Counted
<1>14. /\ \A c, d \in incoming' : SameID(c, d) => c = d
       /\ \A c \in incoming', d \in delivering' : ~SameID(c, d.bundle)
       /\ \A c \in incoming', r \in delivered' : ~SameID(c, r.bundle)
       /\ \A d, e \in delivering' : SameID(d.bundle, e.bundle) => d = e
       /\ \A d \in delivering', r \in delivered' : r.agent \in d.left => ~SameID(d.bundle, r.bundle)
  BY <1>1, <1>5, <1>11, <1>12, ZenonT(30) DEF FreshInv
<1>15. FreshInv'
  BY <1>13, <1>14 DEF FreshInv
<1> QED BY <1>6, <1>15

\* receiveAsync hands on the bundle of the store that has the same ID.
LEMMA ReceiveAsyncStep ==
    ASSUME AgentsInv, NEW b \in incoming, ReceiveAsync(b)
    PROVE  StepOK /\ FreshInv'
<1> DEFINE c == CHOOSE x \in stored' : SameID(b, x)
           new == [bundle |-> c, left |-> agents]
<1>1. FlowOK /\ FreshInv /\ agents \in SUBSET Kinds
  BY DEF AgentsInv, AgentsTypes, BoxesOK
<1>2. /\ incoming' = incoming \ {b} /\ delivering' = delivering \cup {new}
      /\ stored' = IF \E x \in stored : SameID(b, x) THEN stored ELSE stored \cup {b}
      /\ UNCHANGED <<boxes, handler, ids, history>>
  BY DEF ReceiveAsync
<1>3. b \in Bundle /\ stored' \subseteq Bundle
  BY <1>1, <1>2 DEF FlowOK
<1>4. c \in stored' /\ SameID(b, c)
  <2>1. SameID(b, b)
    BY DEF SameID
  <2>2. \E x \in stored' : SameID(b, x)
    BY <1>2, <2>1
  <2> QED BY <2>2
<1> HIDE DEF c
<1>5. new \in Delivery /\ new.bundle = c
  BY <1>1, <1>3, <1>4 DEF Delivery
<1> HIDE DEF new
<1>6. StepOK
  BY <1>1, <1>2, <1>3, <1>5, OutsideStep DEF FlowOK
<1>7. data' = data /\ delivered' = delivered
  BY <1>2 DEF ids, history
<1>8. \A x \in Bundle : /\ SameID(x, c) => SameID(x, b)
                        /\ SameID(c, x) => SameID(b, x) /\ SameID(x, b)
  BY <1>4 DEF SameID
<1>9. Counted(c)
  <2>1. Counted(b)
    BY <1>1 DEF FreshInv
  <2> QED BY <1>4, <2>1 DEF Counted, SameID
<1>10. /\ \A d \in delivering : d.bundle \in Bundle
       /\ \A r \in delivered : r.bundle \in Bundle
       /\ incoming \subseteq Bundle
  BY <1>1 DEF FlowOK, Delivery, Record
<1>11. /\ \A d \in delivering : ~SameID(c, d.bundle) /\ ~SameID(d.bundle, c)
       /\ \A r \in delivered : ~SameID(c, r.bundle)
       /\ \A x \in incoming : SameID(x, c) => x = b
  <2>1. \A d \in delivering : ~SameID(b, d.bundle) /\ ~SameID(d.bundle, b)
    BY <1>1 DEF FreshInv, SameID
  <2>2. \A r \in delivered : ~SameID(b, r.bundle)
    BY <1>1 DEF FreshInv
  <2>3. \A x \in incoming : SameID(x, b) => x = b
    BY <1>1 DEF FreshInv
  <2> QED BY <1>8, <1>10, <2>1, <2>2, <2>3
<1>12. /\ \A x \in incoming' : Counted(x)'
       /\ \A d \in delivering' : Counted(d.bundle)'
       /\ \A r \in delivered' : Counted(r.bundle)'
  <2>1. \A x : Counted(x)' <=> Counted(x)
    BY <1>7 DEF Counted
  <2>2. /\ \A x \in incoming : Counted(x)
        /\ \A d \in delivering : Counted(d.bundle)
        /\ \A r \in delivered : Counted(r.bundle)
    BY <1>1 DEF FreshInv
  <2> QED BY <1>2, <1>5, <1>7, <1>9, <2>1, <2>2
<1>13. /\ \A x, y \in incoming' : SameID(x, y) => x = y
       /\ \A x \in incoming', d \in delivering' : ~SameID(x, d.bundle)
       /\ \A x \in incoming', r \in delivered' : ~SameID(x, r.bundle)
       /\ \A d, e \in delivering' : SameID(d.bundle, e.bundle) => d = e
       /\ \A d \in delivering', r \in delivered' : r.agent \in d.left => ~SameID(d.bundle, r.bundle)
  BY <1>1, <1>2, <1>5, <1>7, <1>11 DEF FreshInv
<1>14. FreshInv'
  BY <1>12, <1>13 DEF FreshInv
<1> QED BY <1>6, <1>14

\* Mailbox.Deliver puts into one mailbox what the agent has not seen before.
LEMMA BankDeliverMoves ==
    ASSUME AgentsTypes, PlacesInv, NEW a \in Kinds, NEW b \in Bundle, ~Accepted(a, b),
           BankDeliver(a, b), UNCHANGED <<handler, handed, dropped>>
    PROVE  PlacesInv' /\ messages' \in [Boxes -> SUBSET Bundle] /\ delivered' \subseteq Record
           /\ \A r \in delivered' : r \in delivered \/ r = [agent |-> a, bundle |-> b]
<1> DEFINE x == bank[a][b.dst]
<1>1. messages \in [Boxes -> SUBSET Bundle] /\ delivered \subseteq Record
  BY DEF AgentsTypes, BoxesOK, FlowOK
<1>2. CASE x # NoBox /\ b \in stored \ messages[x]
  <2>1. messages' = [messages EXCEPT ![x] = messages[x] \cup {b}]
        /\ delivered' = delivered \cup {[agent |-> a, bundle |-> b]}
    BY <1>2 DEF BankDeliver
  <2>2. x \in Boxes /\ x[1] = a
    <3>1. b.dst \in Addresses
      BY DEF Bundle
    <3> QED BY <1>2, <3>1 DEF AgentsTypes, BoxesOK
  <2> HIDE DEF x
  <2>3. messages' \in [Boxes -> SUBSET Bundle]
    BY <1>1, <2>1, <2>2
  <2>4. [agent |-> a, bundle |-> b] \in Record
    BY DEF Record
  <2>5. ASSUME NEW c \in Kinds, NEW y \in Bundle PROVE One(c, y)'
    <3>1. One(c, y)
      BY DEF PlacesInv
    <3>2. \A z \in Boxes : Has(c, <<"mailbox", z>>, y)'
                              <=> Has(c, <<"mailbox", z>>, y) \/ (c = a /\ y = b /\ z = x)
      BY <1>1, <2>1, <2>2 DEF Has
    <3>3. /\ \A h \in Handlers : Has(c, <<"request", h>>, y)' <=> Has(c, <<"request", h>>, y)
          /\ Has(c, <<"client", 0>>, y)' <=> Has(c, <<"client", 0>>, y)
          /\ \A w \in Reasons : Has(c, <<"lost", w>>, y)' <=> Has(c, <<"lost", w>>, y)
      BY DEF Has
    <3>4. Accepted(c, y)' <=> Accepted(c, y) \/ (c = a /\ y = b)
      BY <2>1 DEF Accepted
    <3>5. CASE c = a /\ y = b
      <4>1. \A p \in Place : ~Has(c, p, y)
        BY <3>1, <3>5 DEF One
      <4>2. \A p \in Place : Has(c, p, y)' <=> p = <<"mailbox", x>>
        BY <2>2, <3>2, <3>3, <3>5, <4>1, PlaceCases
      <4>3. <<"mailbox", x>> \in Place
        BY <2>2, PlaceCases
      <4> QED BY <3>4, <3>5, <4>2, <4>3 DEF One
    <3>6. CASE ~(c = a /\ y = b)
      <4>1. \A p \in Place : Has(c, p, y)' <=> Has(c, p, y)
        BY <3>2, <3>3, <3>6, PlaceCases
      <4> QED BY <3>1, <3>4, <3>6, <4>1, OneStays
    <3> QED BY <3>5, <3>6
  <2> QED BY <1>1, <2>1, <2>3, <2>4, <2>5 DEF PlacesInv
<1>3. CASE ~(x # NoBox /\ b \in stored \ messages[x])
  <2>1. UNCHANGED <<messages, delivered>>
    BY <1>3 DEF BankDeliver
  <2>2. SameGot
    BY DEF SameGot
  <2> QED BY <1>1, <2>1, <2>2, NothingMoves
<1> QED BY <1>2, <1>3

LEMMA DeliverStep ==
    ASSUME AgentsInv, NEW d \in delivering, NEW a \in agents, Deliver(d, a)
    PROVE  StepOK /\ FreshInv'
<1> DEFINE b == d.bundle
           rest == [d EXCEPT !.left = d.left \ {a}]
           new == [agent |-> a, bundle |-> b]
<1>1. AgentsTypes /\ FlowOK /\ FreshInv /\ PlacesInv /\ ErrorsInv /\ ClientInv /\ a \in Kinds
  BY DEF AgentsInv, AgentsTypes, BoxesOK
<1>2. /\ a \in d.left /\ BankDeliver(a, b)
      /\ delivering' = (delivering \ {d}) \cup {e \in {rest} : e.left # {}}
      /\ UNCHANGED <<agents, bank, clients, handler, stored, incoming, ids, handed, dropped, revoked>>
  BY DEF Deliver
<1>3. d \in Delivery /\ b \in Bundle /\ d.left \in SUBSET Kinds
  BY <1>1 DEF FlowOK, Delivery
<1>4. rest \in Delivery /\ rest.bundle = b /\ rest.left = d.left \ {a}
  BY <1>3 DEF Delivery
<1>5. new.agent = a /\ new.bundle = b
  OBVIOUS
<1>6. ~Accepted(a, b)
  <2>1. \A r \in delivered : r.agent \in d.left => ~SameID(b, r.bundle)
    BY <1>1 DEF FreshInv
  <2>2. SameID(b, b)
    BY DEF SameID
  <2> QED BY <1>2, <1>5, <2>1, <2>2 DEF Accepted
<1>7. PlacesInv' /\ messages' \in [Boxes -> SUBSET Bundle] /\ delivered' \subseteq Record
      /\ \A r \in delivered' : r \in delivered \/ r = new
  <2> HIDE DEF b
  <2> QED BY <1>1, <1>2, <1>3, <1>6, BankDeliverMoves
<1> HIDE DEF rest, new
<1>8. delivering' \subseteq Delivery
  BY <1>1, <1>2, <1>4 DEF FlowOK
<1>9. AgentsTypes'
  BY <1>1, <1>2, <1>7, <1>8 DEF AgentsTypes, BoxesOK, FlowOK
<1>10. ErrorsInv'
  BY <1>1, <1>2 DEF ErrorsInv
<1>11. ClientInv'
  BY <1>1, <1>2, ClientKept
<1>12. FreshInv'
  <2>1. data' = data /\ incoming' = incoming
    BY <1>2 DEF ids
  <2>2. \A e \in delivering' :
           \/ e \in delivering /\ e # d
           \/ e.bundle = b /\ a \notin e.left /\ e.left \subseteq d.left /\ e = rest
    BY <1>2, <1>4
  <2> HIDE DEF b
  <2>3. /\ \A x \in incoming : Counted(x) /\ ~SameID(x, b)
        /\ \A e \in delivering : Counted(e.bundle) /\ (e # d => ~SameID(e.bundle, b) /\ ~SameID(b, e.bundle))
        /\ \A r \in delivered : Counted(r.bundle)
        /\ \A r \in delivered : r.agent \in d.left => ~SameID(b, r.bundle)
        /\ Counted(b)
    BY <1>1 DEF FreshInv, b
  <2>4. \A x : Counted(x)' <=> Counted(x)
    BY <2>1 DEF Counted
  <2>5. /\ \A x \in incoming' : Counted(x)'
        /\ \A e \in delivering' : Counted(e.bundle)'
        /\ \A r \in delivered' : Counted(r.bundle)'
    BY <1>5, <1>7, <2>1, <2>2, <2>3, <2>4
  <2>6. /\ \A x, y \in incoming' : SameID(x, y) => x = y
        /\ \A x \in incoming', e \in delivering' : ~SameID(x, e.bundle)
    BY <1>1, <2>1, <2>2, <2>3 DEF FreshInv
  <2>7. \A x \in incoming', r \in delivered' : ~SameID(x, r.bundle)
    BY <1>1, <1>5, <1>7, <2>1, <2>3 DEF FreshInv
  <2>8. \A e, f \in delivering' : SameID(e.bundle, f.bundle) => e = f
    BY <1>1, <2>2, <2>3 DEF FreshInv
  <2>9. \A e \in delivering', r \in delivered' : r.agent \in e.left => ~SameID(e.bundle, r.bundle)
    BY <1>1, <1>5, <1>7, <2>2, <2>3 DEF FreshInv
  <2> QED BY <2>5, <2>6, <2>7, <2>8, <2>9 DEF FreshInv
<1> QED BY <1>7, <1>9, <1>10, <1>11, <1>12 DEF StepOK

-----------------------------------------------------------------------------
(* Steps of a request                                                        *)

\* What every step does to the counters is a step of the ID keeper.
LEMMA NextCounts ==
    ASSUME AgentsInv, [Next]_vars
    PROVE  [IdNext]_ids
<1>1. clock \in 0..MaxClock
  BY DEF AgentsInv, IdInv, IdTypeOK
<1>2. ASSUME NEW src \in EIDs, NEW dst \in Addresses, RecCreate(src, dst) PROVE IdNext
  BY <1>1, <1>2, ZenonT(30) DEF RecCreate, Send, IdNext
<1>3. ASSUME NEW src \in EIDs, NEW dst \in Addresses, NEW t \in 0..MaxClock, NEW g \in BOOLEAN,
             Send(src, dst, t, g)
      PROVE  IdNext
  BY <1>3 DEF Send, IdNext
<1>4. CASE \E src \in EIDs, dst \in Addresses :
          \/ RecCreate(src, dst)
          \/ \E t \in 0..MaxClock, g \in BOOLEAN :
                \/ UnixBuild(src, dst, t, g)
                \/ \E u \in UUIDs, r \in EIDs : RestBuild(u, src, r, dst, t, g)
  BY <1>2, <1>3, <1>4 DEF UnixBuild, RestBuild
<1>5. CASE Restart
  BY <1>5 DEF Restart, IdNext
<1>6. CASE Tick /\ UNCHANGED <<boxes, handler, flow, history>>
  BY <1>6 DEF IdNext
<1>7. CASE \E b \in incoming : ReceiveAsync(b)
  BY <1>7 DEF ReceiveAsync
<1>8. CASE \E d \in delivering, a \in agents : Deliver(d, a)
  BY <1>8 DEF Deliver
<1>9. CASE \E b \in stored : StoreDelete(b)
  BY <1>9 DEF StoreDelete
<1>10. CASE GC
  BY <1>10 DEF GC, BankGC
<1>11. ASSUME NEW h \in Handlers, NEW u \in UUIDs,
              (\E e \in EIDs : RestRegister(h, u, e)) \/ RestUnregister(h, u) \/ RestFetch(h, u)
       PROVE  UNCHANGED ids
  BY <1>11 DEF RestRegister, RestUnregister, RestFetch, Fetch
<1>12. ASSUME NEW h \in Handlers, RestEnter(h) \/ RestRemoveMailbox(h) \/ RestDelete(h)
       PROVE  UNCHANGED ids
  BY <1>12 DEF RestEnter, RestRemoveMailbox, RestDelete
<1>13. ASSUME NEW h \in Handlers, NEW e \in EIDs,
              \/ UnixRegister(h, e) \/ UnixUnregister(h, e) \/ UnixGet(h, e) \/ UnixGetAll(h, e)
              \/ RecRegister(h, e) \/ \E g \in Groups : RecFetch(h, e, g)
       PROVE  UNCHANGED ids
  BY <1>13, ZenonT(30) DEF UnixRegister, UnixUnregister, UnixGet, UnixGetAll, RecRegister, RecFetch, Fetch
<1>14. ASSUME NEW h \in Handlers, LookUp(h) \/ Reply(h) \/ ReplyLost(h)
       PROVE  UNCHANGED ids
  BY <1>14 DEF LookUp, Reply, ReplyLost
<1>15. ASSUME NEW h \in Handlers, Collect(h)
       PROVE  UNCHANGED ids
  BY <1>15, ZenonT(30) DEF Collect
<1>16. CASE UNCHANGED vars
  BY <1>16 DEF vars
<1> QED BY <1>4, <1>5, <1>6, <1>7, <1>8, <1>9, <1>10, <1>11, <1>12, <1>13, <1>14, <1>15, <1>16
        DEF Next

LEMMA RequestStep ==
    ASSUME Room, AgentsInv, NEW h \in Handlers,
           \/ \E u \in UUIDs : \/ \E e \in EIDs : RestRegister(h, u, e)
                               \/ RestUnregister(h, u)
                               \/ RestFetch(h, u)
           \/ RestEnter(h) \/ RestRemoveMailbox(h) \/ RestDelete(h)
           \/ \E e \in EIDs : \/ UnixRegister(h, e) \/ UnixUnregister(h, e) \/ UnixGet(h, e) \/ UnixGetAll(h, e)
                            \/ RecRegister(h, e) \/ \E g \in Groups : RecFetch(h, e, g)
           \/ LookUp(h) \/ Collect(h) \/ Reply(h) \/ ReplyLost(h)
    PROVE  StepOK /\ FreshInv'
<1>1. FreshInv
  BY DEF AgentsInv
<1>2. ASSUME NEW u \in UUIDs, NEW e \in EIDs, RestRegister(h, u, e) PROVE StepOK /\ FreshInv'
  <2>1. StepOK
    BY <1>2, RestRegisterStep
  <2>2. FreshInv'
    BY <1>1, <1>2, FreshKept DEF RestRegister, flow, ids, history
  <2> QED BY <2>1, <2>2
<1>3. ASSUME NEW u \in UUIDs, RestUnregister(h, u) PROVE StepOK /\ FreshInv'
  <2>1. StepOK
    BY <1>3, RestUnregisterStep
  <2>2. FreshInv'
    BY <1>1, <1>3, FreshKept DEF RestUnregister, flow, ids
  <2> QED BY <2>1, <2>2
<1>4. ASSUME NEW u \in UUIDs, RestFetch(h, u) PROVE StepOK /\ FreshInv'
  <2>1. StepOK
    BY <1>4, FetchSteps
  <2>2. FreshInv'
    BY <1>1, <1>4, FreshKept DEF RestFetch, Fetch, flow, ids, history
  <2> QED BY <2>1, <2>2
<1>5. CASE RestEnter(h)
  <2>1. FreshInv'
    BY <1>1, <1>5, FreshKept DEF RestEnter, flow, ids, history
  <2> QED BY <1>5, <2>1, RestEnterStep
<1>6. CASE RestRemoveMailbox(h)
  <2>1. FreshInv'
    BY <1>1, <1>6, FreshKept DEF RestRemoveMailbox, flow, ids
  <2> QED BY <1>6, <2>1, RestRemoveMailboxStep
<1>7. CASE RestDelete(h)
  <2>1. FreshInv'
    BY <1>1, <1>7, FreshKept DEF RestDelete, flow, ids, history
  <2> QED BY <1>7, <2>1, RestDeleteStep
<1>8. ASSUME NEW e \in EIDs, UnixRegister(h, e) \/ RecRegister(h, e) PROVE StepOK /\ FreshInv'
  <2>1. FreshInv'
    BY <1>1, <1>8, FreshKept DEF UnixRegister, RecRegister, flow, ids, history
  <2> QED BY <1>8, <2>1, RegisterStep
<1>9. ASSUME NEW e \in EIDs, UnixUnregister(h, e) PROVE StepOK /\ FreshInv'
  <2>1. FreshInv'
    BY <1>1, <1>9, FreshKept DEF UnixUnregister, flow, ids
  <2> QED BY <1>9, <2>1, UnixUnregisterStep
<1>10. ASSUME NEW e \in EIDs,
              UnixGet(h, e) \/ UnixGetAll(h, e) \/ \E g \in Groups : RecFetch(h, e, g)
       PROVE  StepOK /\ FreshInv'
  <2>1. StepOK
    BY <1>10, FetchSteps
  <2>2. FreshInv'
    BY <1>1, <1>10, FreshKept DEF UnixGet, UnixGetAll, RecFetch, Fetch, flow, ids, history
  <2> QED BY <2>1, <2>2
<1>11. CASE LookUp(h)
  <2>1. FreshInv'
    BY <1>1, <1>11, FreshKept DEF LookUp, flow, ids, history
  <2> QED BY <1>11, <2>1, LookUpStep
<1>12. CASE Collect(h)
  <2>1. UNCHANGED <<flow, ids, delivered>>
    BY <1>12, ZenonT(30) DEF Collect
  <2>2. FreshInv'
    BY <1>1, <2>1, FreshKept DEF flow, ids
  <2> QED BY <1>12, <2>2, CollectStep
<1>13. CASE Reply(h)
  <2>1. FreshInv'
    BY <1>1, <1>13, FreshKept DEF Reply, flow, ids
  <2> QED BY <1>13, <2>1, ReplyStep
<1>14. CASE ReplyLost(h)
  <2>1. FreshInv'
    BY <1>1, <1>14, FreshKept DEF ReplyLost, flow, ids
  <2> QED BY <1>14, <2>1, ReplyLostStep
<1> QED BY <1>2, <1>3, <1>4, <1>5, <1>6, <1>7, <1>8, <1>9, <1>10, <1>11, <1>12, <1>13, <1>14

-----------------------------------------------------------------------------
(* There is always a number for a new mailbox                                *)

INSTANCE FiniteSetTheorems
INSTANCE FunctionTheorems

LEMMA Sizes ==
    /\ Cardinality(Addresses) \in Nat /\ Cardinality(Handlers) \in Nat
    /\ IsFiniteSet(Addresses) /\ IsFiniteSet(Handlers)
BY FiniteAssumption, FS_CardinalityType

\* There are more numbers than mailboxes in use, so a new one finds a number.
LEMMA NewBoxOK ==
    ASSUME AgentsTypes, NEW a \in Kinds, NEW e \in Addresses, bank[a][e] = NoBox
    PROVE  NewBox(a) \in Boxes /\ NewBox(a)[1] = a
<1> DEFINE A == Addresses \ {e}
           f == [y \in A |-> bank[a][y][2]]
           g == [h \in Handlers |-> handler[h].box[2]]
           U == Range(f) \cup Range(g)
<1>1. IsFiniteSet(A) /\ Cardinality(A) = Cardinality(Addresses) - 1
  BY Sizes, FS_RemoveElement
<1>2. IsFiniteSet(Range(f)) /\ Cardinality(Range(f)) <= Cardinality(A)
  <2>1. f \in Surjection(A, Range(f))
    <3>1. f \in [A -> {bank[a][y][2] : y \in A}]
      OBVIOUS
    <3> HIDE DEF f, A
    <3> QED BY <3>1, Fun_RangeProperties, ZenonT(30)
  <2> HIDE DEF f, A
  <2> QED BY <1>1, <2>1, FS_Surjection
<1>3. IsFiniteSet(Range(g)) /\ Cardinality(Range(g)) <= Cardinality(Handlers)
  <2>1. g \in Surjection(Handlers, Range(g))
    <3>1. g \in [Handlers -> {handler[h].box[2] : h \in Handlers}]
      OBVIOUS
    <3> HIDE DEF g
    <3> QED BY <3>1, Fun_RangeProperties, ZenonT(30)
  <2> HIDE DEF g
  <2> QED BY Sizes, <2>1, FS_Surjection
<1>4. IsFiniteSet(U) /\ Cardinality(U) <= Cardinality(Addresses) - 1 + Cardinality(Handlers)
  <2> DEFINE F == Range(f)
             G == Range(g)
  <2> HIDE DEF F, G
  <2>1. IsFiniteSet(F) /\ IsFiniteSet(G) /\ U = F \cup G
    BY <1>2, <1>3 DEF F, G
  <2>2. /\ IsFiniteSet(F \cup G)
        /\ Cardinality(F \cup G) = Cardinality(F) + Cardinality(G) - Cardinality(F \cap G)
    BY <2>1, FS_Union
  <2>3. Cardinality(F) \in Nat /\ Cardinality(G) \in Nat
    BY <2>1, FS_CardinalityType
  <2>4. IsFiniteSet(F \cap G)
    BY <2>1, FS_Intersection
  <2>5. Cardinality(F \cap G) \in Nat
    BY <2>4, FS_CardinalityType
  <2>6. Cardinality(F) <= Cardinality(A) /\ Cardinality(G) <= Cardinality(Handlers)
    BY <1>2, <1>3 DEF F, G
  <2>7. Cardinality(F) + Cardinality(G) - Cardinality(F \cap G) <= Cardinality(Addresses) - 1 + Cardinality(Handlers)
    BY ONLY <1>1, <2>3, <2>5, <2>6, Sizes, UnionBound, SMTT(30), ZenonT(20)
  <2> HIDE DEF U, A
  <2> QED BY ONLY <2>1, <2>2, <2>7, SMTT(30), ZenonT(20)
<1>5. PICK n \in Numbers : n \notin U
  <2> SUFFICES ASSUME Numbers \subseteq U PROVE FALSE
    OBVIOUS
  <2> HIDE DEF U
  <2>1. Cardinality(Addresses) # 0
    BY Sizes, FS_EmptySet
  <2>2. Cardinality(Numbers) = Cardinality(Addresses) + Cardinality(Handlers)
    <3> DEFINE N == Cardinality(Addresses) + Cardinality(Handlers)
    <3>1. N \in Int /\ N >= 1
      BY <2>1, Sizes
    <3>2. Numbers = 1..N
      BY DEF Numbers
    <3> HIDE DEF N
    <3>3. Cardinality(1..N) = IF 1 > N THEN 0 ELSE N - 1 + 1
      BY <3>1, FS_Interval
    <3>4. Cardinality(1..N) = N
      BY <3>1, <3>3
    <3> QED BY <3>2, <3>4 DEF N
  <2>3. Cardinality(Numbers) <= Cardinality(U)
    BY <1>4, FS_Subset
  <2>4. Cardinality(U) \in Nat
    BY <1>4, FS_CardinalityType
  <2> QED BY <1>4, <2>2, <2>3, <2>4, Sizes
<1>6. ~InUse(<<a, n>>, bank, handler)
  <2>1. ASSUME NEW y \in Addresses, bank[a][y] = <<a, n>> PROVE FALSE
    <3>1. y \in A
      BY <2>1 DEF NoBox, Kinds
    <3>2. f[y] = n
      BY <2>1, <3>1
    <3> QED BY <1>5, <3>1, <3>2 DEF Range
  <2>2. ASSUME NEW h \in Handlers, handler[h].box = <<a, n>> PROVE FALSE
    <3>1. g[h] = n
      BY <2>2
    <3> QED BY <1>5, <3>1 DEF Range
  <2> QED BY <2>1, <2>2 DEF InUse
<1>7. NewBox(a) = <<a, CHOOSE m \in Numbers : ~InUse(<<a, m>>, bank, handler)>>
  BY DEF NewBox, Numbers
<1>8. (CHOOSE m \in Numbers : ~InUse(<<a, m>>, bank, handler)) \in Numbers
  BY <1>6
<1> QED BY <1>7, <1>8, BoxFacts, ZenonT(30)

\* The mailboxes of the reserved addresses have numbers too.
LEMMA NewBankOK ==
    ASSUME agents \in SUBSET Kinds, NEW a \in Kinds
    PROVE  /\ NewBank(a) \in [Addresses -> Boxes \cup {NoBox}]
           /\ \A e \in Addresses : NewBank(a)[e] # NoBox => NewBank(a)[e][1] = a
<1> DEFINE R == ReservedAt(a)
           number == CHOOSE f \in [R -> 1..Cardinality(Reserved)] : IsInjective(f)
<1>1. IsFiniteSet(Reserved) /\ Cardinality(Reserved) \in Nat
      /\ Cardinality(Reserved) <= Cardinality(Addresses)
  <2>1. Reserved \in SUBSET Addresses
    BY AddressesAssumption DEF Reserved
  <2> QED BY <2>1, Sizes, FS_Subset, FS_CardinalityType
<1>2. PICK f \in Injection(Reserved, 1..Cardinality(Reserved)) : TRUE
  <2> DEFINE N == 1..Cardinality(Reserved)
  <2> HIDE DEF N
  <2>1. ExistsBijection(N, Reserved)
    BY <1>1, FS_CardinalityType DEF N
  <2>2. PICK b : b \in Bijection(N, Reserved)
    BY <2>1 DEF ExistsBijection
  <2>3. Inverse(b, N, Reserved) \in Bijection(Reserved, N)
    BY <2>2, Fun_BijInverse
  <2>4. Inverse(b, N, Reserved) \in Injection(Reserved, N)
    BY <2>3, Fun_BijectionProperties
  <2> QED BY <2>4 DEF N
<1>3. \E i \in [R -> 1..Cardinality(Reserved)] : IsInjective(i)
  <2>1. f \in [Reserved -> 1..Cardinality(Reserved)] /\ IsInjective(f)
    BY <1>2 DEF Injection
  <2>2. CASE R = Reserved
    BY <2>1, <2>2
  <2>3. CASE R = {}
    <3>1. [x \in R |-> 1] \in [R -> 1..Cardinality(Reserved)]
      BY <2>3
    <3>2. IsInjective([x \in R |-> 1])
      BY <2>3 DEF IsInjective
    <3> QED BY <3>1, <3>2
  <2> QED BY <2>2, <2>3 DEF ReservedAt
<1>4. number \in [R -> 1..Cardinality(Reserved)]
  BY <1>3
<1>5. NewBank(a) = [x \in Addresses |-> IF x \in R THEN <<a, number[x]>> ELSE NoBox]
  BY DEF NewBank
<1> HIDE DEF R, number
<1>6. \A x \in R : number[x] \in Numbers
  BY <1>1, <1>4, Sizes DEF Numbers
<1>7. ASSUME NEW x \in Addresses
      PROVE  /\ NewBank(a)[x] \in Boxes \cup {NoBox}
             /\ NewBank(a)[x] # NoBox => NewBank(a)[x][1] = a
  <2>1. NewBank(a)[x] = IF x \in R THEN <<a, number[x]>> ELSE NoBox
    BY <1>5
  <2>2. CASE x \in R
    BY <1>6, <2>1, <2>2, BoxFacts
  <2>3. CASE x \notin R
    BY <2>1, <2>3
  <2> QED BY <2>2, <2>3
<1>8. NewBank(a) \in [Addresses -> Boxes \cup {NoBox}]
  BY <1>5, <1>7
<1> QED BY <1>7, <1>8

LEMMA RoomOK == AgentsTypes => Room
<1> SUFFICES ASSUME AgentsTypes PROVE Room
  OBVIOUS
<1>1. Cardinality(Addresses) # 0
  BY Sizes, FS_EmptySet, AddressesAssumption
<1>2. 1 \in Numbers
  BY <1>1, Sizes DEF Numbers
<1> QED BY <1>2, NewBoxOK DEF Room

-----------------------------------------------------------------------------
(* The invariant holds                                                       *)

\* A daemon that has just been started, with whatever the store holds.
Started ==
    /\ agents \in SUBSET Kinds
    /\ bank = [a \in Kinds |-> NewBank(a)]
    /\ messages = [x \in Boxes |-> {}] /\ clients = << >>
    /\ handler = [h \in Handlers |-> Idle]
    /\ stored \subseteq Bundle /\ incoming = {} /\ delivering = {}
    /\ delivered = {} /\ handed = {} /\ dropped = {}

LEMMA StartedOK ==
    ASSUME Started
    PROVE  AgentsTypes /\ FreshInv /\ PlacesInv /\ ErrorsInv /\ ClientInv
<1> USE DEF Started
<1>1. BoxesOK
  <2>1. \A a \in Kinds : /\ NewBank(a) \in [Addresses -> Boxes \cup {NoBox}]
                         /\ \A e \in Addresses : NewBank(a)[e] # NoBox => NewBank(a)[e][1] = a
    BY NewBankOK
  <2>2. bank \in [Kinds -> [Addresses -> Boxes \cup {NoBox}]]
    BY <2>1
  <2>3. \A a \in Kinds, e \in Addresses : bank[a][e] # NoBox => bank[a][e][1] = a
    BY <2>1
  <2>4. messages \in [Boxes -> SUBSET Bundle]
    OBVIOUS
  <2> QED BY <2>2, <2>3, <2>4 DEF BoxesOK
<1>2. FlowOK
  BY DEF FlowOK
<1>3. DOMAIN clients = {}
  OBVIOUS
<1>4. /\ handler \in [Handlers -> Work] /\ \A h \in Handlers : RequestOK(handler[h])
      /\ \A h \in Handlers : handler[h] = Idle
  BY IdleFacts
<1>5. AgentsTypes
  BY <1>1, <1>2, <1>3, <1>4 DEF AgentsTypes
<1>6. FreshInv
  BY DEF FreshInv
<1>7. PlacesInv
  <2> SUFFICES ASSUME NEW a \in Kinds, NEW b \in Bundle PROVE One(a, b)
    BY DEF PlacesInv
  <2>1. /\ \A y \in Boxes : ~Has(a, <<"mailbox", y>>, b)
        /\ \A h \in Handlers : ~Has(a, <<"request", h>>, b)
        /\ ~Has(a, <<"client", 0>>, b)
        /\ \A w \in Reasons : ~Has(a, <<"lost", w>>, b)
    BY <1>4, IdleFacts DEF Has
  <2>2. \A p \in Place : ~Has(a, p, b)
    BY <2>1, PlaceCases
  <2>3. ~Accepted(a, b)
    BY DEF Accepted
  <2> QED BY <2>2, <2>3 DEF One
<1>8. ErrorsInv
  BY DEF ErrorsInv
<1>9. ClientInv
  BY <1>3, <1>4, IdleFacts DEF ClientInv, ClientHasMailbox
<1> QED BY <1>5, <1>6, <1>7, <1>8, <1>9

LEMMA RestartStep ==
    ASSUME AgentsInv, Restart
    PROVE  StepOK /\ FreshInv'
<1>1. agents \in SUBSET Kinds /\ stored \subseteq Bundle
  BY DEF AgentsInv, AgentsTypes, BoxesOK, FlowOK
<1>2. \A a \in Kinds : NewBank(a)' = NewBank(a)
  BY SameBanks DEF Restart
<1>3. bank' = [a \in Kinds |-> NewBank(a)']
  BY <1>2 DEF Restart
<1>4. Started'
  BY <1>1, <1>3 DEF Restart, Started
<1>5. (AgentsTypes /\ FreshInv /\ PlacesInv /\ ErrorsInv /\ ClientInv)'
  BY <1>4, StartedOK, PTL
<1> QED BY <1>5 DEF StepOK

LEMMA AgentsInitInv == Init => AgentsInv
<1> SUFFICES ASSUME Init PROVE AgentsInv
  OBVIOUS
<1>1. IdInv
  BY IdInitInv DEF Init
<1>2. Started
  BY ConfigurationsAssumption DEF Init, Configured, Started
<1> QED BY <1>1, <1>2, StartedOK DEF AgentsInv

LEMMA AgentsStepInv == AgentsInv /\ [Next]_vars => AgentsInv'
<1> SUFFICES ASSUME AgentsInv, [Next]_vars PROVE AgentsInv'
  OBVIOUS
<1>1. IdInv'
  BY NextCounts, IdStepInv DEF AgentsInv
<1> Room
  BY RoomOK DEF AgentsInv
<1> SUFFICES StepOK /\ FreshInv'
  BY <1>1 DEF AgentsInv, StepOK
<1>2. FreshInv /\ clock \in 0..MaxClock /\ FlowOK
  BY DEF AgentsInv, AgentsTypes, IdInv, IdTypeOK
<1>3. ASSUME NEW h \in Handlers,
           \/ \E u \in UUIDs : \/ \E e \in EIDs : RestRegister(h, u, e)
                               \/ RestUnregister(h, u)
                               \/ RestFetch(h, u)
           \/ RestEnter(h) \/ RestRemoveMailbox(h) \/ RestDelete(h)
           \/ \E e \in EIDs : \/ UnixRegister(h, e) \/ UnixUnregister(h, e) \/ UnixGet(h, e) \/ UnixGetAll(h, e)
                            \/ RecRegister(h, e) \/ \E g \in Groups : RecFetch(h, e, g)
           \/ LookUp(h) \/ Collect(h) \/ Reply(h) \/ ReplyLost(h)
      PROVE  StepOK /\ FreshInv'
  BY <1>3, RequestStep
<1>4. ASSUME NEW src \in EIDs, NEW dst \in Addresses,
             \/ RecCreate(src, dst)
             \/ \E t \in 0..MaxClock, g \in BOOLEAN :
                   \/ UnixBuild(src, dst, t, g)
                   \/ \E u \in UUIDs, r \in EIDs : RestBuild(u, src, r, dst, t, g)
      PROVE  StepOK /\ FreshInv'
  <2>1. PICK t \in 0..MaxClock, g \in BOOLEAN : Send(src, dst, t, g)
    BY <1>2, <1>4, ZenonT(30) DEF RecCreate, UnixBuild, RestBuild
  <2> QED BY <2>1, SendStep
<1>5. ASSUME NEW b \in incoming, ReceiveAsync(b) PROVE StepOK /\ FreshInv'
  BY <1>5, ReceiveAsyncStep
<1>6. ASSUME NEW d \in delivering, NEW a \in agents, Deliver(d, a) PROVE StepOK /\ FreshInv'
  BY <1>6, DeliverStep
<1>7. ASSUME NEW b \in stored, StoreDelete(b) PROVE StepOK /\ FreshInv'
  BY <1>7, StoreDeleteStep
<1>8. CASE GC
  <2>1. FreshInv'
    BY <1>2, <1>8, FreshKept DEF GC, BankGC, flow, ids
  <2> QED BY <1>8, <2>1, GCStep
<1>9. CASE Restart
  BY <1>9, RestartStep
<1>10. CASE Tick /\ UNCHANGED <<boxes, handler, flow, history>>
  <2>1. StepOK
    BY <1>2, <1>10, OutsideStep DEF flow, FlowOK
  <2>2. FreshInv'
    BY <1>2, <1>10, FreshKept DEF Tick, flow, history
  <2> QED BY <2>1, <2>2
<1>11. CASE UNCHANGED vars
  <2>1. StepOK
    BY <1>2, <1>11, OutsideStep DEF vars, flow, FlowOK
  <2>2. FreshInv'
    BY <1>2, <1>11, FreshKept DEF vars, flow, history, ids
  <2> QED BY <2>1, <2>2
<1> QED BY <1>3, <1>4, <1>5, <1>6, <1>7, <1>8, <1>9, <1>10, <1>11 DEF Next

\* The set Places(a, b) has one element when the agent accepted the bundle, and
\* none otherwise.
LEMMA PlacesCounted ==
    ASSUME AgentsInv, NEW a \in Kinds, NEW b \in Bundle
    PROVE  Cardinality(Places(a, b)) = IF [agent |-> a, bundle |-> b] \in delivered THEN 1 ELSE 0
<1> DEFINE P == Places(a, b)
<1>1. One(a, b) /\ handed \subseteq Record /\ dropped \subseteq Loss
  BY DEF AgentsInv, PlacesInv, AgentsTypes, FlowOK
<1>2. P \subseteq Place /\ \A p \in Place : p \in P <=> Has(a, p, b)
  BY <1>1, PlacesAre
<1> HIDE DEF P
<1>3. CASE Accepted(a, b)
  <2>1. PICK p \in Place : Has(a, p, b)
    BY <1>1, <1>3 DEF One
  <2>2. P = {p}
    BY <1>1, <1>2, <2>1 DEF One
  <2>3. Cardinality(P) = 1
    BY <2>2, FS_Singleton
  <2> QED BY <1>3, <2>3 DEF Accepted, P
<1>4. CASE ~Accepted(a, b)
  <2>1. P = {}
    BY <1>1, <1>2, <1>4 DEF One
  <2>2. Cardinality(P) = 0
    BY <2>1, FS_EmptySet
  <2> QED BY <1>4, <2>2 DEF Accepted, P
<1> QED BY <1>3, <1>4

\* The agents never hand out a bundle twice and never lose one in a way that the
\* module does not name, however the requests, the deliveries, the garbage
\* collection and the restarts interleave (OnePlace; Mailbox.GetAll,
\* MailboxBank.GetMailbox and Unregister, RECAgent.handleFetch).
THEOREM OnePlaceTheorem == Spec => []OnePlace
<1>1. AgentsInv => OnePlace
  <2> SUFFICES ASSUME AgentsInv PROVE OnePlace
    OBVIOUS
  <2>1. Sent \subseteq Bundle
    <3>1. \A i \in DOMAIN sent : sent[i] \in Entry
      BY DEF AgentsInv, IdInv, IdTypeOK
    <3> QED BY <3>1 DEF Sent, Entry
  <2>2. \A a \in Kinds, b \in Sent :
           Cardinality(Places(a, b)) = IF [agent |-> a, bundle |-> b] \in delivered THEN 1 ELSE 0
    BY <2>1, PlacesCounted, ZenonT(30)
  <2> QED BY <2>2 DEF OnePlace, AgentsInv, ErrorsInv
<1> QED BY <1>1, AgentsInitInv, AgentsStepInv, PTL DEF Spec

\* A REST client that is entered has its mailbox unless somebody has asked to
\* unregister the endpoint (ClientHasMailbox; RestAgent.handleRegister,
\* handleUnregister).
THEOREM ClientHasMailboxTheorem == Spec => []ClientHasMailbox
<1>1. AgentsInv => ClientHasMailbox
  BY DEF AgentsInv, ClientInv
<1> QED BY <1>1, AgentsInitInv, AgentsStepInv, PTL DEF Spec

\* The agents number their bundles as the ID keeper on its own would: every
\* step of theirs is a step of IdSpec, so the IDs are as unique (UniqueIDs;
\* Manager.Send, IdKeeper.Update).
THEOREM AgentsKeepIDs == Spec => IdSpec /\ []UniqueIDs
<1>1. Init => IdInit
  BY DEF Init
<1>2. AgentsInv /\ [Next]_vars => [IdNext]_ids
  BY NextCounts
<1>3. AgentsInv => UniqueIDs
  BY IdInvUnique DEF AgentsInv
<1> QED BY <1>1, <1>2, <1>3, AgentsInitInv, AgentsStepInv, PTL DEF Spec, IdSpec

=============================================================================
