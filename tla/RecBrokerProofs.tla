---------------------------- MODULE RecBrokerProofs ----------------------------
(***************************************************************************)
(* For any number of brokers and pieces of work, work that a client gave   *)
(* is in one place, through lost bundles, handlers that raise, and brokers *)
(* and members that restart.  The inductive invariant adds to it that no   *)
(* two bundles carry the same work, and that no bundle carries work that   *)
(* was not given.                                                          *)
(***************************************************************************)
EXTENDS RecBroker, TLAPS

\* How long the provers may take for a step.
USE SMTT(30), ZenonT(20)

\* If one of four sets has an element, and it has one, they have one element in all.
LEMMA OneInAll ==
    ASSUME NEW M, NEW Q, NEW V, NEW D, NEW cardM, NEW cardQ, NEW cardV, NEW cardD,
           cardM = IF M = {} THEN 0 ELSE 1, cardQ = IF Q = {} THEN 0 ELSE 1,
           cardV = IF V = {} THEN 0 ELSE 1, cardD = IF D = {} THEN 0 ELSE 1,
           M # {} \/ Q # {} \/ V # {} \/ D # {},
           M # {} => Q = {} /\ V = {} /\ D = {}, Q # {} => V = {} /\ D = {}, V # {} => D = {}
    PROVE  cardM + cardQ + cardV + cardD = 1
OBVIOUS

\* The spots where work can be.
Spot == {<<"net", Nobody>>, <<"served", Nobody>>, <<"dropped", Nobody>>}
            \cup {"batch", "replies", "queue"} \X Brokers

At(p, w) ==
    \/ p[1] = "net" /\ \E m \in net : m.work = w
    \/ p[1] = "batch" /\ \E m \in batch[p[2]] : m.work = w
    \/ p[1] = "replies" /\ \E m \in replies[p[2]] : m.work = w
    \/ p[1] = "queue" /\ w \in queued[p[2]]
    \/ p[1] = "served" /\ w \in served
    \/ p[1] = "dropped" /\ w \in dropped

\* Work is at a spot once it is given, and at one only.
SpotsInv ==
    /\ \A w \in given : \E p \in Spot : At(p, w)
    /\ \A w \in Work, p \in Spot : At(p, w) => w \in given
    /\ \A w \in Work, p, q \in Spot : At(p, w) /\ At(q, w) => p = q

\* Bundles that dtnd or a broker has.
Held(m) == m \in net \/ \E b \in Brokers : m \in batch[b] \/ m \in replies[b]

BundleOK(m) ==
    /\ m \in BundleSet
    /\ m.work = Nobody <=> m.type \in {"ANNOUNCE", "REQUEST", "ACK"}
    /\ m.type = "ANNOUNCE" => m.source \in Brokers

\* Bundles are what their type says, and no two carry the same work.
BundlesInv ==
    /\ \A m : Held(m) => BundleOK(m)
    /\ \A m, k : Held(m) /\ Held(k) /\ m.work = k.work /\ m.work # Nobody => m = k

OverlayInv == OverlayTypeOK /\ given \subseteq Work /\ SpotsInv /\ BundlesInv

-----------------------------------------------------------------------------
LEMMA SpotCases ==
    /\ \A p : p \in Spot <=> \/ p \in {<<"net", Nobody>>, <<"served", Nobody>>, <<"dropped", Nobody>>}
                             \/ \E b \in Brokers : p \in {<<"batch", b>>, <<"replies", b>>, <<"queue", b>>}
BY DEF Spot

LEMMA SpotsDiffer ==
    \A b, c : /\ <<"batch", b>> # <<"replies", c>> /\ <<"batch", b>> # <<"queue", c>>
             /\ \A p \in {<<"net", Nobody>>, <<"dropped", Nobody>>} :
                   p # <<"batch", c>> /\ p # <<"replies", c>> /\ p # <<"queue", c>>
OBVIOUS

LEMMA AtCases ==
    \A w : /\ At(<<"net", Nobody>>, w) <=> \E m \in net : m.work = w
           /\ At(<<"served", Nobody>>, w) <=> w \in served
           /\ At(<<"dropped", Nobody>>, w) <=> w \in dropped
           /\ \A b : /\ At(<<"batch", b>>, w) <=> \E m \in batch[b] : m.work = w
                     /\ At(<<"replies", b>>, w) <=> \E m \in replies[b] : m.work = w
                     /\ At(<<"queue", b>>, w) <=> w \in queued[b]
BY DEF At

LEMMA AtCasesNext ==
    \A w : /\ At(<<"net", Nobody>>, w)' <=> \E m \in net' : m.work = w
           /\ At(<<"served", Nobody>>, w)' <=> w \in served'
           /\ At(<<"dropped", Nobody>>, w)' <=> w \in dropped'
           /\ \A b : /\ At(<<"batch", b>>, w)' <=> \E m \in batch'[b] : m.work = w
                     /\ At(<<"replies", b>>, w)' <=> \E m \in replies'[b] : m.work = w
                     /\ At(<<"queue", b>>, w)' <=> w \in queued'[b]
BY DEF At

\* A set of works is at one spot after the step, and the rest where it was.
MovedTo(to, S) == \A w \in Work, p \in Spot : At(p, w)' <=> IF w \in S THEN p = to ELSE At(p, w)

LEMMA SpotsStep ==
    ASSUME SpotsInv, given \subseteq Work, NEW to \in Spot, NEW S \in SUBSET Work,
           MovedTo(to, S), given' = given \cup S
    PROVE  SpotsInv'
<1>1. \A w \in given' : \E p \in Spot : At(p, w)'
  <2> TAKE w \in given'
  <2>1. CASE w \in S
    <3> WITNESS to \in Spot
    <3> QED BY <2>1 DEF MovedTo
  <2>2. CASE w \notin S
    <3>1. w \in given /\ w \in Work
      BY <2>2
    <3>2. PICK p \in Spot : At(p, w)
      BY <3>1 DEF SpotsInv
    <3> WITNESS p \in Spot
    <3> QED BY <2>2, <3>1, <3>2 DEF MovedTo
  <2> QED BY <2>1, <2>2
<1>2. \A w \in Work, p \in Spot : At(p, w)' => w \in given'
  BY DEF MovedTo, SpotsInv
<1>3. \A w \in Work, p, q \in Spot : At(p, w)' /\ At(q, w)' => p = q
  <2> SUFFICES ASSUME NEW w \in Work, NEW p \in Spot, NEW q \in Spot, At(p, w)', At(q, w)'
               PROVE  p = q
    OBVIOUS
  <2>1. CASE w \in S
    BY <2>1 DEF MovedTo
  <2>2. CASE w \notin S
    BY <2>2 DEF MovedTo, SpotsInv
  <2> QED BY <2>1, <2>2
<1>4. Spot' = Spot /\ Work' = Work
  BY DEF Spot, Work
<1> QED BY <1>1, <1>2, <1>3, <1>4 DEF SpotsInv

\* Bundles that are new to a step carry no work.
LEMMA BundlesStep ==
    ASSUME BundlesInv, \A m : Held(m)' => Held(m) \/ (BundleOK(m) /\ m.work = Nobody)
    PROVE  BundlesInv'
<1>1. \A m : BundleOK(m)' <=> BundleOK(m)
  BY DEF BundleOK, BundleSet
<1>2. \A m : Held(m)' => BundleOK(m)'
  BY <1>1 DEF BundlesInv
<1>3. \A m, k : Held(m)' /\ Held(k)' /\ m.work = k.work /\ m.work # Nobody => m = k
  BY DEF BundlesInv
<1> QED BY <1>2, <1>3 DEF BundlesInv

\* A step with one new bundle, whose work no other bundle has any more.
LEMMA BundlesStepOne ==
    ASSUME BundlesInv, NEW r, BundleOK(r), \A m : Held(m)' => m = r \/ (Held(m) /\ m.work # r.work)
    PROVE  BundlesInv'
<1>1. \A m : BundleOK(m)' <=> BundleOK(m)
  BY DEF BundleOK, BundleSet
<1>2. \A m : Held(m)' => BundleOK(m)'
  BY <1>1 DEF BundlesInv
<1>3. \A m, k : Held(m)' /\ Held(k)' /\ m.work = k.work /\ m.work # Nobody => m = k
  BY DEF BundlesInv
<1> QED BY <1>2, <1>3 DEF BundlesInv

\* Where the work is after a step, by kind of spot.
LEMMA MovedCases ==
    ASSUME NEW to, NEW S,
           \A w \in Work :
              /\ (\E m \in net' : m.work = w)
                    <=> IF w \in S THEN to = <<"net", Nobody>> ELSE \E m \in net : m.work = w
              /\ w \in served' <=> IF w \in S THEN to = <<"served", Nobody>> ELSE w \in served
              /\ w \in dropped' <=> IF w \in S THEN to = <<"dropped", Nobody>> ELSE w \in dropped,
           \A w \in Work, b \in Brokers :
              /\ (\E m \in batch'[b] : m.work = w)
                    <=> IF w \in S THEN to = <<"batch", b>> ELSE \E m \in batch[b] : m.work = w
              /\ (\E m \in replies'[b] : m.work = w)
                    <=> IF w \in S THEN to = <<"replies", b>> ELSE \E m \in replies[b] : m.work = w
              /\ w \in queued'[b] <=> IF w \in S THEN to = <<"queue", b>> ELSE w \in queued[b]
    PROVE  MovedTo(to, S)
<1> SUFFICES ASSUME NEW w \in Work, NEW p \in Spot
             PROVE  At(p, w)' <=> IF w \in S THEN p = to ELSE At(p, w)
  BY DEF MovedTo
<1>1. CASE p = <<"net", Nobody>>
  BY <1>1, AtCases, AtCasesNext
<1>2. CASE p = <<"served", Nobody>>
  BY <1>2, AtCases, AtCasesNext
<1>3. CASE p = <<"dropped", Nobody>>
  BY <1>3, AtCases, AtCasesNext
<1>4. ASSUME NEW b \in Brokers, p = <<"batch", b>>
      PROVE  At(p, w)' <=> IF w \in S THEN p = to ELSE At(p, w)
  <2>1. /\ At(<<"batch", b>>, w) <=> \E m \in batch[b] : m.work = w
        /\ At(<<"batch", b>>, w)' <=> \E m \in batch'[b] : m.work = w
    BY AtCases, AtCasesNext
  <2>2. (\E m \in batch'[b] : m.work = w)
            <=> IF w \in S THEN to = <<"batch", b>> ELSE \E m \in batch[b] : m.work = w
    OBVIOUS
  <2> QED BY ONLY <1>4, <2>1, <2>2
<1>5. ASSUME NEW b \in Brokers, p = <<"replies", b>>
      PROVE  At(p, w)' <=> IF w \in S THEN p = to ELSE At(p, w)
  <2>1. /\ At(<<"replies", b>>, w) <=> \E m \in replies[b] : m.work = w
        /\ At(<<"replies", b>>, w)' <=> \E m \in replies'[b] : m.work = w
    BY AtCases, AtCasesNext
  <2>2. (\E m \in replies'[b] : m.work = w)
            <=> IF w \in S THEN to = <<"replies", b>> ELSE \E m \in replies[b] : m.work = w
    OBVIOUS
  <2> QED BY ONLY <1>5, <2>1, <2>2
<1>6. ASSUME NEW b \in Brokers, p = <<"queue", b>>
      PROVE  At(p, w)' <=> IF w \in S THEN p = to ELSE At(p, w)
  BY <1>6, AtCases, AtCasesNext
<1> QED BY <1>1, <1>2, <1>3, <1>4, <1>5, <1>6, SpotCases

\* What is put together of the parts of a step.
LEMMA Together ==
    ASSUME OverlayInv, OverlayTypeOK', BundlesInv', NEW to \in Spot, NEW S \in SUBSET Work,
           MovedTo(to, S), given' = given \cup S
    PROVE  OverlayInv'
<1>1. SpotsInv'
  BY SpotsStep DEF OverlayInv
<1>2. given' \subseteq Work' /\ Work' = Work
  BY DEF OverlayInv, Work
<1> QED BY <1>1, <1>2 DEF OverlayInv

\* A step in which bundles without work come and go.
LEMMA NoWorkMoves ==
    ASSUME OverlayInv, OverlayTypeOK', UNCHANGED <<given, served, dropped, queued>>,
           \A m \in net' \ net : BundleOK(m) /\ m.work = Nobody,
           \A m \in net \ net' : m.work = Nobody,
           \A b \in Brokers : /\ \A m \in (batch'[b] \ batch[b]) \cup (replies'[b] \ replies[b]) :
                                    BundleOK(m) /\ m.work = Nobody
                              /\ \A m \in (batch[b] \ batch'[b]) \cup (replies[b] \ replies'[b]) :
                                    m.work = Nobody
    PROVE  OverlayInv'
<1>1. Nobody \notin Work
  BY RecBrokerConstants
<1>2. BundlesInv'
  BY BundlesStep DEF OverlayInv, Held
<1>3. MovedTo(<<"net", Nobody>>, {})
  <2>1. \A w \in Work : (\E m \in net' : m.work = w) <=> (\E m \in net : m.work = w)
    BY <1>1
  <2>2. \A w \in Work, b \in Brokers : (\E m \in batch'[b] : m.work = w) <=> (\E m \in batch[b] : m.work = w)
    BY <1>1
  <2>3. \A w \in Work, b \in Brokers : (\E m \in replies'[b] : m.work = w) <=> (\E m \in replies[b] : m.work = w)
    BY <1>1
  <2> QED BY <2>1, <2>2, <2>3, MovedCases
<1>4. <<"net", Nobody>> \in Spot /\ {} \in SUBSET Work /\ given' = given \cup {}
  BY SpotCases
<1> QED BY <1>2, <1>3, <1>4, Together

LEMMA NewBundle ==
    ASSUME NEW type \in {"ANNOUNCE", "REQUEST", "ACK"}, NEW from \in Members \cup Brokers,
           NEW to \in Members \cup Brokers, type = "ANNOUNCE" => from \in Brokers
    PROVE  BundleOK(Bundle(type, from, to)) /\ Bundle(type, from, to).work = Nobody
BY DEF BundleOK, Bundle, BundleSet

LEMMA NewCarrier ==
    ASSUME NEW type \in {"SUBMIT", "PUT", "QUERY", "LIST"}, NEW from \in Members \cup Brokers,
           NEW to \in Members \cup Brokers, NEW w \in Work
    PROVE  BundleOK(Carrying(type, from, to, w)) /\ Carrying(type, from, to, w).work = w
<1>1. Carrying(type, from, to, w) = [type |-> type, source |-> from, destination |-> to, work |-> w]
  BY DEF Carrying, Bundle
<1>2. Nobody \notin Work
  BY RecBrokerConstants
<1> QED BY <1>1, <1>2 DEF BundleOK, BundleSet

\* A bundle that is held is in order, and no other one has its work.
LEMMA HeldFacts ==
    ASSUME OverlayInv, NEW m, Held(m)
    PROVE  /\ BundleOK(m)
           /\ m.work \in Work \cup {Nobody} /\ m.source \in Members \cup Brokers
           /\ \A k : Held(k) /\ k.work = m.work /\ m.work # Nobody => k = m
BY DEF OverlayInv, BundlesInv, BundleOK, BundleSet

\* A work is nowhere but at p.
Only(w, p) ==
    /\ (\E m \in net : m.work = w) => p = <<"net", Nobody>>
    /\ w \in served => p = <<"served", Nobody>>
    /\ w \in dropped => p = <<"dropped", Nobody>>
    /\ \A b \in Brokers : /\ (\E m \in batch[b] : m.work = w) => p = <<"batch", b>>
                          /\ (\E m \in replies[b] : m.work = w) => p = <<"replies", b>>
                          /\ w \in queued[b] => p = <<"queue", b>>

\* The work of a bundle is in no poll any more, and other work is where it was.
Taken(m) ==
    \A w \in Work, c \in Brokers : (\E k \in batch'[c] : k.work = w)
                                      <=> w # m.work /\ \E k \in batch[c] : k.work = w

\* Work that was in a poll is in no other place.
LEMMA InPollOnly ==
    ASSUME NEW b \in Brokers, NEW w, Only(w, <<"batch", b>>)
    PROVE  /\ ~\E k \in net : k.work = w
           /\ w \notin served /\ w \notin dropped
           /\ \A c \in Brokers : ~(\E k \in replies[c] : k.work = w) /\ w \notin queued[c]
BY DEF Only

\* The work of a bundle that a poll gave is at the spot it is moved to, and nothing else moves.
LEMMA TakenTo ==
    ASSUME NEW b \in Brokers, NEW m, NEW to, Only(m.work, <<"batch", b>>), Taken(m), UNCHANGED net,
           to # <<"net", Nobody>>, \A c \in Brokers : to # <<"batch", c>>,
           \A w \in Work :
              /\ w \in served' <=> IF w \in {m.work} THEN to = <<"served", Nobody>> ELSE w \in served
              /\ w \in dropped' <=> IF w \in {m.work} THEN to = <<"dropped", Nobody>> ELSE w \in dropped,
           \A w \in Work, c \in Brokers :
              /\ (\E k \in replies'[c] : k.work = w)
                    <=> IF w \in {m.work} THEN to = <<"replies", c>> ELSE \E k \in replies[c] : k.work = w
              /\ w \in queued'[c] <=> IF w \in {m.work} THEN to = <<"queue", c>> ELSE w \in queued[c]
    PROVE  MovedTo(to, {m.work})
<1> DEFINE w0 == m.work
<1>1. ~\E k \in net : k.work = w0
  BY InPollOnly, Zenon
<1>2. \A w \in Work, c \in Brokers : (\E k \in batch'[c] : k.work = w) <=> w # w0 /\ \E k \in batch[c] : k.work = w
  BY Zenon DEF Taken
<1> HIDE DEF w0
<1>3. \A w \in Work :
         /\ (\E k \in net' : k.work = w)
               <=> IF w \in {w0} THEN to = <<"net", Nobody>> ELSE \E k \in net : k.work = w
         /\ w \in served' <=> IF w \in {w0} THEN to = <<"served", Nobody>> ELSE w \in served
         /\ w \in dropped' <=> IF w \in {w0} THEN to = <<"dropped", Nobody>> ELSE w \in dropped
  <2> TAKE w \in Work
  <2>1. (\E k \in net' : k.work = w)
           <=> IF w \in {w0} THEN to = <<"net", Nobody>> ELSE \E k \in net : k.work = w
    BY <1>1
  <2> QED BY <2>1, Zenon DEF w0
<1>4. \A w \in Work, c \in Brokers :
         /\ (\E k \in batch'[c] : k.work = w)
               <=> IF w \in {w0} THEN to = <<"batch", c>> ELSE \E k \in batch[c] : k.work = w
         /\ (\E k \in replies'[c] : k.work = w)
               <=> IF w \in {w0} THEN to = <<"replies", c>> ELSE \E k \in replies[c] : k.work = w
         /\ w \in queued'[c] <=> IF w \in {w0} THEN to = <<"queue", c>> ELSE w \in queued[c]
  <2> TAKE w \in Work, c \in Brokers
  <2>1. (\E k \in batch'[c] : k.work = w)
           <=> IF w \in {w0} THEN to = <<"batch", c>> ELSE \E k \in batch[c] : k.work = w
    BY <1>2
  <2> QED BY <2>1, Zenon DEF w0
<1>5. MovedTo(to, {w0})
  BY <1>3, <1>4, MovedCases
<1> QED BY <1>5 DEF w0

\* The worker of a broker sends on what it can from the queue.
LEMMA ServedFromQueue ==
    ASSUME NEW b \in Brokers, NEW S \in SUBSET Work, \A w \in S : Only(w, <<"queue", b>>),
           UNCHANGED <<net, batch, replies, dropped>>, served' = served \cup S,
           \A c \in Brokers : queued'[c] = IF c = b THEN queued[b] \ S ELSE queued[c]
    PROVE  MovedTo(<<"served", Nobody>>, S)
<1>1. \A w \in S : /\ ~(\E m \in net : m.work = w) /\ w \notin dropped
                  /\ \A c \in Brokers : /\ ~\E m \in batch[c] : m.work = w
                                        /\ ~\E m \in replies[c] : m.work = w
                                        /\ w \in queued[c] => c = b
  BY DEF Only
<1> QED BY <1>1, MovedCases

LEMMA Elsewhere ==
    ASSUME OverlayInv, NEW w \in Work, NEW p \in Spot, At(p, w)
    PROVE  w \in given /\ Only(w, p)
<1>1. w \in given /\ \A q \in Spot : At(q, w) => p = q
  BY DEF OverlayInv, SpotsInv
<1>2. /\ At(<<"net", Nobody>>, w) => p = <<"net", Nobody>>
      /\ At(<<"served", Nobody>>, w) => p = <<"served", Nobody>>
      /\ At(<<"dropped", Nobody>>, w) => p = <<"dropped", Nobody>>
  BY <1>1, SpotCases
<1>3. ASSUME NEW b \in Brokers
      PROVE  /\ At(<<"batch", b>>, w) => p = <<"batch", b>>
             /\ At(<<"replies", b>>, w) => p = <<"replies", b>>
             /\ At(<<"queue", b>>, w) => p = <<"queue", b>>
  BY <1>1, SpotCases
<1>4. \A b \in Brokers : /\ (\E m \in batch[b] : m.work = w) => p = <<"batch", b>>
                         /\ (\E m \in replies[b] : m.work = w) => p = <<"replies", b>>
                         /\ w \in queued[b] => p = <<"queue", b>>
  BY <1>3, AtCases
<1>5. /\ (\E m \in net : m.work = w) => p = <<"net", Nobody>>
      /\ w \in served => p = <<"served", Nobody>>
      /\ w \in dropped => p = <<"dropped", Nobody>>
  BY <1>2, AtCases
<1> QED BY <1>1, <1>4, <1>5 DEF Only

-----------------------------------------------------------------------------
(* Members                                                                    *)

LEMMA HandleAnnounceInv ==
    ASSUME OverlayInv, NEW n \in Members, NEW m \in net, HandleAnnounce(n, m),
           UNCHANGED <<context, given, brokerVars, served, dropped, unanswered, faults>>
    PROVE  OverlayInv'
<1>1. BundleOK(m) /\ m.work = Nobody /\ m.source \in Brokers
  BY HeldFacts DEF Held, HandleAnnounce, BundleOK
<1>2. BundleOK(Bundle("REQUEST", n, m.source)) /\ Bundle("REQUEST", n, m.source).work = Nobody
  BY <1>1, NewBundle
<1>3. /\ net \ net' \subseteq {m}
      /\ net' \ net \subseteq {Bundle("REQUEST", n, m.source)}
  BY DEF HandleAnnounce
<1>4. OverlayTypeOK'
  BY <1>1, <1>2, <1>3 DEF OverlayInv, OverlayTypeOK, HandleAnnounce, brokerVars, BundleOK, BundleSet
<1> QED BY <1>1, <1>2, <1>3, <1>4, NoWorkMoves DEF brokerVars

LEMMA HandleAckInv ==
    ASSUME OverlayInv, NEW n \in Members, NEW m \in net, HandleAck(n, m),
           UNCHANGED <<context, given, brokerVars, served, dropped, unanswered, faults>>
    PROVE  OverlayInv'
<1>1. m.work = Nobody
  BY HeldFacts DEF Held, HandleAck, BundleOK
<1>2. net \ net' \subseteq {m} /\ net' \subseteq net
  BY DEF HandleAck
<1>3. OverlayTypeOK'
  BY <1>2 DEF OverlayInv, OverlayTypeOK, HandleAck, brokerVars, BundleSet
<1> QED BY <1>1, <1>2, <1>3, NoWorkMoves DEF brokerVars

\* The answer to a query leaves dtnd: the query is served.
LEMMA HandleListInv ==
    ASSUME OverlayInv, NEW n \in Members, NEW m \in net, HandleList(n, m),
           UNCHANGED <<context, given, brokerVars, dropped, unanswered, faults>>
    PROVE  OverlayInv'
<1> DEFINE S == {m.work}
<1>1. m.work \in Work /\ \A k \in net : k.work = m.work => k = m
  <2>1. Held(m) /\ \A k \in net : Held(k)
    BY DEF Held
  <2>2. m.work # Nobody
    BY <2>1, HeldFacts DEF HandleList, BundleOK
  <2> QED BY <2>1, <2>2, HeldFacts
<1>2. net' = net \ {m} /\ served' = served \cup S
  BY DEF HandleList
<1>3. OverlayTypeOK'
  BY <1>2 DEF OverlayInv, OverlayTypeOK, HandleList, brokerVars, BundleSet
<1>4. BundlesInv'
  BY <1>2, BundlesStep DEF OverlayInv, Held, brokerVars
<1>5. <<"net", Nobody>> \in Spot /\ <<"served", Nobody>> \in Spot
  BY SpotCases
<1>6. m.work \in given /\ Only(m.work, <<"net", Nobody>>)
  BY <1>1, <1>5, AtCases, Elsewhere
<1>7. MovedTo(<<"served", Nobody>>, S)
  <2>1. \A w \in Work : (\E k \in net' : k.work = w)
                           <=> IF w \in S THEN <<"served", Nobody>> = <<"net", Nobody>> ELSE \E k \in net : k.work = w
    BY <1>1, <1>2
  <2> QED BY <1>2, <1>6, <2>1, MovedCases DEF brokerVars, Only
<1>8. given' = given \cup S /\ S \in SUBSET Work
  BY <1>1, <1>6
<1> QED BY <1>3, <1>4, <1>5, <1>7, <1>8, Together

LEMMA ReceiveInv ==
    ASSUME OverlayInv, NEW n \in Members, NEW type, Receive(n, type)
    PROVE  OverlayInv'
<1>1. PICK m \in net : \/ (HandleAnnounce(n, m) \/ HandleAck(n, m)) /\ UNCHANGED served
                       \/ HandleList(n, m)
  BY DEF Receive
<1>2. UNCHANGED <<context, given, brokerVars, dropped, unanswered, faults>>
  BY DEF Receive
<1> QED BY <1>1, <1>2, HandleAnnounceInv, HandleAckInv, HandleListInv

LEMMA SendHeartbeatInv ==
    ASSUME OverlayInv, NEW n \in Members, SendHeartbeat(n)
    PROVE  OverlayInv'
<1>1. broker[n] \in Brokers /\ net' = net \cup {Bundle("REQUEST", n, broker[n])}
  BY DEF OverlayInv, OverlayTypeOK, SendHeartbeat
<1>2. BundleOK(Bundle("REQUEST", n, broker[n])) /\ Bundle("REQUEST", n, broker[n]).work = Nobody
  BY <1>1, NewBundle
<1>3. OverlayTypeOK'
  BY <1>1, <1>2 DEF OverlayInv, OverlayTypeOK, SendHeartbeat, memberVars, brokerVars, BundleOK, BundleSet
<1> QED BY <1>1, <1>2, <1>3, NoWorkMoves DEF SendHeartbeat, memberVars, brokerVars

LEMMA SaveContextInv ==
    ASSUME OverlayInv, NEW c \in Clients, SaveContext(c)
    PROVE  OverlayInv'
<1>1. broker[c] \in Brokers
  BY DEF OverlayInv, OverlayTypeOK, SaveContext, Members
<1>2. OverlayTypeOK'
  BY <1>1 DEF OverlayInv, OverlayTypeOK, SaveContext, brokerVars, BundleSet
<1> QED BY <1>2, NoWorkMoves DEF SaveContext, brokerVars

LEMMA RestartMemberInv ==
    ASSUME OverlayInv, NEW n \in Members, RestartMember(n)
    PROVE  OverlayInv'
<1>1. (IF n \in Clients THEN context[n] ELSE Nobody) \in Brokers \cup {Nobody}
  BY DEF OverlayInv, OverlayTypeOK
<1>2. OverlayTypeOK'
  BY <1>1 DEF OverlayInv, OverlayTypeOK, RestartMember, brokerVars, BundleSet
<1> QED BY <1>2, NoWorkMoves DEF RestartMember, brokerVars

\* Work that is handed to dtnd is new, so that it was nowhere.
LEMMA SubmitInv ==
    ASSUME OverlayInv, NEW c \in Clients, NEW w \in Work, Submit(c, w)
    PROVE  OverlayInv'
<1> DEFINE r == Carrying(TypeOf(w), c, broker[c], w)
<1>1. broker[c] \in Brokers /\ c \in Members
  BY DEF OverlayInv, OverlayTypeOK, Submit, Members
<1>2. TypeOf(w) \in {"SUBMIT", "PUT", "QUERY"}
  BY DEF TypeOf, Work
<1>3. BundleOK(r) /\ r.work = w
  BY <1>1, <1>2, NewCarrier
<1>4. net' = net \cup {r}
  BY DEF Submit
<1> HIDE DEF r
<1>5. \A p \in Spot : ~At(p, w)
  BY DEF Submit, OverlayInv, SpotsInv
<1>6. /\ w \notin served /\ w \notin dropped /\ \A m \in net : m.work # w
      /\ \A b \in Brokers : /\ w \notin queued[b]
                            /\ \A m \in batch[b] : m.work # w
                            /\ \A m \in replies[b] : m.work # w
  <2>1. ~At(<<"net", Nobody>>, w) /\ ~At(<<"served", Nobody>>, w) /\ ~At(<<"dropped", Nobody>>, w)
    BY <1>5, SpotCases
  <2>2. ASSUME NEW b \in Brokers
        PROVE  ~At(<<"batch", b>>, w) /\ ~At(<<"replies", b>>, w) /\ ~At(<<"queue", b>>, w)
    BY <1>5, SpotCases
  <2> QED BY <2>1, <2>2, AtCases
<1>7. OverlayTypeOK'
  BY <1>3, <1>4 DEF OverlayInv, OverlayTypeOK, Submit, memberVars, brokerVars, BundleOK, BundleSet
<1>8. BundlesInv'
  <2>1. \A m : Held(m)' => m = r \/ (Held(m) /\ m.work # w)
    BY <1>4, <1>6 DEF Held, Submit, brokerVars
  <2> QED BY <1>3, <2>1, BundlesStepOne DEF OverlayInv
<1>9. MovedTo(<<"net", Nobody>>, {w})
  BY <1>3, <1>4, <1>6, MovedCases DEF Submit, brokerVars
<1>10. <<"net", Nobody>> \in Spot /\ {w} \in SUBSET Work /\ given' = given \cup {w}
  BY SpotCases DEF Submit
<1> QED BY <1>7, <1>8, <1>9, <1>10, Together

-----------------------------------------------------------------------------
(* Brokers                                                                    *)

LEMMA AnnounceYourselfInv ==
    ASSUME OverlayInv, NEW b \in Brokers, AnnounceYourself(b)
    PROVE  OverlayInv'
<1>1. \A n \in Members : /\ BundleOK(Bundle("ANNOUNCE", b, n))
                         /\ Bundle("ANNOUNCE", b, n).work = Nobody
  BY NewBundle
<1>2. net' = net \cup {Bundle("ANNOUNCE", b, n) : n \in Members}
  BY DEF AnnounceYourself
<1>3. \A m \in net' \ net : BundleOK(m) /\ m.work = Nobody
  BY <1>1, <1>2
<1>4. discovered' \in [Brokers -> SUBSET (Members \cup Brokers)]
  BY DEF OverlayInv, OverlayTypeOK, AnnounceYourself, HandleBroker
<1>5. OverlayTypeOK'
  BY <1>2, <1>3, <1>4 DEF OverlayInv, OverlayTypeOK, AnnounceYourself, memberVars, BundleOK, BundleSet
<1> QED BY <1>2, <1>3, <1>5, NoWorkMoves DEF AnnounceYourself

LEMMA StartInv ==
    ASSUME OverlayInv, NEW b \in Brokers, Start(b) \/ StartTasks(b)
    PROVE  OverlayInv'
<1>1. OverlayTypeOK'
  BY DEF OverlayInv, OverlayTypeOK, Start, StartTasks, memberVars, BundleSet
<1> QED BY <1>1, NoWorkMoves DEF Start, StartTasks

\* The work of bundles that are held.
LEMMA WorkOfFacts ==
    ASSUME OverlayInv, NEW B, \A m \in B : Held(m)
    PROVE  /\ WorkOf(B) \in SUBSET Work
           /\ \A w \in Work : w \in WorkOf(B) <=> \E m \in B : m.work = w
           /\ \A m, k : m \in B /\ Held(k) /\ k.work = m.work /\ m.work # Nobody => k = m
<1>1. \A m \in B : m.work \in Work \cup {Nobody}
  BY HeldFacts
<1>2. Nobody \notin Work
  BY RecBrokerConstants
<1>3. \A m, k : m \in B /\ Held(k) /\ k.work = m.work /\ m.work # Nobody => k = m
  BY HeldFacts
<1> QED BY <1>1, <1>2, <1>3 DEF WorkOf

\* dtnd hands over the bundles for a broker.
LEMMA GetNewBundlesInv ==
    ASSUME OverlayInv, NEW b \in Brokers, GetNewBundles(b)
    PROVE  OverlayInv'
<1> DEFINE B == {m \in net : m.destination = b}
           S == WorkOf(B)
<1>1. net' = net \ B /\ batch' = [batch EXCEPT ![b] = B] /\ batch[b] = {}
  BY DEF GetNewBundles
<1>2. B \subseteq net /\ \A m \in net : Held(m)
  BY DEF Held
<1> HIDE DEF B
<1>3. /\ S \in SUBSET Work
      /\ \A w \in Work : w \in S <=> \E m \in B : m.work = w
      /\ \A m, k : m \in B /\ Held(k) /\ k.work = m.work /\ m.work # Nobody => k = m
  BY <1>2, WorkOfFacts
<1>4. \A c \in Brokers : batch'[c] = IF c = b THEN B ELSE batch[c]
  BY <1>1 DEF OverlayInv, OverlayTypeOK
<1>5. UNCHANGED <<replies, queued, served, dropped, given>>
  BY DEF GetNewBundles
<1>6. OverlayTypeOK'
  BY <1>1, <1>2 DEF OverlayInv, OverlayTypeOK, GetNewBundles, memberVars, BundleSet
<1>7. BundlesInv'
  BY <1>1, <1>2, <1>4, <1>5, BundlesStep DEF OverlayInv, Held
<1>8. <<"net", Nobody>> \in Spot /\ <<"batch", b>> \in Spot
  BY SpotCases
<1> HIDE DEF S
<1>9. \A w \in S : w \in given /\ Only(w, <<"net", Nobody>>)
  <2> TAKE w \in S
  <2>1. w \in Work /\ \E m \in net : m.work = w
    BY <1>2, <1>3
  <2> QED BY <1>8, <2>1, AtCases, Elsewhere
<1>10. MovedTo(<<"batch", b>>, S)
  <2>1. \A w \in Work : (\E m \in net' : m.work = w) <=> w \notin S /\ \E m \in net : m.work = w
    <3>1. \A m \in net' : m.work \in Work => m.work \notin S
      <4> SUFFICES ASSUME NEW m \in net', m.work \in Work, NEW k \in B, k.work = m.work PROVE FALSE
        BY <1>3
      <4>1. m.work # Nobody /\ m \in net /\ m \notin B
        BY <1>1, RecBrokerConstants
      <4> QED BY <1>2, <1>3, <4>1
    <3>2. \A m \in net : m.work \in Work /\ m.work \notin S => m \in net'
      BY <1>1, <1>3
    <3> QED BY <1>1, <3>1, <3>2
  <2>2. \A w \in Work, c \in Brokers : (\E m \in batch'[c] : m.work = w)
            <=> IF w \in S THEN <<"batch", b>> = <<"batch", c>> ELSE \E m \in batch[c] : m.work = w
    <3> TAKE w \in Work, c \in Brokers
    <3>1. CASE c = b
      BY <1>1, <1>3, <1>4, <3>1
    <3>2. CASE c # b
      BY <1>4, <1>9, <3>2 DEF Only
    <3> QED BY <3>1, <3>2
  <2>3. \A w \in Work : /\ w \in served' <=> IF w \in S THEN <<"batch", b>> = <<"served", Nobody>> ELSE w \in served
                        /\ w \in dropped' <=> IF w \in S THEN <<"batch", b>> = <<"dropped", Nobody>> ELSE w \in dropped
    BY <1>5, <1>9 DEF Only
  <2>4. \A w \in Work, c \in Brokers :
           /\ (\E m \in replies'[c] : m.work = w)
                 <=> IF w \in S THEN <<"batch", b>> = <<"replies", c>> ELSE \E m \in replies[c] : m.work = w
           /\ w \in queued'[c] <=> IF w \in S THEN <<"batch", b>> = <<"queue", c>> ELSE w \in queued[c]
    BY <1>5, <1>9, SpotsDiffer DEF Only
  <2> QED BY <2>1, <2>2, <2>3, <2>4, MovedCases
<1>11. given' = given \cup S
  BY <1>5, <1>9
<1> QED BY <1>3, <1>6, <1>7, <1>8, <1>10, <1>11, Together

\* The replies of a poll go to dtnd.
LEMMA SendRepliesInv ==
    ASSUME OverlayInv, NEW b \in Brokers, SendReplies(b)
    PROVE  OverlayInv'
<1> DEFINE B == replies[b]
           S == WorkOf(B)
<1>1. net' = net \cup B /\ replies' = [replies EXCEPT ![b] = {}]
  BY DEF SendReplies
<1>2. B \subseteq BundleSet /\ \A m \in B : Held(m)
  BY DEF Held, OverlayInv, OverlayTypeOK
<1>3. /\ S \in SUBSET Work
      /\ \A w \in Work : w \in S <=> \E m \in B : m.work = w
  BY <1>2, WorkOfFacts
<1>4. \A c \in Brokers : replies'[c] = IF c = b THEN {} ELSE replies[c]
  BY <1>1 DEF OverlayInv, OverlayTypeOK
<1>5. UNCHANGED <<batch, queued, served, dropped, given>>
  BY DEF SendReplies
<1>6. OverlayTypeOK'
  BY <1>1, <1>2 DEF OverlayInv, OverlayTypeOK, SendReplies, memberVars, BundleSet
<1>7. BundlesInv'
  BY <1>1, <1>2, <1>4, <1>5, BundlesStep DEF OverlayInv, Held
<1>8. <<"net", Nobody>> \in Spot /\ <<"replies", b>> \in Spot
  BY SpotCases
<1> HIDE DEF S
<1>9. \A w \in S : w \in given /\ Only(w, <<"replies", b>>)
  <2> TAKE w \in S
  <2>1. w \in Work /\ \E m \in replies[b] : m.work = w
    BY <1>3
  <2> QED BY <1>8, <2>1, AtCases, Elsewhere
<1>10. MovedTo(<<"net", Nobody>>, S)
  <2>1. \A w \in Work : (\E m \in net' : m.work = w) <=> w \in S \/ \E m \in net : m.work = w
    BY <1>1, <1>3
  <2>2. \A w \in Work, c \in Brokers : (\E m \in replies'[c] : m.work = w)
            <=> IF w \in S THEN <<"net", Nobody>> = <<"replies", c>> ELSE \E m \in replies[c] : m.work = w
    <3> TAKE w \in Work, c \in Brokers
    <3>1. CASE c = b
      BY <1>3, <1>4, <3>1
    <3>2. CASE c # b
      BY <1>4, <1>9, <3>2 DEF Only
    <3> QED BY <3>1, <3>2
  <2>3. \A w \in Work : /\ w \in served' <=> IF w \in S THEN <<"net", Nobody>> = <<"served", Nobody>> ELSE w \in served
                        /\ w \in dropped' <=> IF w \in S THEN <<"net", Nobody>> = <<"dropped", Nobody>> ELSE w \in dropped
    BY <1>5, <1>9 DEF Only
  <2>4. \A w \in Work, c \in Brokers :
           /\ (\E m \in batch'[c] : m.work = w)
                 <=> IF w \in S THEN <<"net", Nobody>> = <<"batch", c>> ELSE \E m \in batch[c] : m.work = w
           /\ w \in queued'[c] <=> IF w \in S THEN <<"net", Nobody>> = <<"queue", c>> ELSE w \in queued[c]
    BY <1>5, <1>9, SpotsDiffer DEF Only
  <2> QED BY <2>1, <2>2, <2>3, <2>4, MovedCases
<1>11. given' = given \cup S
  BY <1>5, <1>9
<1> QED BY <1>3, <1>6, <1>7, <1>8, <1>10, <1>11, Together

\* A broker loses what it has of a poll, and part of its queue.
LEMMA DropInv ==
    ASSUME OverlayInv, OverlayTypeOK', NEW b \in Brokers, NEW Q \in SUBSET queued[b],
           batch' = [batch EXCEPT ![b] = {}], replies' = [replies EXCEPT ![b] = {}],
           \A c \in Brokers : queued'[c] = queued[c] \ (IF c = b THEN Q ELSE {}),
           dropped' = dropped \cup Q \cup WorkOf(batch[b] \cup replies[b]),
           UNCHANGED <<net, given, served>>
    PROVE  OverlayInv'
<1> DEFINE B == batch[b] \cup replies[b]
           S == Q \cup WorkOf(B)
<1>1. \A m \in B : Held(m)
  BY DEF Held
<1>2. /\ WorkOf(B) \in SUBSET Work
      /\ \A w \in Work : w \in WorkOf(B) <=> \E m \in B : m.work = w
  BY <1>1, WorkOfFacts
<1>3. S \in SUBSET Work
  BY <1>2 DEF OverlayInv, OverlayTypeOK
<1>4. \A w \in Work : w \in S <=> \/ w \in Q
                                  \/ \E m \in batch[b] : m.work = w
                                  \/ \E m \in replies[b] : m.work = w
  BY <1>2
<1>5. \A c \in Brokers : /\ batch'[c] = IF c = b THEN {} ELSE batch[c]
                         /\ replies'[c] = IF c = b THEN {} ELSE replies[c]
  BY DEF OverlayInv, OverlayTypeOK
<1>6. BundlesInv'
  <2>1. \A c \in Brokers : batch'[c] \subseteq batch[c] /\ replies'[c] \subseteq replies[c]
    BY <1>5
  <2>2. \A m : Held(m)' => Held(m)
    BY <2>1 DEF Held
  <2> QED BY <2>2, BundlesStep DEF OverlayInv
<1>7. /\ <<"dropped", Nobody>> \in Spot
      /\ <<"batch", b>> \in Spot /\ <<"replies", b>> \in Spot /\ <<"queue", b>> \in Spot
  BY SpotCases
<1> HIDE DEF S
<1>8. \A w \in S : w \in given /\ (Only(w, <<"batch", b>>) \/ Only(w, <<"replies", b>>) \/ Only(w, <<"queue", b>>))
  <2> TAKE w \in S
  <2>1. w \in Work /\ \/ w \in queued[b]
                      \/ \E m \in batch[b] : m.work = w
                      \/ \E m \in replies[b] : m.work = w
    BY <1>3, <1>4
  <2> QED BY <1>7, <2>1, AtCases, Elsewhere
<1>9. MovedTo(<<"dropped", Nobody>>, S)
  <2>1. \A w \in S : /\ w \notin served /\ \A m \in net : m.work # w
                     /\ \A c \in Brokers : c # b => /\ \A m \in batch[c] : m.work # w
                                                    /\ \A m \in replies[c] : m.work # w
                                                    /\ w \notin queued[c]
    BY <1>8 DEF Only
  <2>2. \A w \in Work, c \in Brokers : (\E m \in batch'[c] : m.work = w) <=> w \notin S /\ \E m \in batch[c] : m.work = w
    BY <1>4, <1>5, <2>1
  <2>3. \A w \in Work, c \in Brokers : (\E m \in replies'[c] : m.work = w) <=> w \notin S /\ \E m \in replies[c] : m.work = w
    BY <1>4, <1>5, <2>1
  <2>4. \A w \in Work, c \in Brokers : w \in queued'[c] <=> w \notin S /\ w \in queued[c]
    <3> TAKE w \in Work, c \in Brokers
    <3>1. CASE c # b
      BY <2>1, <3>1
    <3>2. CASE c = b /\ w \in S
      <4>1. w \in queued[b] => w \in Q
        BY <1>4, <1>8, <3>2 DEF Only
      <4> QED BY <3>2, <4>1
    <3>3. CASE c = b /\ w \notin S
      BY <1>4, <3>3
    <3> QED BY <3>1, <3>2, <3>3
  <2>5. \A w \in Work : w \in dropped' <=> w \in S \/ w \in dropped
    BY DEF S
  <2> DEFINE d == <<"dropped", Nobody>>
  <2>6. \A w \in Work :
           /\ (\E m \in net' : m.work = w)
                 <=> IF w \in S THEN d = <<"net", Nobody>> ELSE \E m \in net : m.work = w
           /\ w \in served' <=> IF w \in S THEN d = <<"served", Nobody>> ELSE w \in served
           /\ w \in dropped' <=> IF w \in S THEN d = <<"dropped", Nobody>> ELSE w \in dropped
    BY <2>1, <2>5
  <2>7. \A c \in Brokers : d # <<"batch", c>> /\ d # <<"replies", c>> /\ d # <<"queue", c>>
    BY SpotsDiffer
  <2> HIDE DEF d
  <2>8. \A w \in Work, c \in Brokers :
           /\ (\E m \in batch'[c] : m.work = w)
                 <=> IF w \in S THEN d = <<"batch", c>> ELSE \E m \in batch[c] : m.work = w
           /\ (\E m \in replies'[c] : m.work = w)
                 <=> IF w \in S THEN d = <<"replies", c>> ELSE \E m \in replies[c] : m.work = w
           /\ w \in queued'[c] <=> IF w \in S THEN d = <<"queue", c>> ELSE w \in queued[c]
    BY <2>2, <2>3, <2>4, <2>7
  <2> QED BY ONLY <2>6, <2>8, MovedCases, SMTT(30), ZenonT(20) DEF d
<1>10. given' = given \cup S
  BY <1>8
<1> QED BY <1>3, <1>6, <1>7, <1>9, <1>10, Together

\* A handler that raises.
LEMMA RaiseInv ==
    ASSUME OverlayInv, NEW b \in Brokers, Raise(b),
           UNCHANGED <<net, memberVars, given, up, discovered, queued, worker, served, faults>>
    PROVE  OverlayInv'
<1>1. OverlayTypeOK'
  BY DEF OverlayInv, OverlayTypeOK, Raise, memberVars, BundleSet
<1>2. \A c \in Brokers : queued'[c] = queued[c] \ (IF c = b THEN {} ELSE {})
  OBVIOUS
<1>3. dropped' = dropped \cup {} \cup WorkOf(batch[b] \cup replies[b])
  BY DEF Raise
<1>4. {} \in SUBSET queued[b]
  OBVIOUS
<1> QED BY <1>1, <1>2, <1>3, <1>4, DropInv DEF Raise

\* The end of the process.
LEMMA DieInv ==
    ASSUME OverlayInv, NEW b \in Brokers, Die(b), UNCHANGED <<net, memberVars, given, served>>
    PROVE  OverlayInv'
<1>1. OverlayTypeOK'
  BY DEF OverlayInv, OverlayTypeOK, Die, memberVars, BundleSet
<1>2. \A c \in Brokers : queued'[c] = queued[c] \ (IF c = b THEN queued[b] ELSE {})
  BY DEF Die, OverlayInv, OverlayTypeOK
<1> QED BY <1>1, <1>2, DropInv DEF Die

\* One bundle of a poll is handled: its work goes on from the poll to another spot.
LEMMA HandledFacts ==
    ASSUME OverlayInv, NEW b \in Brokers, NEW m \in batch[b], Handled(b, m)
    PROVE  /\ Held(m) /\ BundleOK(m)
           /\ \A c \in Brokers : batch'[c] = IF c = b THEN batch[b] \ {m} ELSE batch[c]
           /\ batch' \in [Brokers -> SUBSET BundleSet]
           /\ m.work # Nobody =>
                 /\ m.work \in Work /\ m.work \in given /\ Only(m.work, <<"batch", b>>)
                 /\ \A k : Held(k) /\ k.work = m.work => k = m
                 /\ Taken(m)
<1>1. Held(m) /\ BundleOK(m) /\ m.work \in Work \cup {Nobody}
  BY HeldFacts DEF Held
<1>2. \A c \in Brokers : batch'[c] = IF c = b THEN batch[b] \ {m} ELSE batch[c]
  BY DEF Handled, OverlayInv, OverlayTypeOK
<1>3. batch' \in [Brokers -> SUBSET BundleSet]
  BY DEF Handled, OverlayInv, OverlayTypeOK
<1>4. ASSUME m.work # Nobody
      PROVE  /\ m.work \in given /\ Only(m.work, <<"batch", b>>)
             /\ \A k : Held(k) /\ k.work = m.work => k = m
  <2>1. <<"batch", b>> \in Spot /\ At(<<"batch", b>>, m.work)
    BY AtCases, SpotCases
  <2> QED BY <1>1, <1>4, <2>1, Elsewhere, HeldFacts
<1>5. ASSUME m.work # Nobody, NEW w \in Work, NEW c \in Brokers
      PROVE  (\E k \in batch'[c] : k.work = w) <=> w # m.work /\ \E k \in batch[c] : k.work = w
  <2>1. \A k \in batch[c] : Held(k) /\ (k.work = m.work => k = m /\ c = b)
    BY <1>4, <1>5 DEF Held, Only
  <2> QED BY <1>2, <2>1
<1>6. m.work # Nobody => Taken(m)
  BY <1>5 DEF Taken
<1> QED BY <1>1, <1>2, <1>3, <1>4, <1>6

LEMMA HandleRequestInv ==
    ASSUME OverlayInv, NEW b \in Brokers, NEW m \in batch[b], HandleRequest(b, m),
           UNCHANGED <<net, memberVars, given, up, faults>>
    PROVE  OverlayInv'
<1> DEFINE r == Bundle("ACK", b, m.source)
<1>1. /\ Held(m) /\ BundleOK(m)
      /\ \A c \in Brokers : batch'[c] = IF c = b THEN batch[b] \ {m} ELSE batch[c]
      /\ batch' \in [Brokers -> SUBSET BundleSet]
  <2>1. Handled(b, m)
    BY DEF HandleRequest
  <2> QED BY <2>1, HandledFacts, Zenon
<1>2. m.work = Nobody /\ m.source \in Members \cup Brokers
  BY <1>1 DEF HandleRequest, BundleOK, BundleSet
<1>3. BundleOK(r) /\ r.work = Nobody
  BY <1>2, NewBundle
<1> HIDE DEF r
<1>4. replies' = [replies EXCEPT ![b] = @ \cup {r}]
  BY DEF HandleRequest, r
<1>5. /\ replies' \in [Brokers -> SUBSET BundleSet]
      /\ \A c \in Brokers : replies'[c] = IF c = b THEN replies[b] \cup {r} ELSE replies[c]
  BY <1>3, <1>4 DEF OverlayInv, OverlayTypeOK, BundleOK
<1>6. OverlayTypeOK'
  <2>1. worker' \in [Brokers -> {"starting", "waiting", "notified"}]
    BY DEF OverlayInv, OverlayTypeOK, HandleRequest, Notified
  <2>2. discovered' \in [Brokers -> SUBSET (Members \cup Brokers)]
    BY <1>2 DEF OverlayInv, OverlayTypeOK, HandleRequest
  <2> QED BY <1>1, <1>5, <2>1, <2>2 DEF OverlayInv, OverlayTypeOK, HandleRequest, memberVars, BundleSet
<1> QED BY <1>1, <1>2, <1>3, <1>5, <1>6, NoWorkMoves DEF HandleRequest, memberVars

\* A query goes from the poll to the replies.
LEMMA HandleQueryInv ==
    ASSUME OverlayInv, NEW b \in Brokers, NEW m \in batch[b], HandleQuery(b, m),
           UNCHANGED <<net, memberVars, given, up, faults>>
    PROVE  OverlayInv'
<1> DEFINE w0 == m.work
           r == Carrying("LIST", b, m.source, w0)
<1> HIDE DEF w0, r
<1>1. Handled(b, m) /\ m.work # Nobody /\ m.source \in Members \cup Brokers
  BY HeldFacts DEF Held, HandleQuery, BundleOK
<1>2. /\ Held(m) /\ w0 \in Work /\ w0 \in given /\ Only(w0, <<"batch", b>>)
      /\ \A c \in Brokers : batch'[c] = IF c = b THEN batch[b] \ {m} ELSE batch[c]
      /\ batch' \in [Brokers -> SUBSET BundleSet]
      /\ \A k : Held(k) /\ k.work = w0 => k = m
      /\ Taken(m)
  BY <1>1, HandledFacts, Zenon DEF w0
<1>3. BundleOK(r) /\ r.work = w0
  BY <1>1, <1>2, NewCarrier DEF r
<1>4. replies' = [replies EXCEPT ![b] = @ \cup {r}]
  BY DEF HandleQuery, r, w0
<1>5. /\ replies' \in [Brokers -> SUBSET BundleSet]
      /\ \A c \in Brokers : replies'[c] = IF c = b THEN replies[b] \cup {r} ELSE replies[c]
  BY <1>3, <1>4 DEF OverlayInv, OverlayTypeOK, BundleOK
<1>6. UNCHANGED <<net, given, served, dropped, queued>>
  BY DEF HandleQuery
<1>7. OverlayTypeOK'
  BY <1>2, <1>5 DEF OverlayInv, OverlayTypeOK, HandleQuery, memberVars, BundleSet
<1>8. BundlesInv'
  <2>1. ASSUME NEW k, Held(k)' PROVE k = r \/ (Held(k) /\ k.work # r.work)
    <3>1. k = r \/ Held(k)
      BY <1>2, <1>5, <1>6, <2>1 DEF Held
    <3>2. ASSUME k.work = w0, k # r PROVE FALSE
      <4>1. k = m
        BY <1>2, <3>1, <3>2
      <4>2. k \notin net /\ \A c \in Brokers : k \notin batch'[c] /\ k \notin replies'[c]
        BY <1>2, <1>5, <3>2, <4>1 DEF Only
      <4> QED BY <1>6, <2>1, <4>2 DEF Held
    <3> QED BY <1>3, <3>1, <3>2
  <2> QED BY <1>3, <2>1, BundlesStepOne DEF OverlayInv
<1>9. MovedTo(<<"replies", b>>, {w0})
  <2>1. \A w \in Work, c \in Brokers : (\E k \in replies'[c] : k.work = w)
            <=> IF w \in {w0} THEN <<"replies", b>> = <<"replies", c>> ELSE \E k \in replies[c] : k.work = w
    <3> TAKE w \in Work, c \in Brokers
    <3>1. CASE c = b
      BY <1>3, <1>5, <3>1
    <3>2. CASE c # b
      BY <1>2, <1>5, <3>2 DEF Only
    <3> QED BY <3>1, <3>2
  <2>2. /\ w0 \notin served /\ w0 \notin dropped
        /\ \A c \in Brokers : w0 \notin queued[c]
    BY <1>2, InPollOnly
  <2>3. \A w \in Work :
           /\ w \in served' <=> IF w \in {w0} THEN <<"replies", b>> = <<"served", Nobody>> ELSE w \in served
           /\ w \in dropped' <=> IF w \in {w0} THEN <<"replies", b>> = <<"dropped", Nobody>> ELSE w \in dropped
    BY <1>6, <2>2
  <2>4. \A w \in Work, c \in Brokers :
           w \in queued'[c] <=> IF w \in {w0} THEN <<"replies", b>> = <<"queue", c>> ELSE w \in queued[c]
    BY <1>6, <2>2
  <2> QED BY <1>2, <1>6, <2>1, <2>3, <2>4, TakenTo DEF w0
<1>10. <<"replies", b>> \in Spot /\ {w0} \in SUBSET Work /\ given' = given \cup {w0}
  BY <1>2, <1>6, SpotCases
<1> QED BY <1>7, <1>8, <1>9, <1>10, Together

\* Submitted work goes from the poll to the queue or to a node, unless the handler raises.
LEMMA HandleWorkInv ==
    ASSUME OverlayInv, NEW b \in Brokers, NEW m \in batch[b], HandleWork(b, m),
           UNCHANGED <<net, memberVars, given, up, faults>>
    PROVE  OverlayInv'
<1> DEFINE w0 == m.work
<1> HIDE DEF w0
<1>1. m.work # Nobody
  BY HeldFacts DEF Held, HandleWork, BundleOK
<1>2. ASSUME Handled(b, m)
      PROVE  /\ w0 \in Work /\ w0 \in given /\ Only(w0, <<"batch", b>>)
             /\ \A c \in Brokers : batch'[c] = IF c = b THEN batch[b] \ {m} ELSE batch[c]
             /\ batch' \in [Brokers -> SUBSET BundleSet]
             /\ Taken(m)
  BY <1>1, <1>2, HandledFacts, Zenon DEF w0
<1>3. ASSUME Handled(b, m), UNCHANGED replies PROVE BundlesInv'
  BY <1>2, <1>3, BundlesStep DEF OverlayInv, Held
<1>4. UNCHANGED <<discovered, worker>>
  BY DEF HandleWork
<1>5. CASE Available(b, m.work) = {}
  <2>1. /\ Handled(b, m) /\ queued' = [queued EXCEPT ![b] = @ \cup {w0}]
        /\ UNCHANGED <<replies, dropped, unanswered, served>>
    BY <1>5 DEF HandleWork, w0
  <2>2. \A c \in Brokers : queued'[c] = IF c = b THEN queued[b] \cup {w0} ELSE queued[c]
    BY <2>1 DEF OverlayInv, OverlayTypeOK
  <2>3. OverlayTypeOK'
    BY <1>2, <1>4, <2>1 DEF OverlayInv, OverlayTypeOK, memberVars, BundleSet
  <2>4. MovedTo(<<"queue", b>>, {w0})
    <3>1. /\ w0 \notin served /\ w0 \notin dropped
          /\ \A c \in Brokers : ~(\E k \in replies[c] : k.work = w0) /\ w0 \notin queued[c]
      BY <1>2, <2>1, InPollOnly
    <3>2. \A w \in Work :
             /\ w \in served' <=> IF w \in {w0} THEN <<"queue", b>> = <<"served", Nobody>> ELSE w \in served
             /\ w \in dropped' <=> IF w \in {w0} THEN <<"queue", b>> = <<"dropped", Nobody>> ELSE w \in dropped
      BY <2>1, <3>1
    <3>3. \A w \in Work, c \in Brokers : (\E k \in replies'[c] : k.work = w)
             <=> IF w \in {w0} THEN <<"queue", b>> = <<"replies", c>> ELSE \E k \in replies[c] : k.work = w
      BY <2>1, <3>1
    <3>4. \A w \in Work, c \in Brokers :
             w \in queued'[c] <=> IF w \in {w0} THEN <<"queue", b>> = <<"queue", c>> ELSE w \in queued[c]
      BY <2>2, <3>1
    <3> QED BY <1>2, <2>1, <3>2, <3>3, <3>4, TakenTo DEF w0
  <2>5. <<"queue", b>> \in Spot /\ {w0} \in SUBSET Work /\ given' = given \cup {w0}
    BY <1>2, <2>1, SpotCases
  <2> QED BY <1>3, <2>1, <2>3, <2>4, <2>5, Together
<1>6. CASE Available(b, m.work) # {} /\ HrwSelectReturns
  <2>1. /\ Handled(b, m) /\ served' = served \cup {w0}
        /\ UNCHANGED <<replies, dropped, unanswered, queued>>
    BY <1>6 DEF HandleWork, Forward, w0
  <2>2. OverlayTypeOK'
    BY <1>2, <1>4, <2>1 DEF OverlayInv, OverlayTypeOK, memberVars, BundleSet
  <2>3. MovedTo(<<"served", Nobody>>, {w0})
    <3>1. /\ w0 \notin served /\ w0 \notin dropped
          /\ \A c \in Brokers : ~(\E k \in replies[c] : k.work = w0) /\ w0 \notin queued[c]
      BY <1>2, <2>1, InPollOnly
    <3>2. \A w \in Work :
             /\ w \in served' <=> IF w \in {w0} THEN <<"served", Nobody>> = <<"served", Nobody>> ELSE w \in served
             /\ w \in dropped' <=> IF w \in {w0} THEN <<"served", Nobody>> = <<"dropped", Nobody>> ELSE w \in dropped
      BY <2>1, <3>1
    <3>3. \A w \in Work, c \in Brokers :
             /\ (\E k \in replies'[c] : k.work = w)
                   <=> IF w \in {w0} THEN <<"served", Nobody>> = <<"replies", c>> ELSE \E k \in replies[c] : k.work = w
             /\ w \in queued'[c] <=> IF w \in {w0} THEN <<"served", Nobody>> = <<"queue", c>> ELSE w \in queued[c]
      BY <2>1, <3>1
    <3> QED BY <1>2, <2>1, <3>2, <3>3, TakenTo DEF w0
  <2>4. <<"served", Nobody>> \in Spot /\ {w0} \in SUBSET Work /\ given' = given \cup {w0}
    BY <1>2, <2>1, SpotCases
  <2> QED BY <1>3, <2>1, <2>2, <2>3, <2>4, Together
<1>7. CASE Available(b, m.work) # {} /\ ~HrwSelectReturns
  <2>1. Raise(b) /\ UNCHANGED <<served, queued>>
    BY <1>7 DEF HandleWork
  <2> QED BY <1>4, <2>1, RaiseInv
<1> QED BY <1>5, <1>6, <1>7

LEMMA HandleBundleInv ==
    ASSUME OverlayInv, NEW b \in Brokers, HandleBundle(b)
    PROVE  OverlayInv'
<1>1. PICK m \in batch[b] : HandleWork(b, m) \/ HandleQuery(b, m) \/ HandleRequest(b, m)
  BY DEF HandleBundle
<1>2. UNCHANGED <<net, memberVars, given, up, faults>>
  BY DEF HandleBundle
<1> QED BY <1>1, <1>2, HandleWorkInv, HandleQueryInv, HandleRequestInv

\* The queue worker sends work on, or ends the process with it.
LEMMA QueueWorkerInv ==
    ASSUME OverlayInv, NEW b \in Brokers, QueueWorker(b)
    PROVE  OverlayInv'
<1> DEFINE S == {w \in queued[b] : Available(b, w) # {}}
<1>1. UNCHANGED <<net, memberVars, given, faults>>
  BY DEF QueueWorker
<1>2. CASE Die(b) /\ UNCHANGED served
  BY <1>1, <1>2, DieInv
<1>3. CASE /\ worker' = [worker EXCEPT ![b] = "waiting"]
           /\ queued' = [queued EXCEPT ![b] = @ \ S]
           /\ served' = served \cup S
           /\ UNCHANGED <<up, discovered, batch, replies, dropped, unanswered>>
  <2>1. S \subseteq queued[b] /\ S \in SUBSET Work
    BY DEF OverlayInv, OverlayTypeOK
  <2> HIDE DEF S
  <2>2. \A c \in Brokers : queued'[c] = IF c = b THEN queued[b] \ S ELSE queued[c]
    BY <1>3 DEF OverlayInv, OverlayTypeOK
  <2>3. OverlayTypeOK'
    BY <1>1, <1>3 DEF OverlayInv, OverlayTypeOK, memberVars, BundleSet
  <2>4. BundlesInv'
    BY <1>1, <1>3, BundlesStep DEF OverlayInv, Held
  <2>5. <<"queue", b>> \in Spot /\ <<"served", Nobody>> \in Spot
    BY SpotCases
  <2>6. \A w \in S : w \in given /\ Only(w, <<"queue", b>>)
    <3> TAKE w \in S
    <3>1. w \in Work /\ w \in queued[b]
      BY <2>1
    <3> QED BY <2>5, <3>1, AtCases, Elsewhere
  <2>7. MovedTo(<<"served", Nobody>>, S)
    BY <1>1, <1>3, <2>1, <2>2, <2>6, ServedFromQueue
  <2>8. given' = given \cup S
    BY <1>1, <2>6
  <2> QED BY <2>1, <2>3, <2>4, <2>5, <2>7, <2>8, Together
<1> QED BY <1>2, <1>3 DEF QueueWorker

LEMMA CrashInv ==
    ASSUME OverlayInv, NEW b \in Brokers, Crash(b)
    PROVE  OverlayInv'
BY DieInv DEF Crash

LEMMA LoseInv ==
    ASSUME OverlayInv, Lose
    PROVE  OverlayInv'
<1>1. PICK m \in net : net' = net \ {m} /\ dropped' = dropped \cup WorkOf({m})
  BY DEF Lose
<1>2. UNCHANGED <<memberVars, given, brokerVars, served>>
  BY DEF Lose
<1>3. \A k \in net : Held(k)
  BY DEF Held
<1>4. OverlayTypeOK'
  BY <1>1, <1>2 DEF OverlayInv, OverlayTypeOK, memberVars, brokerVars, BundleSet
<1>5. BundlesInv'
  BY <1>1, <1>2, BundlesStep DEF OverlayInv, Held, brokerVars
<1> DEFINE S == WorkOf({m})
<1>6. /\ S \in SUBSET Work
      /\ \A w \in Work : w \in S <=> m.work = w
      /\ \A k \in net : k.work = m.work /\ m.work # Nobody => k = m
  BY <1>3, WorkOfFacts
<1> HIDE DEF S
<1>7. <<"net", Nobody>> \in Spot /\ <<"dropped", Nobody>> \in Spot
  BY SpotCases
<1>8. \A w \in S : w \in given /\ Only(w, <<"net", Nobody>>)
  <2> TAKE w \in S
  <2>1. w \in Work /\ \E k \in net : k.work = w
    BY <1>6
  <2> QED BY <1>7, <2>1, AtCases, Elsewhere
<1>9. MovedTo(<<"dropped", Nobody>>, S)
  <2>1. \A w \in Work : (\E k \in net' : k.work = w) <=> w \notin S /\ \E k \in net : k.work = w
    <3>1. Nobody \notin Work
      BY RecBrokerConstants
    <3> QED BY <1>1, <1>6, <3>1
  <2>2. dropped' = dropped \cup S
    BY <1>1 DEF S
  <2> QED BY <1>2, <1>8, <2>1, <2>2, MovedCases DEF Only, brokerVars
<1>10. given' = given \cup S
  BY <1>2, <1>8
<1> QED BY <1>4, <1>5, <1>6, <1>7, <1>9, <1>10, Together

-----------------------------------------------------------------------------
LEMMA OverlayInitInv == OverlayInit => OverlayInv
<1> SUFFICES ASSUME OverlayInit PROVE OverlayInv
  OBVIOUS
<1>1. OverlayTypeOK
  BY DEF OverlayInit, OverlayTypeOK, BundleSet
<1>2. \A b \in Brokers : batch[b] = {} /\ replies[b] = {} /\ queued[b] = {}
  BY DEF OverlayInit
<1>3. \A m : ~Held(m)
  BY <1>2 DEF Held, OverlayInit
<1>4. \A w, p : p \in Spot => ~At(p, w)
  <2>1. \A w : ~At(<<"net", Nobody>>, w) /\ ~At(<<"served", Nobody>>, w) /\ ~At(<<"dropped", Nobody>>, w)
    BY AtCases DEF OverlayInit
  <2>2. \A w, b : b \in Brokers => ~At(<<"batch", b>>, w) /\ ~At(<<"replies", b>>, w) /\ ~At(<<"queue", b>>, w)
    BY <1>2, AtCases
  <2>3. ASSUME NEW w, NEW p \in Spot, At(p, w) PROVE FALSE
    <3>1. \/ p \in {<<"net", Nobody>>, <<"served", Nobody>>, <<"dropped", Nobody>>}
          \/ \E b \in Brokers : p \in {<<"batch", b>>, <<"replies", b>>, <<"queue", b>>}
      BY SpotCases
    <3> QED BY <2>1, <2>2, <2>3, <3>1
  <2> QED BY <2>3
<1>5. BundlesInv
  BY <1>3 DEF BundlesInv
<1>6. SpotsInv
  BY <1>4 DEF SpotsInv, OverlayInit
<1> QED BY <1>1, <1>5, <1>6 DEF OverlayInv, OverlayInit

LEMMA OverlayNextInv == OverlayInv /\ [OverlayNext]_overlayVars => OverlayInv'
<1> SUFFICES ASSUME OverlayInv, [OverlayNext]_overlayVars PROVE OverlayInv'
  OBVIOUS
<1>1. ASSUME NEW n \in Members,
             \/ \E type \in {"ANNOUNCE", "ACK", "LIST"} : Receive(n, type)
             \/ SendHeartbeat(n) \/ RestartMember(n)
      PROVE  OverlayInv'
  BY <1>1, ReceiveInv, SendHeartbeatInv, RestartMemberInv
<1>2. ASSUME NEW c \in Clients, SaveContext(c) \/ \E w \in Work : Submit(c, w)
      PROVE  OverlayInv'
  BY <1>2, SaveContextInv, SubmitInv
<1>3. ASSUME NEW b \in Brokers, AnnounceYourself(b) \/ GetNewBundles(b) \/ SendReplies(b)
      PROVE  OverlayInv'
  BY <1>3, AnnounceYourselfInv, GetNewBundlesInv, SendRepliesInv
<1>4. ASSUME NEW b \in Brokers, HandleBundle(b) \/ QueueWorker(b) \/ Crash(b) \/ Start(b) \/ StartTasks(b)
      PROVE  OverlayInv'
  BY <1>4, HandleBundleInv, QueueWorkerInv, CrashInv, StartInv
<1>5. CASE Lose
  BY <1>5, LoseInv
<1>6. CASE UNCHANGED overlayVars
  <2>1. OverlayTypeOK'
    BY <1>6 DEF OverlayInv, OverlayTypeOK, overlayVars, memberVars, brokerVars, BundleSet
  <2> QED BY <1>6, <2>1, NoWorkMoves DEF overlayVars, memberVars, brokerVars
<1> QED BY <1>1, <1>2, <1>3, <1>4, <1>5, <1>6 DEF OverlayNext

LEMMA OverlayInvariance == OverlaySpec => []OverlayInv
BY OverlayInitInv, OverlayNextInv, PTL DEF OverlaySpec

\* The variables of the overlay have their types; in particular a member never waits
\* for a broker while it has one (_handle_discovery of node.py).
THEOREM OverlayTypes == OverlaySpec => []OverlayTypeOK
<1>1. OverlayInv => OverlayTypeOK
  BY DEF OverlayInv
<1> QED BY <1>1, OverlayInvariance, PTL

INSTANCE FiniteSetTheorems

\* A set with one element at most.
LEMMA OneOrNone ==
    ASSUME NEW S, \A x, y \in S : x = y
    PROVE  Cardinality(S) = IF S = {} THEN 0 ELSE 1
<1>1. CASE S = {}
  BY <1>1, FS_EmptySet
<1>2. CASE S # {}
  <2>1. PICK x : x \in S
    BY <1>2
  <2>2. S = {x}
    BY <2>1
  <2> QED BY <1>2, <2>2, FS_Singleton
<1> QED BY <1>1, <1>2

\* For any number of brokers, members, jobs and faults, every job, put and query that
\* was handed to dtnd is in exactly one place: no handler, poll, crash or lost bundle
\* duplicates it, and none makes it vanish unaccounted for.
THEOREM OnePlaceForWork == OverlaySpec => []WorkIsInOnePlace
<1>1. ASSUME OverlayInv, NEW w \in given
      PROVE  LET bundles == net \cup UNION {batch[b] \cup replies[b] : b \in Brokers}
             IN  Cardinality({m \in bundles : m.work = w}) + Cardinality({b \in Brokers : w \in queued[b]})
                     + Cardinality({w} \cap served) + Cardinality({w} \cap dropped) = 1
  <2> DEFINE bundles == net \cup UNION {batch[b] \cup replies[b] : b \in Brokers}
             M == {m \in bundles : m.work = w}
             Q == {b \in Brokers : w \in queued[b]}
             V == {w} \cap served
             D == {w} \cap dropped
  <2>1. w \in Work /\ w # Nobody
    BY <1>1, RecBrokerConstants DEF OverlayInv
  <2>2. PICK p \in Spot : At(p, w)
    BY <1>1 DEF OverlayInv, SpotsInv
  <2>3. Only(w, p)
    BY <1>1, <2>1, <2>2, Elsewhere
  <2>4. \A m : m \in M <=> m.work = w /\ (m \in net \/ \E b \in Brokers : m \in batch[b] \/ m \in replies[b])
    OBVIOUS
  <2> HIDE DEF M
  <2>5. \A m, k \in M : m = k
    BY <1>1, <2>1, <2>4 DEF OverlayInv, BundlesInv, Held
  <2>6. \A b, c \in Q : b = c
    BY <2>3 DEF Only
  <2>7. /\ Cardinality(M) = IF M = {} THEN 0 ELSE 1
        /\ Cardinality(Q) = IF Q = {} THEN 0 ELSE 1
        /\ Cardinality(V) = IF V = {} THEN 0 ELSE 1
        /\ Cardinality(D) = IF D = {} THEN 0 ELSE 1
    BY <2>5, <2>6, OneOrNone
  <2>8. /\ M # {} => p[1] \in {"net", "batch", "replies"}
        /\ Q # {} => p[1] = "queue"
        /\ V # {} => p[1] = "served"
        /\ D # {} => p[1] = "dropped"
    BY <2>3, <2>4 DEF Only
  <2>9. M # {} \/ Q # {} \/ V # {} \/ D # {}
    <3>1. \/ p \in {<<"net", Nobody>>, <<"served", Nobody>>, <<"dropped", Nobody>>}
          \/ \E b \in Brokers : p \in {<<"batch", b>>, <<"replies", b>>, <<"queue", b>>}
      BY <2>2, SpotCases
    <3>2. ASSUME NEW b \in Brokers, p \in {<<"batch", b>>, <<"replies", b>>, <<"queue", b>>}
          PROVE  M # {} \/ Q # {}
      <4>1. (\E m \in batch[b] : m.work = w) \/ (\E m \in replies[b] : m.work = w) \/ w \in queued[b]
        BY <2>2, <3>2, AtCases
      <4> QED BY <2>4, <4>1
    <3>3. CASE p \in {<<"net", Nobody>>, <<"served", Nobody>>, <<"dropped", Nobody>>}
      <4>1. (\E m \in net : m.work = w) \/ w \in served \/ w \in dropped
        BY <2>2, <3>3, AtCases
      <4> QED BY <2>4, <4>1
    <3> QED BY <3>1, <3>2, <3>3
  <2>10. Cardinality(M) + Cardinality(Q) + Cardinality(V) + Cardinality(D) = 1
    <3>1. /\ M # {} => Q = {} /\ V = {} /\ D = {}
          /\ Q # {} => V = {} /\ D = {}
          /\ V # {} => D = {}
      BY <2>8
    <3> HIDE DEF Q, V, D
    <3> QED BY ONLY <2>7, <2>9, <3>1, OneInAll, SMTT(30), ZenonT(30)
  <2> QED BY <2>10 DEF M
<1>2. OverlayInv => WorkIsInOnePlace
  BY <1>1 DEF WorkIsInOnePlace
<1> QED BY <1>2, OverlayInvariance, PTL
=============================================================================
