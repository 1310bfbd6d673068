--------------------------- MODULE AgentsRequests ---------------------------
(***************************************************************************)
(* Proofs about modules IdKeeper and Agents, first part: the IDs are       *)
(* unique; the invariant of the agents; and the steps of requests that     *)
(* register, unregister, look up and reply.  AgentsProofs has the others.  *)
(***************************************************************************)
EXTENDS Agents, TLAPS

\* How long the provers may take for a step.
USE SMTT(30), ZenonT(20)

(***************************************************************************)
(* The ID keeper                                                           *)
(***************************************************************************)
Entry == [life : Nat, given : BOOLEAN, bundle : Bundle]

\* What the variables hold.
IdTypeOK ==
    /\ clock \in 0..MaxClock /\ life \in Nat
    /\ data \in [Tuples -> Int] /\ \A p \in Tuples : data[p] >= -1
    /\ sent \in Seq(Entry)

\* Where an entry stands in time: the counter of the running daemon is at or
\* past its number, and a time taken from the clock lies behind the clock, by
\* at least a tick if the daemon was restarted since.
Placed(e, c, n, d) ==
    /\ e.life <= n
    /\ e.life = n => e.bundle.seq <= d[<<e.bundle.src, e.bundle.time>>]
    /\ ~e.given => e.bundle.time <= c
    /\ ~e.given /\ e.life < n => e.bundle.time < c

\* Two entries of one life differ in the ID, and so do two of different lives
\* that carry the clock's time.
Apart(e, f) ==
    /\ e.life = f.life => ~SameID(e.bundle, f.bundle)
    /\ ~e.given /\ ~f.given /\ e.life # f.life => e.bundle.time # f.bundle.time

IdInv ==
    /\ IdTypeOK
    /\ \A i \in DOMAIN sent : Placed(sent[i], clock, life, data)
    /\ \A i, j \in DOMAIN sent : i # j => Apart(sent[i], sent[j])

LEMMA IdInitInv == IdInit => IdInv
BY ClockAssumption DEF IdInit, IdInv, IdTypeOK, NoCounters, Tuples

\* A new entry is placed and apart from every entry that is placed already.
LEMMA IssueInv ==
    ASSUME IdInv, NEW src \in EIDs, NEW dst \in Addresses, NEW time \in 0..MaxClock,
           NEW given \in BOOLEAN, Issue(src, dst, time, given)
    PROVE  IdInv'
<1> DEFINE p == <<src, time>>
           new == [life |-> life, given |-> given,
                   bundle |-> [src |-> src, time |-> time, dst |-> dst, seq |-> data'[p]]]
<1>1. p \in Tuples /\ data' = [data EXCEPT ![p] = data[p] + 1] /\ sent' = Append(sent, new)
      /\ clock' = clock /\ life' = life
  BY DEF Issue, Update, Tuples, IdInv, IdTypeOK
<1> HIDE DEF p
<1>2. /\ data' \in [Tuples -> Int]
      /\ \A q \in Tuples : data'[q] >= data[q]
      /\ data'[p] = data[p] + 1
      /\ data'[p] \in Nat
  <2>1. data \in [Tuples -> Int] /\ \A q \in Tuples : data[q] >= -1
    BY DEF IdInv, IdTypeOK
  <2> QED BY <1>1, <2>1
<1>3. new \in Entry
  BY <1>2 DEF Entry, Bundle, IdInv, IdTypeOK
<1>4. IdTypeOK'
  <2>1. sent' \in Seq(Entry)
    BY <1>1, <1>3 DEF IdInv, IdTypeOK
  <2>2. \A q \in Tuples : data'[q] >= -1
    BY <1>2 DEF IdInv, IdTypeOK
  <2> QED BY <1>1, <1>2, <2>1, <2>2 DEF IdInv, IdTypeOK
<1>5. DOMAIN sent' = 1..(Len(sent) + 1) /\ DOMAIN sent = 1..Len(sent) /\ Len(sent) \in Nat
      /\ sent'[Len(sent) + 1] = new /\ \A i \in DOMAIN sent : sent'[i] = sent[i] /\ sent[i] \in Entry
  BY <1>1, <1>3 DEF IdInv, IdTypeOK
<1>6. Placed(new, clock', life', data')
  <2>1. new.life = life' /\ new.bundle.time = time /\ new.bundle.seq = data'[p]
        /\ <<new.bundle.src, new.bundle.time>> = p /\ new.given = given
    BY <1>1 DEF p
  <2>2. life' \in Nat /\ clock' \in 0..MaxClock /\ (~given => time = clock')
    BY <1>1 DEF Issue, Stamp, IdInv, IdTypeOK
  <2> HIDE DEF new
  <2> QED BY <1>2, <2>1, <2>2, ClockAssumption DEF Placed
<1>7. ASSUME NEW i \in DOMAIN sent
      PROVE  Placed(sent[i], clock', life', data') /\ Apart(sent[i], new) /\ Apart(new, sent[i])
  <2>1. Placed(sent[i], clock, life, data) /\ sent[i] \in Entry /\ sent'[i] = sent[i]
    BY <1>5 DEF IdInv
  <2>2. <<sent[i].bundle.src, sent[i].bundle.time>> \in Tuples /\ sent[i].bundle.seq \in Nat
        /\ sent[i].life \in Nat /\ sent[i].bundle.time \in 0..MaxClock
    BY <2>1 DEF Entry, Bundle, Tuples
  <2>3. Placed(sent[i], clock', life', data')
    <3> DEFINE q == <<sent[i].bundle.src, sent[i].bundle.time>>
    <3>1. data'[q] >= data[q] /\ data'[q] \in Int /\ data[q] \in Int
      BY <1>2, <2>2 DEF IdInv, IdTypeOK
    <3> HIDE DEF q
    <3>2. sent[i].life = life => sent[i].bundle.seq <= data[q]
      BY <2>1 DEF Placed, q
    <3>3. sent[i].life = life => sent[i].bundle.seq <= data'[q]
      BY <3>1, <3>2, <2>2
    <3> QED BY <1>1, <2>1, <3>3 DEF Placed, q
  <2>4. sent[i].life = life => ~SameID(sent[i].bundle, new.bundle)
    <3> SUFFICES ASSUME sent[i].life = life, SameID(sent[i].bundle, new.bundle) PROVE FALSE
      OBVIOUS
    <3>1. sent[i].bundle.seq = data'[p] /\ <<sent[i].bundle.src, sent[i].bundle.time>> = p
      BY DEF SameID, p
    <3>2. sent[i].bundle.seq <= data[p]
      BY <2>1, <3>1 DEF Placed
    <3>3. data[p] \in Int
      BY <1>1 DEF IdInv, IdTypeOK
    <3> QED BY <1>2, <3>1, <3>2, <3>3
  <2>5. ~sent[i].given /\ ~new.given /\ sent[i].life # life => sent[i].bundle.time # new.bundle.time
    BY <2>1, <2>2, ClockAssumption DEF Placed, Issue, Stamp, IdInv, IdTypeOK
  <2> QED BY <2>3, <2>4, <2>5 DEF Apart, SameID
<1>8. \A i \in DOMAIN sent' : Placed(sent'[i], clock', life', data')
  BY <1>5, <1>6, <1>7
<1>9. \A i, j \in DOMAIN sent' : i # j => Apart(sent'[i], sent'[j])
  BY <1>5, <1>7 DEF IdInv
<1> QED BY <1>4, <1>8, <1>9 DEF IdInv

LEMMA IdStepInv == IdInv /\ [IdNext]_ids => IdInv'
<1> SUFFICES ASSUME IdInv, [IdNext]_ids PROVE IdInv'
  OBVIOUS
<1>1. ASSUME NEW i \in DOMAIN sent
      PROVE  sent[i].life \in Nat /\ (~sent[i].given => sent[i].bundle.time \in 0..MaxClock)
  <2>1. sent[i] \in Entry
    BY DEF IdInv, IdTypeOK
  <2> QED BY <2>1 DEF Entry, Bundle
<1>2. CASE \E src \in EIDs, dst \in Addresses, time \in 0..MaxClock, given \in BOOLEAN :
              Issue(src, dst, time, given)
  BY <1>2, IssueInv
<1>3. CASE Tick
  <2>1. IdTypeOK'
    BY <1>3, ClockAssumption DEF Tick, IdInv, IdTypeOK
  <2>2. \A i \in DOMAIN sent : Placed(sent[i], clock', life', data')
    BY <1>1, <1>3, ClockAssumption DEF Tick, IdInv, IdTypeOK, Placed
  <2> QED BY <1>3, <2>1, <2>2 DEF Tick, IdInv
<1>4. CASE Reset
  <2>1. IdTypeOK'
    BY <1>4, ClockAssumption DEF Reset, NoCounters, Tuples, IdInv, IdTypeOK
  <2>2. \A i \in DOMAIN sent : Placed(sent[i], clock', life', data')
    BY <1>1, <1>4, ClockAssumption DEF Reset, IdInv, IdTypeOK, Placed
  <2> QED BY <1>4, <2>1, <2>2 DEF Reset, IdInv
<1>5. CASE UNCHANGED ids
  BY <1>5 DEF ids, IdInv, IdTypeOK, Placed, Apart, SameID
<1> QED BY <1>2, <1>3, <1>4, <1>5 DEF IdNext

LEMMA IdInvUnique == IdInv => UniqueIDs
BY DEF IdInv, IdTypeOK, Apart, UniqueIDs, SameID, Entry, Bundle

\* IdKeeper.Update gives every bundle an ID of its own, but for bundles with a
\* time given by the client that were sent before and after a restart.
THEOREM IDsAreUnique == IdSpec => []UniqueIDs
<1>1. IdInit => IdInv
  BY IdInitInv
<1>2. IdInv /\ [IdNext]_ids => IdInv'
  BY IdStepInv
<1>3. IdInv => UniqueIDs
  BY IdInvUnique
<1> QED BY <1>1, <1>2, <1>3, PTL DEF IdSpec

(***************************************************************************)
(* The invariant of the agents                                             *)
(***************************************************************************)

Numbers == 1..Cardinality(Addresses) + Cardinality(Handlers)
Reasons == {"unregistered", "gone", "error", "skipped", "reply"}
Record == [agent : Kinds, bundle : Bundle]
Loss == [agent : Kinds, bundle : Bundle, why : Reasons]
Delivery == [bundle : Bundle, left : SUBSET Kinds]

\* What a handler holds.
Work == [pc : {"idle", "enter", "unregister", "delete", "lookup", "collect", "reply"},
         agent : Kinds \cup {"none"}, uuid : UUIDs \cup {"none"}, eid : EIDs \cup {"none"},
         todo : Seq(Addresses), calls : SUBSET ({"one", "all", "new"} \X BOOLEAN),
         box : Boxes \cup {NoBox}, got : SUBSET Bundle]

BoxesOK ==
    /\ agents \in SUBSET Kinds
    /\ bank \in [Kinds -> [Addresses -> Boxes \cup {NoBox}]]
    /\ \A a \in Kinds, e \in Addresses : bank[a][e] # NoBox => bank[a][e][1] = a
    /\ messages \in [Boxes -> SUBSET Bundle]

\* A request for one mailbox takes nothing out before that mailbox, and the
\* mailbox a request has looked up is one of its agent's.
RequestOK(r) ==
    /\ r.pc \in {"lookup", "collect"} =>
          /\ r.agent \in Kinds /\ r.todo # << >>
          /\ r.agent # "rec" => Len(r.todo) = 1 /\ r.got = {}
    /\ r.pc = "collect" => r.box \in Boxes /\ r.box[1] = r.agent
    /\ r.pc \in {"idle", "enter", "unregister", "delete"} => r.got = {}
    /\ r.pc \in {"enter", "unregister"} => r.eid \in EIDs
    /\ r.pc = "reply" => r.agent \in Kinds

FlowOK ==
    /\ stored \subseteq Bundle /\ incoming \subseteq Bundle
    /\ delivering \subseteq Delivery
    /\ delivered \subseteq Record /\ handed \subseteq Record /\ dropped \subseteq Loss

AgentsTypes ==
    /\ BoxesOK /\ FlowOK
    /\ handler \in [Handlers -> Work] /\ \A h \in Handlers : RequestOK(handler[h])
    /\ \A u \in DOMAIN clients : clients[u] \in EIDs

\* The counter of the running daemon is at or past the number of every bundle
\* on its way to the agents, so a bundle that is sent now is none of them.
Counted(b) == b.seq <= data[<<b.src, b.time>>]

\* A bundle comes to an agent at most once in a life of the daemon.
FreshInv ==
    /\ \A b \in incoming : Counted(b)
    /\ \A d \in delivering : Counted(d.bundle)
    /\ \A r \in delivered : Counted(r.bundle)
    /\ \A b, c \in incoming : SameID(b, c) => b = c
    /\ \A b \in incoming, d \in delivering : ~SameID(b, d.bundle)
    /\ \A b \in incoming, r \in delivered : ~SameID(b, r.bundle)
    /\ \A d, e \in delivering : SameID(d.bundle, e.bundle) => d = e
    /\ \A d \in delivering, r \in delivered : r.agent \in d.left => ~SameID(d.bundle, r.bundle)

\* The places of Places(a, b), and what is where.
Place == ({"mailbox"} \X Boxes) \cup ({"request"} \X Handlers) \cup {<<"client", 0>>}
            \cup ({"lost"} \X Reasons)

Has(a, p, b) ==
    \/ p[1] = "mailbox" /\ p[2][1] = a /\ b \in messages[p[2]]
    \/ p[1] = "request" /\ handler[p[2]].agent = a /\ b \in handler[p[2]].got
    \/ p[1] = "client" /\ [agent |-> a, bundle |-> b] \in handed
    \/ p[1] = "lost" /\ [agent |-> a, bundle |-> b, why |-> p[2]] \in dropped

Accepted(a, b) == [agent |-> a, bundle |-> b] \in delivered

One(a, b) ==
    /\ \A p, q \in Place : Has(a, p, b) /\ Has(a, q, b) => p = q
    /\ Accepted(a, b) <=> \E p \in Place : Has(a, p, b)

PlacesInv == \A a \in Kinds, b \in Bundle : One(a, b)

\* Only a request for several mailboxes loses bundles by an error.
ErrorsInv == \A d \in dropped : d.why = "error" => d.agent = "rec"

\* A REST client that is being entered has its mailbox already, and an endpoint
\* whose mailbox is being removed was revoked.
ClientInv ==
    /\ ClientHasMailbox
    /\ \A h \in Handlers :
          /\ handler[h].pc = "enter" /\ handler[h].eid \notin revoked
                => bank["rest"][handler[h].eid] # NoBox
          /\ handler[h].pc = "unregister" => handler[h].eid \in revoked

AgentsInv ==
    IdInv /\ AgentsTypes /\ FreshInv /\ PlacesInv /\ ErrorsInv /\ ClientInv

\* There is a number for a first mailbox, and one for every mailbox to come.
\* RoomOK proves it from AgentsTypes; until then it is a hypothesis.
Room ==
    /\ 1 \in Numbers
    /\ \A a \in Kinds, e \in Addresses :
          bank[a][e] = NoBox => NewBox(a) \in Boxes /\ NewBox(a)[1] = a

LEMMA BoxFacts ==
    /\ NoBox \notin Boxes
    /\ \A x \in Boxes : x[1] \in Kinds
    /\ \A a \in Kinds, n \in Numbers : <<a, n>> \in Boxes /\ <<a, n>>[1] = a
    /\ \A x \in Boxes : x[2] \in Numbers
BY DEF NoBox, Boxes, Kinds, Numbers

-----------------------------------------------------------------------------
(* Places                                                                    *)

LEMMA PlaceCases ==
    /\ \A y \in Boxes : <<"mailbox", y>> \in Place
    /\ \A h \in Handlers : <<"request", h>> \in Place
    /\ <<"client", 0>> \in Place
    /\ \A w \in Reasons : <<"lost", w>> \in Place
    /\ \A p \in Place : \/ \E y \in Boxes : p = <<"mailbox", y>>
                        \/ \E h \in Handlers : p = <<"request", h>>
                        \/ p = <<"client", 0>>
                        \/ \E w \in Reasons : p = <<"lost", w>>
BY DEF Place

LEMMA PlacesDiffer ==
    /\ \A y, z : <<"mailbox", y>> # <<"request", z>>
    /\ \A q \in {<<"client", 0>>} \cup ({"lost"} \X Reasons) :
          \A z : q # <<"mailbox", z>> /\ q # <<"request", z>>
OBVIOUS

\* The places a request takes bundles from, and those it brings them to.
LEMMA TakenFrom ==
    ASSUME NEW x, NEW h, NEW p \in {<<"mailbox", x>>, <<"request", h>>}
    PROVE  /\ \A y : y # x => <<"mailbox", y>> # p
           /\ \A k : k # h => <<"request", k>> # p
           /\ <<"client", 0>> # p
           /\ \A w : <<"lost", w>> # p
OBVIOUS

LEMMA BroughtTo ==
    ASSUME NEW x \in Boxes, NEW h \in Handlers,
           NEW d \in {<<"mailbox", x>>, <<"request", h>>, <<"client", 0>>} \cup ({"lost"} \X Reasons)
    PROVE  /\ d \in Place
           /\ \A y \in Boxes : d = <<"mailbox", y>> => y = x
           /\ \A k \in Handlers : d = <<"request", k>> => k = h
BY DEF Place

\* A request at its beginning.
LEMMA ServeOK ==
    ASSUME NEW pc \in {"enter", "unregister", "delete", "lookup"}, NEW a \in Kinds,
           NEW u \in UUIDs \cup {"none"}, NEW e \in EIDs \cup {"none"}
    PROVE  Serve(pc, a, u, e, << >>, {}) \in Work
BY DEF Serve, Work

\* A bundle stays where it is, or goes from its one place to another.
LEMMA OneStays ==
    ASSUME NEW a, NEW b, One(a, b), Accepted(a, b)' <=> Accepted(a, b),
           \A p \in Place : Has(a, p, b)' <=> Has(a, p, b)
    PROVE  One(a, b)'
BY DEF One

LEMMA OneGoes ==
    ASSUME NEW a, NEW b, One(a, b), Accepted(a, b)' <=> Accepted(a, b),
           NEW p \in Place, Has(a, p, b),
           NEW q \in Place, \A r \in Place : Has(a, r, b)' <=> r = q
    PROVE  One(a, b)'
BY DEF One

\* What the history records of agent a, after it lost a set of bundles.
LEMMA LostRecords ==
    ASSUME NEW c, NEW S, NEW v
    PROVE  \A a, b, w : [agent |-> a, bundle |-> b, why |-> w] \in Lost(c, S, v)
                            <=> a = c /\ b \in S /\ w = v
BY ZenonT(30) DEF Lost

\* The requests hold what they held.
SameGot ==
    \A k \in Handlers : /\ handler'[k].got = handler[k].got
                        /\ handler[k].got # {} => handler'[k].agent = handler[k].agent

\* A step that moves nothing.
LEMMA NothingMoves ==
    ASSUME PlacesInv, SameGot, UNCHANGED <<messages, handed, dropped, delivered>>
    PROVE  PlacesInv'
<1> SUFFICES ASSUME NEW a \in Kinds, NEW b \in Bundle PROVE One(a, b)'
  BY DEF PlacesInv
<1>1. One(a, b) /\ (Accepted(a, b)' <=> Accepted(a, b))
  BY DEF PlacesInv, Accepted
<1>2. \A h \in Handlers : Has(a, <<"request", h>>, b)' <=> Has(a, <<"request", h>>, b)
  BY DEF Has, SameGot
<1>3. /\ \A y \in Boxes : Has(a, <<"mailbox", y>>, b)' <=> Has(a, <<"mailbox", y>>, b)
      /\ Has(a, <<"client", 0>>, b)' <=> Has(a, <<"client", 0>>, b)
      /\ \A w \in Reasons : Has(a, <<"lost", w>>, b)' <=> Has(a, <<"lost", w>>, b)
  BY DEF Has
<1>4. \A p \in Place : Has(a, p, b)' <=> Has(a, p, b)
  BY <1>2, <1>3, PlaceCases
<1> QED BY <1>1, <1>4, OneStays

\* A mailbox loses some of its bundles.
LEMMA MailboxLoses ==
    ASSUME PlacesInv, BoxesOK, SameGot, UNCHANGED <<handed, delivered>>,
           NEW x \in Boxes, NEW out \in SUBSET messages[x], NEW v \in Reasons,
           messages' = [messages EXCEPT ![x] = messages[x] \ out],
           dropped' = dropped \cup Lost(x[1], out, v)
    PROVE  PlacesInv'
<1> SUFFICES ASSUME NEW a \in Kinds, NEW b \in Bundle PROVE One(a, b)'
  BY DEF PlacesInv
<1>1. One(a, b) /\ (Accepted(a, b)' <=> Accepted(a, b))
  BY DEF PlacesInv, Accepted
<1>2. \A h \in Handlers : Has(a, <<"request", h>>, b)' <=> Has(a, <<"request", h>>, b)
  BY DEF Has, SameGot
<1>3. \A y \in Boxes : Has(a, <<"mailbox", y>>, b)'
                          <=> Has(a, <<"mailbox", y>>, b) /\ ~(y = x /\ b \in out)
  BY DEF Has, BoxesOK
<1>4. Has(a, <<"client", 0>>, b)' <=> Has(a, <<"client", 0>>, b)
  BY DEF Has
<1>5. \A w \in Reasons : Has(a, <<"lost", w>>, b)'
                            <=> Has(a, <<"lost", w>>, b) \/ (w = v /\ x[1] = a /\ b \in out)
  BY LostRecords DEF Has
<1>6. CASE x[1] = a /\ b \in out
  <2>1. Has(a, <<"mailbox", x>>, b)
    BY <1>6 DEF Has
  <2>2. \A r \in Place : Has(a, r, b) => r = <<"mailbox", x>>
    BY <1>1, <2>1, PlaceCases DEF One
  <2>3. \A y \in Boxes : ~Has(a, <<"mailbox", y>>, b)'
    BY <1>3, <1>6, <2>2, PlaceCases, ZenonT(30)
  <2>4. \A h \in Handlers : ~Has(a, <<"request", h>>, b)'
    BY <1>2, <2>2, PlaceCases, ZenonT(30)
  <2>5. ~Has(a, <<"client", 0>>, b)'
    BY <1>4, <2>2, PlaceCases
  <2>6. \A w \in Reasons : Has(a, <<"lost", w>>, b)' <=> w = v
    BY <1>5, <1>6, <2>2, PlaceCases, ZenonT(30)
  <2>7. \A r \in Place : Has(a, r, b)' <=> r = <<"lost", v>>
    BY <2>3, <2>4, <2>5, <2>6, PlaceCases
  <2> QED BY <1>1, <2>1, <2>7, OneGoes, PlaceCases, ZenonT(30)
<1>7. CASE ~(x[1] = a /\ b \in out)
  <2>1. \A p \in Place : Has(a, p, b)' <=> Has(a, p, b)
    <3>1. \A y \in Boxes : Has(a, <<"mailbox", y>>, b)' <=> Has(a, <<"mailbox", y>>, b)
      BY <1>3, <1>7 DEF Has
    <3>2. \A w \in Reasons : Has(a, <<"lost", w>>, b)' <=> Has(a, <<"lost", w>>, b)
      BY <1>5, <1>7, ZenonT(30)
    <3> QED BY <1>2, <1>4, <3>1, <3>2, PlaceCases
  <2> QED BY <1>1, <2>1, OneStays
<1> QED BY <1>6, <1>7

\* What a request has taken out is in no mailbox.
LEMMA TakenOut ==
    ASSUME PlacesInv, AgentsTypes, NEW x \in Boxes, NEW h \in Handlers, handler[h].agent = x[1]
    PROVE  messages[x] \cap handler[h].got = {}
<1> SUFFICES ASSUME NEW b \in messages[x] \cap handler[h].got PROVE FALSE
  OBVIOUS
<1>1. b \in Bundle /\ x[1] \in Kinds
  BY BoxFacts DEF AgentsTypes, BoxesOK
<1>2. One(x[1], b)
  BY <1>1 DEF PlacesInv
<1>3. Has(x[1], <<"mailbox", x>>, b) /\ Has(x[1], <<"request", h>>, b)
  BY DEF Has
<1>4. <<"mailbox", x>> = <<"request", h>>
  BY <1>2, <1>3, PlaceCases DEF One
<1> QED BY <1>4

\* A request h of agent x[1] puts what it holds and what is in mailbox x where
\* "dest" says.
MovesTo(x, h, held, dest) ==
    /\ x \in Boxes /\ h \in Handlers /\ handler[h].agent = x[1]
    /\ held = messages[x] \cup handler[h].got
    /\ dest \in [Bundle -> {<<"mailbox", x>>, <<"request", h>>, <<"client", 0>>}
                               \cup ({"lost"} \X Reasons)]
    /\ UNCHANGED delivered
    /\ messages' = [messages EXCEPT ![x] = {b \in held : dest[b] = <<"mailbox", x>>}]
    /\ \A k \in Handlers : k # h => handler'[k] = handler[k]
    /\ handler'[h].got = {b \in held : dest[b] = <<"request", h>>}
    /\ handler'[h].got # {} => handler'[h].agent = x[1]
    /\ \A a, b : [agent |-> a, bundle |-> b] \in handed'
                     <=> \/ [agent |-> a, bundle |-> b] \in handed
                         \/ a = x[1] /\ b \in held /\ dest[b] = <<"client", 0>>
    /\ \A a, b, w : [agent |-> a, bundle |-> b, why |-> w] \in dropped'
                        <=> \/ [agent |-> a, bundle |-> b, why |-> w] \in dropped
                            \/ a = x[1] /\ b \in held /\ dest[b] = <<"lost", w>>

LEMMA RequestMoves ==
    ASSUME PlacesInv, AgentsTypes, NEW x, NEW h, NEW held, NEW dest, MovesTo(x, h, held, dest)
    PROVE  PlacesInv'
<1> USE DEF MovesTo
<1> SUFFICES ASSUME NEW a \in Kinds, NEW b \in Bundle PROVE One(a, b)'
  BY DEF PlacesInv
<1>1. One(a, b) /\ (Accepted(a, b)' <=> Accepted(a, b))
  BY DEF PlacesInv, Accepted
<1> DEFINE moves == a = x[1] /\ b \in held
<1>2. \A y \in Boxes : Has(a, <<"mailbox", y>>, b)'
                          <=> IF y = x THEN moves /\ dest[b] = <<"mailbox", x>>
                                       ELSE Has(a, <<"mailbox", y>>, b)
  BY DEF Has, AgentsTypes, BoxesOK
<1>3. \A k \in Handlers : Has(a, <<"request", k>>, b)'
                             <=> IF k = h THEN moves /\ dest[b] = <<"request", h>>
                                          ELSE Has(a, <<"request", k>>, b)
  BY DEF Has
<1>4. Has(a, <<"client", 0>>, b)'
         <=> Has(a, <<"client", 0>>, b) \/ (moves /\ dest[b] = <<"client", 0>>)
  <2>1. [agent |-> a, bundle |-> b] \in handed'
           <=> [agent |-> a, bundle |-> b] \in handed \/ (moves /\ dest[b] = <<"client", 0>>)
    BY Zenon
  <2> HIDE DEF moves
  <2> QED BY <2>1 DEF Has
<1>5. \A w \in Reasons : Has(a, <<"lost", w>>, b)'
                            <=> Has(a, <<"lost", w>>, b) \/ (moves /\ dest[b] = <<"lost", w>>)
  <2>1. \A w : [agent |-> a, bundle |-> b, why |-> w] \in dropped'
                   <=> \/ [agent |-> a, bundle |-> b, why |-> w] \in dropped
                       \/ moves /\ dest[b] = <<"lost", w>>
    BY Zenon
  <2> HIDE DEF moves
  <2> QED BY <2>1 DEF Has
<1>6. moves <=> Has(a, <<"mailbox", x>>, b) \/ Has(a, <<"request", h>>, b)
  BY DEF Has
<1> HIDE DEF moves
<1>7. CASE moves
  <2>1. PICK p \in {<<"mailbox", x>>, <<"request", h>>} : Has(a, p, b)
    BY ONLY <1>6, <1>7, SMTT(30), ZenonT(20)
  <2>2. p \in Place /\ \A r \in Place : Has(a, r, b) => r = p
    <3>1. p \in Place
      BY <2>1, PlaceCases
    <3> QED BY <1>1, <2>1, <3>1 DEF One
  <2>3. /\ dest[b] \in Place
        /\ \A y \in Boxes : dest[b] = <<"mailbox", y>> => y = x
        /\ \A k \in Handlers : dest[b] = <<"request", k>> => k = h
    <3> DEFINE d == dest[b]
    <3>1. d \in {<<"mailbox", x>>, <<"request", h>>, <<"client", 0>>} \cup ({"lost"} \X Reasons)
      OBVIOUS
    <3> HIDE DEF d
    <3>2. /\ d \in Place
          /\ \A y \in Boxes : d = <<"mailbox", y>> => y = x
          /\ \A k \in Handlers : d = <<"request", k>> => k = h
      BY <3>1, BroughtTo
    <3> QED BY <3>2 DEF d
  <2>4. \A y \in Boxes : Has(a, <<"mailbox", y>>, b)' <=> <<"mailbox", y>> = dest[b]
    <3>1. \A y \in Boxes : y # x => <<"mailbox", y>> # p
      BY <2>1, TakenFrom
    <3>2. \A y \in Boxes : y # x => ~Has(a, <<"mailbox", y>>, b)
      BY <2>2, <3>1, PlaceCases
    <3> QED BY <1>2, <1>7, <2>3, <3>2, ZenonT(30)
  <2>5. \A k \in Handlers : Has(a, <<"request", k>>, b)' <=> <<"request", k>> = dest[b]
    <3>1. \A k \in Handlers : k # h => <<"request", k>> # p
      BY <2>1, TakenFrom
    <3>2. \A k \in Handlers : k # h => ~Has(a, <<"request", k>>, b)
      BY <2>2, <3>1, PlaceCases
    <3> QED BY <1>3, <1>7, <2>3, <3>2, ZenonT(30)
  <2>6. Has(a, <<"client", 0>>, b)' <=> <<"client", 0>> = dest[b]
    <3>1. <<"client", 0>> # p
      BY <2>1, TakenFrom
    <3> QED BY <1>4, <1>7, <2>2, <3>1, PlaceCases
  <2>7. \A w \in Reasons : Has(a, <<"lost", w>>, b)' <=> <<"lost", w>> = dest[b]
    <3>1. \A w \in Reasons : <<"lost", w>> # p
      BY <2>1, TakenFrom
    <3> QED BY <1>5, <1>7, <2>2, <3>1, PlaceCases, ZenonT(30)
  <2>8. \A r \in Place : Has(a, r, b)' <=> r = dest[b]
    BY ONLY <2>4, <2>5, <2>6, <2>7, PlaceCases, SMTT(30), ZenonT(20)
  <2> QED BY <1>1, <2>1, <2>2, <2>3, <2>8, OneGoes
<1>8. CASE ~moves
  <2>1. /\ \A y \in Boxes : Has(a, <<"mailbox", y>>, b)' <=> Has(a, <<"mailbox", y>>, b)
        /\ \A k \in Handlers : Has(a, <<"request", k>>, b)' <=> Has(a, <<"request", k>>, b)
    BY <1>2, <1>3, <1>6, <1>8
  <2>2. \A p \in Place : Has(a, p, b)' <=> Has(a, p, b)
    BY <1>4, <1>5, <1>8, <2>1, PlaceCases
  <2> QED BY <1>1, <2>2, OneStays
<1> QED BY <1>7, <1>8

-----------------------------------------------------------------------------
(* The steps of requests                                                     *)

LEMMA IdleFacts ==
    /\ Idle \in Work /\ RequestOK(Idle) /\ Idle.pc = "idle" /\ Idle.got = {}
<1>1. << >> \in Seq(Addresses)
  OBVIOUS
<1>2. Idle = [pc |-> "idle", agent |-> "none", uuid |-> "none", eid |-> "none", todo |-> << >>,
              calls |-> {}, box |-> NoBox, got |-> {}]
  BY DEF Idle, Serve
<1>3. Idle \in Work
  BY <1>1, <1>2 DEF Work
<1>4. Idle.pc = "idle" /\ Idle.got = {}
  BY <1>2
<1>5. RequestOK(Idle)
  BY <1>4 DEF RequestOK
<1> QED BY <1>3, <1>4, <1>5

LEMMA FinishOK ==
    ASSUME AgentsTypes, NEW h \in Handlers, Finish(h)
    PROVE  /\ handler' \in [Handlers -> Work] /\ \A k \in Handlers : RequestOK(handler'[k])
           /\ handler'[h] = Idle /\ \A k \in Handlers : k # h => handler'[k] = handler[k]
BY IdleFacts DEF Finish, AgentsTypes

\* The clients keep their mailboxes, and no request begins that could take one.
LEMMA ClientKept ==
    ASSUME AgentsTypes, ClientInv, UNCHANGED clients, revoked \subseteq revoked',
           \A e \in EIDs : bank["rest"][e] # NoBox => bank'["rest"][e] # NoBox \/ e \in revoked',
           \A k \in Handlers :
              handler'[k].pc \in {"enter", "unregister"}
                 => handler'[k].pc = handler[k].pc /\ handler'[k].eid = handler[k].eid
    PROVE  ClientInv'
<1>1. \A u \in DOMAIN clients : clients[u] \in EIDs
  BY DEF AgentsTypes
<1>2. \A k \in Handlers : handler[k].pc = "enter" => handler[k].eid \in EIDs
  BY DEF AgentsTypes, RequestOK
<1>3. ClientHasMailbox'
  BY <1>1 DEF ClientInv, ClientHasMailbox
<1>4. ASSUME NEW k \in Handlers
      PROVE  /\ handler'[k].pc = "enter" /\ handler'[k].eid \notin revoked'
                   => bank'["rest"][handler'[k].eid] # NoBox
             /\ handler'[k].pc = "unregister" => handler'[k].eid \in revoked'
  BY <1>2, <1>4 DEF ClientInv
<1> QED BY <1>3, <1>4 DEF ClientInv

LEMMA RegisterOK ==
    ASSUME Room, AgentsTypes, NEW a \in Kinds, NEW e \in Addresses, Register(a, e)
    PROVE  /\ bank' \in [Kinds -> [Addresses -> Boxes \cup {NoBox}]]
           /\ \A c \in Kinds, y \in Addresses : bank'[c][y] # NoBox => bank'[c][y][1] = c
           /\ bank'[a][e] # NoBox
           /\ \A c \in Kinds, y \in Addresses : bank[c][y] # NoBox => bank'[c][y] # NoBox
<1>1. /\ bank \in [Kinds -> [Addresses -> Boxes \cup {NoBox}]]
      /\ \A c \in Kinds, y \in Addresses : bank[c][y] # NoBox => bank[c][y][1] = c
  BY DEF AgentsTypes, BoxesOK
<1>2. CASE bank[a][e] = NoBox
  <2> DEFINE x == NewBox(a)
  <2>1. x \in Boxes /\ x[1] = a /\ x # NoBox
    BY <1>2, BoxFacts DEF Room
  <2>2. bank' = [bank EXCEPT ![a][e] = x]
    BY <1>2 DEF Register
  <2> HIDE DEF x
  <2>3. bank' \in [Kinds -> [Addresses -> Boxes \cup {NoBox}]]
    BY <1>1, <2>1, <2>2
  <2>4. \A c \in Kinds, y \in Addresses :
           bank'[c][y] = IF c = a /\ y = e THEN x ELSE bank[c][y]
    BY <1>1, <2>2
  <2> QED BY <1>1, <2>1, <2>3, <2>4
<1>3. CASE bank[a][e] # NoBox
  BY <1>1, <1>3 DEF Register
<1> QED BY <1>2, <1>3

LEMMA LeaveOK ==
    ASSUME NEW x, NEW contents, NEW lost, Leave(x, contents, lost)
    PROVE  \E keep \in {contents, {}} :
              /\ messages' = [messages EXCEPT ![x] = keep]
              /\ dropped' = dropped \cup lost \cup Lost(x[1], contents \ keep, "unregistered")
<1>1. CASE InUse(x, bank', handler')
  <2>1. Lost(x[1], contents \ contents, "unregistered") = {}
    BY DEF Lost
  <2> QED BY <1>1, <2>1 DEF Leave
<1>2. CASE ~InUse(x, bank', handler')
  <2>1. contents \ {} = contents
    OBVIOUS
  <2> QED BY <1>2, <2>1 DEF Leave
<1> QED BY <1>1, <1>2

\* Losses of known bundles, none by an error.
LEMMA LossesOK ==
    ASSUME FlowOK, ErrorsInv, NEW c \in Kinds, NEW S \in SUBSET Bundle, NEW v \in Reasons,
           v = "error" => c = "rec" \/ S = {},
           dropped' = dropped \cup Lost(c, S, v)
    PROVE  dropped' \subseteq Loss /\ ErrorsInv'
<1>1. Lost(c, S, v) \subseteq Loss
  BY DEF Lost, Loss
<1>2. \A d \in Lost(c, S, v) : d.why = "error" => d.agent = "rec"
  BY DEF Lost
<1> QED BY <1>1, <1>2 DEF FlowOK, ErrorsInv

LEMMA UnregisterOK ==
    ASSUME AgentsTypes, PlacesInv, ErrorsInv, NEW a \in Kinds, NEW e \in Addresses,
           Unregister(a, e), SameGot, UNCHANGED <<agents, handed, delivered>>
    PROVE  /\ BoxesOK' /\ PlacesInv' /\ dropped' \subseteq Loss /\ ErrorsInv'
           /\ \A c \in Kinds, y \in Addresses : c # a \/ y # e => bank'[c][y] = bank[c][y]
<1>1. /\ bank \in [Kinds -> [Addresses -> Boxes \cup {NoBox}]]
      /\ \A c \in Kinds, y \in Addresses : bank[c][y] # NoBox => bank[c][y][1] = c
      /\ messages \in [Boxes -> SUBSET Bundle]
  BY DEF AgentsTypes, BoxesOK
<1>2. CASE bank[a][e] = NoBox
  BY <1>1, <1>2, NothingMoves DEF Unregister, BoxesOK, AgentsTypes, FlowOK, ErrorsInv
<1>3. CASE bank[a][e] # NoBox
  <2> DEFINE x == bank[a][e]
             contents == messages[x]
  <2>1. x \in Boxes /\ x[1] = a /\ contents \in SUBSET Bundle
    BY <1>1, <1>3
  <2>2. bank' = [bank EXCEPT ![a][e] = NoBox] /\ Leave(x, contents, {})
    BY <1>3 DEF Unregister
  <2>3. /\ bank' \in [Kinds -> [Addresses -> Boxes \cup {NoBox}]]
        /\ \A c \in Kinds, y \in Addresses :
              bank'[c][y] = IF c = a /\ y = e THEN NoBox ELSE bank[c][y]
    BY <1>1, <2>2
  <2>4. PICK keep \in {contents, {}} :
              /\ messages' = [messages EXCEPT ![x] = keep]
              /\ dropped' = dropped \cup {} \cup Lost(x[1], contents \ keep, "unregistered")
    BY <2>2, LeaveOK, ZenonT(30)
  <2> DEFINE out == contents \ keep
  <2>5. out \in SUBSET contents /\ out \in SUBSET Bundle /\ keep = contents \ out
    BY <2>1, <2>4
  <2>6. dropped' = dropped \cup Lost(x[1], out, "unregistered") /\ "unregistered" \in Reasons
    BY <2>4 DEF Reasons
  <2>7. messages' \in [Boxes -> SUBSET Bundle]
    BY <1>1, <2>1, <2>4
  <2>8. BoxesOK'
    BY <1>1, <2>3, <2>7 DEF BoxesOK, AgentsTypes
  <2>9. messages' = [messages EXCEPT ![x] = messages[x] \ out]
    BY <2>4, <2>5, ZenonT(30)
  <2>10. BoxesOK /\ FlowOK
    BY DEF AgentsTypes
  <2> HIDE DEF x, out
  <2>11. PlacesInv'
    BY <2>1, <2>5, <2>6, <2>9, <2>10, MailboxLoses, ZenonT(30) DEF contents
  <2>12. dropped' \subseteq Loss /\ ErrorsInv'
    BY <2>1, <2>5, <2>6, <2>10, LossesOK
  <2> QED BY <2>3, <2>8, <2>11, <2>12
<1> QED BY <1>2, <1>3

\* What a step has to keep, but for the IDs.
StepOK == AgentsTypes' /\ PlacesInv' /\ ErrorsInv' /\ ClientInv'

LEMMA BeginFacts ==
    ASSUME NEW h \in Handlers, handler[h] = Idle, handler'[h].got = {},
           \A k \in Handlers : k # h => handler'[k] = handler[k]
    PROVE  SameGot
BY IdleFacts DEF SameGot

LEMMA RestRegisterStep ==
    ASSUME Room, AgentsInv, NEW h \in Handlers, NEW u \in UUIDs, NEW e \in EIDs, RestRegister(h, u, e)
    PROVE  StepOK
<1> DEFINE r == Serve("enter", "rest", u, e, << >>, {})
<1>1. r \in Work /\ RequestOK(r) /\ r.pc = "enter" /\ r.eid = e /\ r.got = {}
  <2>1. r.pc = "enter" /\ r.eid = e /\ r.got = {}
    BY DEF Serve
  <2>2. r \in Work
    BY ServeOK DEF Kinds
  <2> HIDE DEF r
  <2> QED BY <2>1, <2>2 DEF RequestOK
<1>2. handler' = [handler EXCEPT ![h] = r] /\ handler[h] = Idle /\ Register("rest", e)
      /\ UNCHANGED <<agents, messages, clients, flow, history>>
  BY DEF RestRegister, RestBegin
<1> HIDE DEF r
<1>3. AgentsTypes /\ PlacesInv /\ ErrorsInv /\ ClientInv /\ e \in Addresses /\ "rest" \in Kinds
  BY AddressesAssumption DEF AgentsInv, Kinds
<1>4. /\ handler' \in [Handlers -> Work] /\ \A k \in Handlers : RequestOK(handler'[k])
      /\ handler'[h] = r /\ \A k \in Handlers : k # h => handler'[k] = handler[k]
  BY <1>1, <1>2, <1>3 DEF AgentsTypes
<1>5. /\ bank' \in [Kinds -> [Addresses -> Boxes \cup {NoBox}]]
      /\ \A c \in Kinds, y \in Addresses : bank'[c][y] # NoBox => bank'[c][y][1] = c
      /\ bank'["rest"][e] # NoBox
      /\ \A c \in Kinds, y \in Addresses : bank[c][y] # NoBox => bank'[c][y] # NoBox
  BY <1>2, <1>3, RegisterOK
<1>6. AgentsTypes'
  BY <1>2, <1>3, <1>4, <1>5 DEF AgentsTypes, BoxesOK, FlowOK, flow, history
<1>7. PlacesInv' /\ ErrorsInv'
  <2>1. SameGot
    BY <1>1, <1>2, <1>4, BeginFacts
  <2> QED BY <1>2, <1>3, <2>1, NothingMoves DEF history, ErrorsInv
<1>8. ClientInv'
  <2>1. \A y \in EIDs : bank["rest"][y] # NoBox => bank'["rest"][y] # NoBox
    BY <1>3, <1>5, AddressesAssumption
  <2>2. \A v \in DOMAIN clients : clients[v] \in EIDs
    BY <1>3 DEF AgentsTypes
  <2>3. ClientHasMailbox'
    BY <1>2, <1>3, <2>1, <2>2 DEF ClientInv, ClientHasMailbox, history
  <2>4. \A k \in Handlers : handler[k].pc = "enter" => handler[k].eid \in EIDs
    BY <1>3 DEF AgentsTypes, RequestOK
  <2>5. ASSUME NEW k \in Handlers
        PROVE  /\ handler'[k].pc = "enter" /\ handler'[k].eid \notin revoked'
                     => bank'["rest"][handler'[k].eid] # NoBox
               /\ handler'[k].pc = "unregister" => handler'[k].eid \in revoked'
    BY <1>1, <1>2, <1>3, <1>4, <1>5, <2>1, <2>4 DEF ClientInv, history
  <2> QED BY <2>3, <2>5 DEF ClientInv
<1> QED BY <1>6, <1>7, <1>8 DEF StepOK

LEMMA RestEnterStep ==
    ASSUME AgentsInv, NEW h \in Handlers, RestEnter(h)
    PROVE  StepOK
<1> DEFINE v == handler[h].uuid
           e == handler[h].eid
<1>1. /\ handler[h].pc = "enter" /\ Finish(h)
      /\ clients' = [u \in DOMAIN clients \cup {v} |-> IF u = v THEN e ELSE clients[u]]
      /\ UNCHANGED <<agents, bank, messages, flow, history>>
  BY DEF RestEnter
<1>2. AgentsTypes /\ PlacesInv /\ ErrorsInv /\ ClientInv
  BY DEF AgentsInv
<1>3. /\ handler' \in [Handlers -> Work] /\ \A k \in Handlers : RequestOK(handler'[k])
      /\ handler'[h] = Idle /\ \A k \in Handlers : k # h => handler'[k] = handler[k]
  BY <1>1, <1>2, FinishOK
<1>4. e \in EIDs /\ handler[h].got = {}
  BY <1>1, <1>2 DEF AgentsTypes, RequestOK
<1>5. \A u \in DOMAIN clients' : clients'[u] = IF u = v THEN e ELSE clients[u]
  BY <1>1
<1>6. \A u \in DOMAIN clients' : u # v => u \in DOMAIN clients
  BY <1>1
<1> HIDE DEF v, e
<1>7. AgentsTypes'
  <2>1. \A u \in DOMAIN clients' : clients'[u] \in EIDs
    BY <1>2, <1>4, <1>5, <1>6 DEF AgentsTypes
  <2> QED BY <1>1, <1>2, <1>3, <2>1, ZenonT(30) DEF AgentsTypes, BoxesOK, FlowOK, flow, history
<1>8. PlacesInv' /\ ErrorsInv'
  <2>1. SameGot
    BY <1>3, <1>4, IdleFacts DEF SameGot
  <2> QED BY <1>1, <1>2, <2>1, NothingMoves DEF history, ErrorsInv
<1>9. ClientInv'
  <2>1. e \notin revoked => bank["rest"][e] # NoBox
    BY <1>1, <1>2 DEF ClientInv, e
  <2>2. ClientHasMailbox'
    BY <1>1, <1>2, <1>5, <1>6, <2>1 DEF ClientInv, ClientHasMailbox, history
  <2>3. ASSUME NEW k \in Handlers
        PROVE  /\ handler'[k].pc = "enter" /\ handler'[k].eid \notin revoked'
                     => bank'["rest"][handler'[k].eid] # NoBox
               /\ handler'[k].pc = "unregister" => handler'[k].eid \in revoked'
    BY <1>1, <1>2, <1>3, IdleFacts DEF ClientInv, history
  <2> QED BY <2>2, <2>3 DEF ClientInv
<1> QED BY <1>7, <1>8, <1>9 DEF StepOK

LEMMA RestUnregisterStep ==
    ASSUME AgentsInv, NEW h \in Handlers, NEW u \in UUIDs, RestUnregister(h, u)
    PROVE  StepOK
<1> DEFINE e == clients[u]
           r == Serve("unregister", "rest", u, e, << >>, {})
<1>1. AgentsTypes /\ PlacesInv /\ ErrorsInv /\ ClientInv
  BY DEF AgentsInv
<1>2. e \in EIDs
  BY <1>1 DEF AgentsTypes, RestUnregister
<1>3. r \in Work /\ RequestOK(r) /\ r.pc = "unregister" /\ r.eid = e /\ r.got = {}
  <2>1. r.pc = "unregister" /\ r.eid = e /\ r.got = {}
    BY DEF Serve
  <2>2. r \in Work
    BY <1>2, ServeOK DEF Kinds
  <2> HIDE DEF r
  <2> QED BY <1>2, <2>1, <2>2 DEF RequestOK
<1>4. handler' = [handler EXCEPT ![h] = r] /\ handler[h] = Idle /\ revoked' = revoked \cup {e}
      /\ UNCHANGED <<boxes, flow, delivered, handed, dropped>>
  BY DEF RestUnregister, RestBegin
<1> HIDE DEF r, e
<1>5. /\ handler' \in [Handlers -> Work] /\ \A k \in Handlers : RequestOK(handler'[k])
      /\ handler'[h] = r /\ \A k \in Handlers : k # h => handler'[k] = handler[k]
  BY <1>1, <1>3, <1>4 DEF AgentsTypes
<1>6. AgentsTypes'
  BY <1>1, <1>4, <1>5 DEF AgentsTypes, BoxesOK, FlowOK, flow, boxes
<1>7. PlacesInv' /\ ErrorsInv'
  <2>1. SameGot
    BY <1>3, <1>4, <1>5, BeginFacts
  <2> QED BY <1>1, <1>4, <2>1, NothingMoves DEF boxes, ErrorsInv
<1>8. ClientInv'
  <2>1. ClientHasMailbox'
    BY <1>1, <1>4 DEF ClientInv, ClientHasMailbox, boxes
  <2>2. ASSUME NEW k \in Handlers
        PROVE  /\ handler'[k].pc = "enter" /\ handler'[k].eid \notin revoked'
                     => bank'["rest"][handler'[k].eid] # NoBox
               /\ handler'[k].pc = "unregister" => handler'[k].eid \in revoked'
    BY <1>1, <1>3, <1>4, <1>5 DEF ClientInv, boxes
  <2> QED BY <2>1, <2>2 DEF ClientInv
<1> QED BY <1>6, <1>7, <1>8 DEF StepOK

LEMMA RestRemoveMailboxStep ==
    ASSUME AgentsInv, NEW h \in Handlers, RestRemoveMailbox(h)
    PROVE  StepOK
<1> DEFINE e == handler[h].eid
           r == [handler[h] EXCEPT !.pc = "delete"]
<1>1. AgentsTypes /\ PlacesInv /\ ErrorsInv /\ ClientInv
  BY DEF AgentsInv
<1>2. handler[h] \in Work /\ RequestOK(handler[h]) /\ handler[h].pc = "unregister"
      /\ handler \in [Handlers -> Work]
  BY <1>1 DEF AgentsTypes, RestRemoveMailbox
<1>3. r \in Work /\ r.pc = "delete" /\ r.got = handler[h].got
  BY <1>2, ZenonT(30) DEF Work
<1>4. e \in EIDs /\ r.got = {} /\ RequestOK(r)
  BY <1>2, <1>3 DEF RequestOK
<1>5. /\ handler' = [handler EXCEPT ![h] = r] /\ Unregister("rest", e)
      /\ UNCHANGED <<agents, clients, flow, delivered, handed, revoked>>
  BY <1>2 DEF RestRemoveMailbox
<1> HIDE DEF r, e
<1>6. /\ handler' \in [Handlers -> Work] /\ \A k \in Handlers : RequestOK(handler'[k])
      /\ handler'[h] = r /\ \A k \in Handlers : k # h => handler'[k] = handler[k]
  BY <1>1, <1>3, <1>4, <1>5 DEF AgentsTypes
<1>7. SameGot
  BY <1>3, <1>4, <1>6, ZenonT(30) DEF SameGot
<1>8. "rest" \in Kinds /\ e \in Addresses
  BY <1>4, AddressesAssumption DEF Kinds
<1>9. /\ BoxesOK' /\ PlacesInv' /\ dropped' \subseteq Loss /\ ErrorsInv'
      /\ \A c \in Kinds, y \in Addresses : c # "rest" \/ y # e => bank'[c][y] = bank[c][y]
  BY <1>1, <1>5, <1>7, <1>8, UnregisterOK
<1>10. AgentsTypes'
  BY <1>1, <1>5, <1>6, <1>9 DEF AgentsTypes, FlowOK, flow
<1>11. ClientInv'
  <2>1. e \in revoked
    BY <1>1, <1>2 DEF ClientInv, e
  <2>2. \A y \in EIDs : bank["rest"][y] # NoBox => bank'["rest"][y] # NoBox \/ y \in revoked'
    BY <1>5, <1>8, <1>9, <2>1, AddressesAssumption
  <2>3. \A k \in Handlers :
           handler'[k].pc \in {"enter", "unregister"}
              => handler'[k].pc = handler[k].pc /\ handler'[k].eid = handler[k].eid
    BY <1>3, <1>6
  <2> QED BY <1>1, <1>5, <2>2, <2>3, ClientKept
<1> QED BY <1>9, <1>10, <1>11 DEF StepOK

LEMMA RestDeleteStep ==
    ASSUME AgentsInv, NEW h \in Handlers, RestDelete(h)
    PROVE  StepOK
<1>1. /\ handler[h].pc = "delete" /\ Finish(h)
      /\ clients' = [u \in DOMAIN clients \ {handler[h].uuid} |-> clients[u]]
      /\ UNCHANGED <<agents, bank, messages, flow, history>>
  BY DEF RestDelete
<1>2. AgentsTypes /\ PlacesInv /\ ErrorsInv /\ ClientInv
  BY DEF AgentsInv
<1>3. /\ handler' \in [Handlers -> Work] /\ \A k \in Handlers : RequestOK(handler'[k])
      /\ handler'[h] = Idle /\ \A k \in Handlers : k # h => handler'[k] = handler[k]
  BY <1>1, <1>2, FinishOK
<1>4. handler[h].got = {}
  BY <1>1, <1>2 DEF AgentsTypes, RequestOK
<1>5. \A u \in DOMAIN clients' : u \in DOMAIN clients /\ clients'[u] = clients[u]
  BY <1>1
<1>6. AgentsTypes'
  <2>1. \A u \in DOMAIN clients' : clients'[u] \in EIDs
    BY <1>2, <1>5 DEF AgentsTypes
  <2> QED BY <1>1, <1>2, <1>3, <2>1 DEF AgentsTypes, BoxesOK, FlowOK, flow, history
<1>7. PlacesInv' /\ ErrorsInv'
  <2>1. SameGot
    BY <1>3, <1>4, IdleFacts DEF SameGot
  <2> QED BY <1>1, <1>2, <2>1, NothingMoves DEF history, ErrorsInv
<1>8. ClientInv'
  <2>1. ClientHasMailbox'
    BY <1>1, <1>2, <1>5 DEF ClientInv, ClientHasMailbox, history
  <2>2. ASSUME NEW k \in Handlers
        PROVE  /\ handler'[k].pc = "enter" /\ handler'[k].eid \notin revoked'
                     => bank'["rest"][handler'[k].eid] # NoBox
               /\ handler'[k].pc = "unregister" => handler'[k].eid \in revoked'
    BY <1>1, <1>2, <1>3, IdleFacts DEF ClientInv, history
  <2> QED BY <2>1, <2>2 DEF ClientInv
<1> QED BY <1>6, <1>7, <1>8 DEF StepOK

LEMMA RegisterStep ==
    ASSUME Room, AgentsInv, NEW h \in Handlers, NEW e \in EIDs, UnixRegister(h, e) \/ RecRegister(h, e)
    PROVE  StepOK
<1>1. AgentsTypes /\ PlacesInv /\ ErrorsInv /\ ClientInv
  BY DEF AgentsInv
<1>2. PICK a \in {"unix", "rec"} : Register(a, e)
  BY DEF UnixRegister, RecRegister
<1>3. UNCHANGED <<agents, messages, clients, handler, flow, history>>
  BY DEF UnixRegister, RecRegister
<1>4. a \in Kinds /\ e \in Addresses /\ "rest" \in Kinds
  BY AddressesAssumption DEF Kinds
<1>5. /\ bank' \in [Kinds -> [Addresses -> Boxes \cup {NoBox}]]
      /\ \A c \in Kinds, y \in Addresses : bank'[c][y] # NoBox => bank'[c][y][1] = c
      /\ \A c \in Kinds, y \in Addresses : bank[c][y] # NoBox => bank'[c][y] # NoBox
  BY <1>1, <1>2, <1>4, RegisterOK
<1>6. AgentsTypes'
  BY <1>1, <1>3, <1>5 DEF AgentsTypes, BoxesOK, FlowOK, flow, history
<1>7. PlacesInv' /\ ErrorsInv'
  BY <1>1, <1>3, NothingMoves DEF SameGot, history, ErrorsInv
<1>8. ClientInv'
  <2>1. \A y \in EIDs : bank["rest"][y] # NoBox => bank'["rest"][y] # NoBox
    BY <1>4, <1>5, AddressesAssumption
  <2> QED BY <1>1, <1>3, <2>1, ClientKept DEF history
<1> QED BY <1>6, <1>7, <1>8 DEF StepOK

LEMMA UnixUnregisterStep ==
    ASSUME AgentsInv, NEW h \in Handlers, NEW e \in EIDs, UnixUnregister(h, e)
    PROVE  StepOK
<1>1. AgentsTypes /\ PlacesInv /\ ErrorsInv /\ ClientInv
  BY DEF AgentsInv
<1>2. Unregister("unix", e) /\ UNCHANGED <<handler, agents, clients, flow, delivered, handed, revoked>>
  BY DEF UnixUnregister
<1>3. "unix" \in Kinds /\ e \in Addresses /\ "rest" \in Kinds /\ SameGot
  BY <1>2, AddressesAssumption DEF Kinds, SameGot
<1>4. /\ BoxesOK' /\ PlacesInv' /\ dropped' \subseteq Loss /\ ErrorsInv'
      /\ \A c \in Kinds, y \in Addresses : c # "unix" \/ y # e => bank'[c][y] = bank[c][y]
  BY <1>1, <1>2, <1>3, UnregisterOK
<1>5. AgentsTypes'
  BY <1>1, <1>2, <1>4 DEF AgentsTypes, FlowOK, flow
<1>6. ClientInv'
  <2>1. \A y \in EIDs : bank["rest"][y] # NoBox => bank'["rest"][y] # NoBox
    BY <1>3, <1>4, AddressesAssumption
  <2> QED BY <1>1, <1>2, <2>1, ClientKept
<1> QED BY <1>4, <1>5, <1>6 DEF StepOK

LEMMA FetchStep ==
    ASSUME AgentsInv, NEW h \in Handlers, handler[h] = Idle, NEW a \in Kinds,
           NEW addresses \in Seq(Addresses), addresses # << >>, a # "rec" => Len(addresses) = 1,
           NEW calls \in SUBSET ({"one", "all", "new"} \X BOOLEAN),
           Fetch(h, a, addresses, calls)
    PROVE  StepOK
<1> DEFINE r == Serve("lookup", a, "none", "none", addresses, calls)
<1>1. AgentsTypes /\ PlacesInv /\ ErrorsInv /\ ClientInv
  BY DEF AgentsInv
<1>2. r \in Work
  <2> DEFINE Q == Seq(Addresses)
  <2>1. addresses \in Q
    OBVIOUS
  <2> HIDE DEF Q
  <2>2. Work = [pc : {"idle", "enter", "unregister", "delete", "lookup", "collect", "reply"},
                agent : Kinds \cup {"none"}, uuid : UUIDs \cup {"none"},
                eid : EIDs \cup {"none"}, todo : Q,
                calls : SUBSET ({"one", "all", "new"} \X BOOLEAN),
                box : Boxes \cup {NoBox}, got : SUBSET Bundle]
    BY DEF Work, Q
  <2> QED BY <2>1, <2>2 DEF Serve
<1>3. r.pc = "lookup" /\ r.agent = a /\ r.todo = addresses /\ r.got = {}
  BY DEF Serve
<1>4. handler' = [handler EXCEPT ![h] = r] /\ UNCHANGED <<boxes, flow, history>>
  BY DEF Fetch
<1> HIDE DEF r
<1>5. RequestOK(r)
  BY <1>3 DEF RequestOK
<1>6. /\ handler' \in [Handlers -> Work] /\ \A k \in Handlers : RequestOK(handler'[k])
      /\ handler'[h] = r /\ \A k \in Handlers : k # h => handler'[k] = handler[k]
  BY <1>1, <1>2, <1>4, <1>5 DEF AgentsTypes
<1>7. AgentsTypes'
  BY <1>1, <1>4, <1>6 DEF AgentsTypes, BoxesOK, FlowOK, flow, boxes, history
<1>8. PlacesInv' /\ ErrorsInv'
  <2>1. SameGot
    BY <1>3, <1>6, BeginFacts
  <2> QED BY <1>1, <1>4, <2>1, NothingMoves DEF boxes, history, ErrorsInv
<1>9. ClientInv'
  BY <1>1, <1>3, <1>4, <1>6, ClientKept DEF boxes, history
<1> QED BY <1>7, <1>8, <1>9 DEF StepOK

LEMMA FetchSteps ==
    ASSUME AgentsInv, NEW h \in Handlers,
           \/ \E u \in UUIDs : RestFetch(h, u)
           \/ \E e \in EIDs : UnixGet(h, e) \/ UnixGetAll(h, e) \/ \E g \in Groups : RecFetch(h, e, g)
    PROVE  StepOK
<1> DEFINE All == {"one", "all", "new"} \X BOOLEAN
<1>1. GetAllAndClear \in SUBSET All /\ {"one"} \X BOOLEAN \in SUBSET All
      /\ {"all", "new"} \X BOOLEAN \in SUBSET All /\ {"rest", "unix", "rec"} \subseteq Kinds
  <2>1. GetAllAndClear \in SUBSET All
    <3> DEFINE t == TRUE
    <3>1. t \in BOOLEAN /\ GetAllAndClear = {<<"all", t>>}
      BY Zenon DEF GetAllAndClear
    <3> HIDE DEF t
    <3> QED BY <3>1
  <2>2. {"one"} \X BOOLEAN \in SUBSET All /\ {"all", "new"} \X BOOLEAN \in SUBSET All
    OBVIOUS
  <2>3. {"rest", "unix", "rec"} \subseteq Kinds
    BY DEF Kinds
  <2> QED BY <2>1, <2>2, <2>3
<1>2. ASSUME NEW u \in UUIDs, RestFetch(h, u) PROVE StepOK
  <2>1. clients[u] \in Addresses
    BY <1>2, AddressesAssumption DEF RestFetch, AgentsInv, AgentsTypes
  <2>2. <<clients[u]>> \in Seq(Addresses) /\ <<clients[u]>> # << >> /\ Len(<<clients[u]>>) = 1
    BY <2>1
  <2> QED BY <1>1, <1>2, <2>2, FetchStep, ZenonT(30) DEF RestFetch, RestBegin
<1>3. ASSUME NEW e \in EIDs, UnixGet(h, e) \/ UnixGetAll(h, e) PROVE StepOK
  <2>1. <<e>> \in Seq(Addresses) /\ <<e>> # << >> /\ Len(<<e>>) = 1
    BY AddressesAssumption
  <2> QED BY <1>1, <1>3, <2>1, FetchStep, ZenonT(30) DEF UnixGet, UnixGetAll, UnixBegin
<1>4. ASSUME NEW e \in EIDs, NEW g \in Groups, RecFetch(h, e, g) PROVE StepOK
  <2>1. <<e, g, Broadcast>> \in Seq(Addresses) /\ <<e, g, Broadcast>> # << >>
    BY AddressesAssumption
  <2> QED BY <1>1, <1>4, <2>1, FetchStep, ZenonT(30) DEF RecFetch, RecBegin
<1> QED BY <1>2, <1>3, <1>4

\* A request ends, and what it had taken out goes to place q.
LEMMA RequestDone ==
    ASSUME Room, PlacesInv, AgentsTypes, NEW h \in Handlers, handler[h].agent \in Kinds, Finish(h),
           UNCHANGED <<messages, delivered>>,
           NEW q \in {<<"client", 0>>} \cup ({"lost"} \X Reasons),
           \A a, b : [agent |-> a, bundle |-> b] \in handed'
                        <=> \/ [agent |-> a, bundle |-> b] \in handed
                            \/ a = handler[h].agent /\ b \in handler[h].got /\ q = <<"client", 0>>,
           \A a, b, w : [agent |-> a, bundle |-> b, why |-> w] \in dropped'
                           <=> \/ [agent |-> a, bundle |-> b, why |-> w] \in dropped
                               \/ a = handler[h].agent /\ b \in handler[h].got /\ q = <<"lost", w>>
    PROVE  PlacesInv'
<1> DEFINE c == handler[h].agent
           x == <<c, 1>>
           got == handler[h].got
           held == messages[x] \cup got
           D == {<<"mailbox", x>>, <<"request", h>>, <<"client", 0>>} \cup ({"lost"} \X Reasons)
           dest == [b \in Bundle |-> IF b \in got THEN q ELSE <<"mailbox", x>>]
<1>1. x \in Boxes /\ x[1] = c
  BY BoxFacts DEF Room
<1> HIDE DEF x
<1>2. messages[x] \cap got = {}
  BY <1>1, TakenOut
<1>3. held \in SUBSET Bundle /\ messages \in [Boxes -> SUBSET Bundle]
  <2>1. messages \in [Boxes -> SUBSET Bundle] /\ handler[h] \in Work
    BY DEF AgentsTypes, BoxesOK
  <2>2. got \in SUBSET Bundle
    BY <2>1 DEF Work
  <2> QED BY <1>1, <2>1, <2>2
<1>4. /\ handler'[h] = Idle /\ \A k \in Handlers : k # h => handler'[k] = handler[k]
  BY FinishOK
<1>5. q \in D /\ <<"mailbox", x>> \in D /\ q # <<"mailbox", x>> /\ q # <<"request", h>>
  <2>1. q # <<"mailbox", x>> /\ q # <<"request", h>>
    BY PlacesDiffer
  <2> QED BY <2>1
<1>6. dest \in [Bundle -> D] /\ \A b \in Bundle : dest[b] = IF b \in got THEN q ELSE <<"mailbox", x>>
  BY <1>5
<1> HIDE DEF got, held, dest, D
<1>7. {b \in held : dest[b] = <<"mailbox", x>>} = messages[x]
  BY <1>2, <1>3, <1>5, <1>6 DEF held
<1>8. messages' = [messages EXCEPT ![x] = {b \in held : dest[b] = <<"mailbox", x>>}]
  BY <1>1, <1>3, <1>7
<1>9. {b \in held : dest[b] = <<"request", h>>} = {}
  <2> SUFFICES ASSUME NEW b \in held PROVE dest[b] # <<"request", h>>
    OBVIOUS
  <2>1. dest[b] = q \/ dest[b] = <<"mailbox", x>>
    BY <1>3, <1>6
  <2>2. <<"mailbox", x>> # <<"request", h>>
    BY PlacesDiffer
  <2> QED BY <1>5, <2>1, <2>2
<1>10. handler'[h].got = {b \in held : dest[b] = <<"request", h>>} /\ handler'[h].got = {}
  BY <1>4, <1>9, IdleFacts
<1>11. \A b, p : p # <<"mailbox", x>> => (b \in held /\ dest[b] = p <=> b \in got /\ q = p)
  BY <1>3, <1>6 DEF held
<1>12. \A a, b : [agent |-> a, bundle |-> b] \in handed'
                    <=> \/ [agent |-> a, bundle |-> b] \in handed
                        \/ a = x[1] /\ b \in held /\ dest[b] = <<"client", 0>>
  <2>1. <<"client", 0>> # <<"mailbox", x>>
    OBVIOUS
  <2>2. \A b : b \in held /\ dest[b] = <<"client", 0>> <=> b \in got /\ q = <<"client", 0>>
    BY <1>11, <2>1
  <2> QED BY <1>1, <2>2, Zenon DEF got
<1>13. \A a, b, w : [agent |-> a, bundle |-> b, why |-> w] \in dropped'
                       <=> \/ [agent |-> a, bundle |-> b, why |-> w] \in dropped
                           \/ a = x[1] /\ b \in held /\ dest[b] = <<"lost", w>>
  <2>1. \A w : <<"lost", w>> # <<"mailbox", x>>
    OBVIOUS
  <2>2. \A b, w : b \in held /\ dest[b] = <<"lost", w>> <=> b \in got /\ q = <<"lost", w>>
    BY <1>11, <2>1
  <2> QED BY <1>1, <2>2, Zenon DEF got
<1>14. handler[h].agent = x[1] /\ held = messages[x] \cup handler[h].got
  BY <1>1 DEF held, got
<1>15. dest \in [Bundle -> {<<"mailbox", x>>, <<"request", h>>, <<"client", 0>>}
                              \cup ({"lost"} \X Reasons)]
  BY <1>6 DEF D
<1>16. handler'[h].got # {} => handler'[h].agent = x[1]
  BY <1>10
<1>17. MovesTo(x, h, held, dest)
  BY <1>1, <1>4, <1>8, <1>10, <1>12, <1>13, <1>14, <1>15, <1>16, Zenon DEF MovesTo
<1> QED BY <1>17, RequestMoves

LEMMA FinishTyped ==
    ASSUME AgentsInv, NEW h \in Handlers, Finish(h), UNCHANGED <<boxes, flow, delivered, revoked>>,
           handed' \subseteq Record, dropped' \subseteq Loss
    PROVE  AgentsTypes' /\ ClientInv'
<1>1. AgentsTypes /\ ClientInv
  BY DEF AgentsInv
<1>2. /\ handler' \in [Handlers -> Work] /\ \A k \in Handlers : RequestOK(handler'[k])
      /\ handler'[h] = Idle /\ \A k \in Handlers : k # h => handler'[k] = handler[k]
  BY <1>1, FinishOK
<1>3. AgentsTypes'
  BY <1>1, <1>2 DEF AgentsTypes, BoxesOK, FlowOK, flow, boxes
<1>4. ClientInv'
  BY <1>1, <1>2, IdleFacts, ClientKept DEF boxes
<1> QED BY <1>3, <1>4

LEMMA ReplyStep ==
    ASSUME Room, AgentsInv, NEW h \in Handlers, Reply(h)
    PROVE  StepOK
<1> DEFINE c == handler[h].agent
           got == handler[h].got
           new == {[agent |-> c, bundle |-> b] : b \in got}
<1>1. AgentsTypes /\ PlacesInv /\ ErrorsInv /\ FlowOK
  BY DEF AgentsInv, AgentsTypes
<1>2. handler[h] \in Work /\ RequestOK(handler[h]) /\ handler[h].pc = "reply"
  BY <1>1 DEF AgentsTypes, Reply
<1>3. c \in Kinds /\ got \in SUBSET Bundle
  BY <1>2 DEF Work, RequestOK
<1>4. Finish(h) /\ handed' = handed \cup new /\ UNCHANGED <<boxes, flow, delivered, dropped, revoked>>
  BY DEF Reply
<1>5. \A a, b : [agent |-> a, bundle |-> b] \in new <=> a = c /\ b \in got
  BY ZenonT(30)
<1>6. handed' \subseteq Record /\ dropped' \subseteq Loss
  <2>1. \A b \in got : [agent |-> c, bundle |-> b] \in Record
    BY <1>3 DEF Record
  <2>2. dropped' = dropped /\ handed' = handed \cup new
    BY <1>4
  <2> QED BY <1>1, <2>1, <2>2 DEF FlowOK
<1>7. AgentsTypes' /\ ClientInv'
  BY <1>4, <1>6, FinishTyped
<1> HIDE DEF new
<1>8. PlacesInv'
  <2> DEFINE q == <<"client", 0>>
  <2>1. q \in {<<"client", 0>>} \cup ({"lost"} \X Reasons) /\ \A w : q # <<"lost", w>>
    OBVIOUS
  <2>2. \A a, b : [agent |-> a, bundle |-> b] \in handed'
                     <=> \/ [agent |-> a, bundle |-> b] \in handed
                         \/ a = c /\ b \in got /\ q = <<"client", 0>>
    BY <1>4, <1>5, Zenon
  <2> HIDE DEF q
  <2>3. \A a, b, w : [agent |-> a, bundle |-> b, why |-> w] \in dropped'
                        <=> \/ [agent |-> a, bundle |-> b, why |-> w] \in dropped
                            \/ a = c /\ b \in got /\ q = <<"lost", w>>
    BY <1>4, <2>1, Zenon
  <2>4. UNCHANGED <<messages, delivered>>
    BY <1>4 DEF boxes
  <2> QED BY <1>1, <1>3, <1>4, <2>1, <2>2, <2>3, <2>4, RequestDone
<1>9. ErrorsInv'
  BY <1>1, <1>4 DEF ErrorsInv
<1> QED BY <1>7, <1>8, <1>9 DEF StepOK

\* A request ends, and what it had taken out is lost.
LEMMA RequestLoses ==
    ASSUME Room, AgentsInv, NEW h \in Handlers, handler[h].agent \in Kinds, Finish(h), NEW v \in Reasons,
           v = "error" => handler[h].agent = "rec" \/ handler[h].got = {},
           dropped' = dropped \cup Lost(handler[h].agent, handler[h].got, v),
           UNCHANGED <<boxes, flow, delivered, handed, revoked>>
    PROVE  StepOK
<1> DEFINE c == handler[h].agent
           got == handler[h].got
<1>1. AgentsTypes /\ PlacesInv /\ ErrorsInv /\ FlowOK
  BY DEF AgentsInv, AgentsTypes
<1>2. handler[h] \in Work
  BY <1>1 DEF AgentsTypes
<1>3. got \in SUBSET Bundle
  BY <1>2 DEF Work
<1>4. dropped' \subseteq Loss /\ ErrorsInv'
  BY <1>1, <1>3, LossesOK
<1>5. AgentsTypes' /\ ClientInv'
  BY <1>1, <1>4, FinishTyped DEF FlowOK
<1>6. PlacesInv'
  <2> DEFINE q == <<"lost", v>>
  <2>1. q \in {<<"client", 0>>} \cup ({"lost"} \X Reasons) /\ q # <<"client", 0>>
        /\ \A w : q = <<"lost", w>> <=> w = v
    OBVIOUS
  <2> HIDE DEF q
  <2>2. \A a, b : [agent |-> a, bundle |-> b] \in handed'
                     <=> \/ [agent |-> a, bundle |-> b] \in handed
                         \/ a = c /\ b \in got /\ q = <<"client", 0>>
    BY <2>1, Zenon
  <2>3. \A a, b, w : [agent |-> a, bundle |-> b, why |-> w] \in dropped'
                        <=> \/ [agent |-> a, bundle |-> b, why |-> w] \in dropped
                            \/ a = c /\ b \in got /\ q = <<"lost", w>>
    <3> SUFFICES ASSUME NEW a, NEW b, NEW w
                 PROVE  [agent |-> a, bundle |-> b, why |-> w] \in dropped'
                           <=> \/ [agent |-> a, bundle |-> b, why |-> w] \in dropped
                               \/ a = c /\ b \in got /\ q = <<"lost", w>>
      BY Zenon
    <3>1. [agent |-> a, bundle |-> b, why |-> w] \in Lost(c, got, v) <=> a = c /\ b \in got /\ w = v
      BY ZenonT(30) DEF Lost
    <3>2. dropped' = dropped \cup Lost(c, got, v)
      OBVIOUS
    <3> QED BY ONLY <2>1, <3>1, <3>2, SMTT(30), ZenonT(20)
  <2>4. UNCHANGED <<messages, delivered>>
    BY DEF boxes
  <2> QED BY <1>1, <1>3, <2>1, <2>2, <2>3, <2>4, RequestDone
<1> QED BY <1>4, <1>5, <1>6 DEF StepOK

LEMMA ReplyLostStep ==
    ASSUME Room, AgentsInv, NEW h \in Handlers, ReplyLost(h)
    PROVE  StepOK
<1>1. handler[h].pc = "reply" /\ RequestOK(handler[h])
  BY DEF ReplyLost, AgentsInv, AgentsTypes
<1>2. handler[h].agent \in Kinds /\ "reply" \in Reasons
  BY <1>1 DEF RequestOK, Reasons
<1> QED BY <1>2, RequestLoses DEF ReplyLost

LEMMA LookUpStep ==
    ASSUME Room, AgentsInv, NEW h \in Handlers, LookUp(h)
    PROVE  StepOK
<1> DEFINE c == handler[h].agent
           y == bank[c][Head(handler[h].todo)]
           r == [handler[h] EXCEPT !.pc = "collect", !.box = y]
<1>1. AgentsTypes /\ PlacesInv /\ ErrorsInv /\ ClientInv
  BY DEF AgentsInv
<1>2. handler[h] \in Work /\ RequestOK(handler[h]) /\ handler[h].pc = "lookup"
      /\ handler \in [Handlers -> Work]
  BY <1>1 DEF AgentsTypes, LookUp
<1>3. c \in Kinds /\ handler[h].todo \in Seq(Addresses) /\ handler[h].todo # << >>
      /\ (c # "rec" => Len(handler[h].todo) = 1 /\ handler[h].got = {})
  BY <1>2 DEF Work, RequestOK
<1>4. Head(handler[h].todo) \in Addresses
  BY <1>3
<1>5. CASE y = NoBox
  <2>1. Finish(h) /\ dropped' = dropped \cup Lost(c, handler[h].got, "error")
        /\ UNCHANGED <<boxes, flow, delivered, handed, revoked>> /\ "error" \in Reasons
    BY <1>5 DEF LookUp, Got, Reasons
  <2> QED BY <1>3, <2>1, RequestLoses
<1>6. CASE y # NoBox
  <2>1. handler' = [handler EXCEPT ![h] = r] /\ UNCHANGED <<boxes, flow, history>>
    BY <1>2, <1>6, ZenonT(30) DEF LookUp
  <2>2. y \in Boxes /\ y[1] = c
    <3>1. /\ bank \in [Kinds -> [Addresses -> Boxes \cup {NoBox}]]
          /\ \A a \in Kinds, e \in Addresses : bank[a][e] # NoBox => bank[a][e][1] = a
      BY <1>1 DEF AgentsTypes, BoxesOK
    <3>2. \A a \in Kinds, e \in Addresses : bank[a][e] \in Boxes \cup {NoBox}
      BY ONLY <3>1, SMTT(30), ZenonT(20)
    <3>3. y \in Boxes \cup {NoBox} /\ y[1] = c
      BY ONLY <1>3, <1>4, <1>6, <3>1, <3>2, SMTT(30), ZenonT(20)
    <3> QED BY <1>6, <3>3
  <2> HIDE DEF y
  <2>3. r \in Work /\ r.pc = "collect" /\ r.box = y /\ r.agent = c /\ r.got = handler[h].got
        /\ r.todo = handler[h].todo
    BY <1>2, <2>2, ZenonT(30) DEF Work
  <2> HIDE DEF r
  <2>4. RequestOK(r)
    BY <1>3, <2>2, <2>3 DEF RequestOK
  <2>5. /\ handler' \in [Handlers -> Work] /\ \A k \in Handlers : RequestOK(handler'[k])
        /\ handler'[h] = r /\ \A k \in Handlers : k # h => handler'[k] = handler[k]
    BY <1>1, <2>1, <2>3, <2>4 DEF AgentsTypes
  <2>6. AgentsTypes'
    BY <1>1, <2>1, <2>5 DEF AgentsTypes, BoxesOK, FlowOK, flow, boxes, history
  <2>7. SameGot
    BY <2>3, <2>5 DEF SameGot
  <2>8. PlacesInv' /\ ErrorsInv'
    BY <1>1, <2>1, <2>7, NothingMoves DEF boxes, history, ErrorsInv
  <2>9. ClientInv'
    BY <1>1, <2>1, <2>3, <2>5, ClientKept DEF boxes, history
  <2> QED BY <2>6, <2>8, <2>9 DEF StepOK
<1> QED BY <1>5, <1>6

=============================================================================
