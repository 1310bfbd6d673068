------------------------------- MODULE Agents -------------------------------
(***************************************************************************)
(* The application agents of the daemon: the manager, the mailbox bank of  *)
(* each agent, and the requests of the REST, UNIX and REC agents       *)
(* (pkg/application_agent).  A request is served by a goroutine of its own *)
(* that looks the mailbox up in the bank and only then uses it.  A call of *)
(* a mailbox is one step here; its inside is module Mailbox.               *)
(***************************************************************************)
EXTENDS IdKeeper, FiniteSets, Functions

CONSTANTS
    Configurations,  \* which agents the daemon's configuration may name
    Groups,      \* RECAgent.multicastAddresses, one for each type of node
    Broadcast,   \* RECAgent.broadcastAddress
    UUIDs,       \* what randomUuid returns
    Handlers,    \* goroutines that serve requests
    MaxSends     \* bound on the bundles sent, for each configuration

VARIABLES
    agents,      \* Manager.agents
    bank,        \* MailboxBank.mailboxes of each agent
    registered,  \* MailboxBank.registeredIDs of each agent
    messages,    \* Mailbox.messages of each mailbox object
    clients,     \* RestAgent.clients
    handler,     \* the request each handler serves
    stored,      \* the bundles in the store
    incoming,    \* bundles handed to the sendCallback, not yet inserted
    delivering,  \* Manager.Delivery: the agents each bundle is still due at
    delivered,   \* history: which agent got which bundle
    handed,      \* history: bundles a removing fetch has handed to its client
    dropped,     \* history: bundles that left a mailbox otherwise, and why
    revoked      \* history: endpoints a REST client has asked to unregister

boxes == <<agents, bank, registered, messages, clients>>
flow == <<stored, incoming, delivering>>
history == <<delivered, handed, dropped, revoked>>
vars == <<boxes, handler, flow, ids, history>>

Kinds == {"rest", "unix", "rec"}
ASSUME ConfigurationsAssumption == Configurations \subseteq SUBSET Kinds
ASSUME BoundsAssumption == MaxSends \in [Configurations -> Nat]
ASSUME AddressesAssumption == Addresses = EIDs \cup Groups \cup {Broadcast}
ASSUME FiniteAssumption == IsFiniteSet(Addresses) /\ IsFiniteSet(Handlers)

Reserved == Groups \cup {Broadcast}
ReservedAt(a) == IF a = "rec" /\ a \in agents THEN Reserved ELSE {}
\* Mailbox objects are numbered; a number is used again once nobody refers to it.
Boxes == Kinds \X (1..Cardinality(Addresses) + Cardinality(Handlers))
NoBox == <<"none", 0>>

Serve(pc, a, u, e, addresses, calls) ==
    [pc |-> pc, agent |-> a, uuid |-> u, eid |-> e, todo |-> addresses, calls |-> calls,
     box |-> NoBox, got |-> {}]

Idle == Serve("idle", "none", "none", "none", << >>, {})

InUse(x, banks, handlers) ==
    (\E y \in Addresses : banks[x[1]][y] = x) \/ \E h \in Handlers : handlers[h].box = x

NewBox(a) == <<a, CHOOSE n \in 1..Cardinality(Addresses) + Cardinality(Handlers) :
                      ~InUse(<<a, n>>, bank, handler)>>

\* A handler takes the next request: one of the HTTP server, or the message
\* that handleConnection reads from a socket.
RestBegin(h) == handler[h] = Idle /\ "rest" \in agents
UnixBegin(h) == handler[h] = Idle /\ "unix" \in agents
RecBegin(h) == handler[h] = Idle /\ "rec" \in agents
Finish(h) == handler' = [handler EXCEPT ![h] = Idle]

Lost(a, bundles, why) == {[agent |-> a, bundle |-> b, why |-> why] : b \in bundles}

\* A call leaves "contents" in mailbox x.  When nobody refers to it any more,
\* they are lost.
Leave(x, contents, lost) ==
    IF InUse(x, bank', handler')
    THEN /\ messages' = [messages EXCEPT ![x] = contents]
         /\ dropped' = dropped \cup lost
    ELSE /\ messages' = [messages EXCEPT ![x] = {}]
         /\ dropped' = dropped \cup lost \cup Lost(x[1], contents, "unregistered")

-----------------------------------------------------------------------------
(* MailboxBank                                                              *)

Register(a, e) ==
    IF bank[a][e] = NoBox
    THEN /\ bank' = [bank EXCEPT ![a][e] = NewBox(a)]
         /\ registered' = [registered EXCEPT ![a] = @ \cup {e}]
    ELSE UNCHANGED <<bank, registered>>

Unregister(a, e) ==
    IF bank[a][e] # NoBox
    THEN /\ bank' = [bank EXCEPT ![a][e] = NoBox]
         /\ registered' = [registered EXCEPT ![a] = @ \ {e}]
         /\ Leave(bank[a][e], messages[bank[a][e]], {})
    ELSE UNCHANGED <<bank, registered, messages, dropped>>

\* MailboxBank.GC starts one Mailbox.GC for each mailbox.
BankGC(a, e) ==
    /\ bank[a][e] # NoBox
    /\ LET gone == messages[bank[a][e]] \ stored
       IN  /\ messages' = [messages EXCEPT ![bank[a][e]] = @ \ gone]
           /\ dropped' = dropped \cup Lost(a, gone, "gone")
    /\ UNCHANGED <<agents, bank, registered, clients, handler, flow, ids, delivered, handed, revoked>>

\* Manager.GC
GC == \E a \in agents, e \in Addresses : BankGC(a, e)

-----------------------------------------------------------------------------
(* Registrations.                                                            *)

\* Mutant of RestRegister: the client is entered before the mailbox is there.
RestRegisterLate(h, u, e) ==
    /\ RestBegin(h)
    /\ u \notin DOMAIN clients /\ \A k \in Handlers : handler[k].uuid # u
    /\ clients' = [v \in DOMAIN clients \cup {u} |-> IF v = u THEN e ELSE clients[v]]
    /\ Finish(h)
    /\ UNCHANGED <<agents, bank, registered, messages, flow, ids, history>>

\* RestAgent.handleRegister ignores the error of Register.
RestRegister(h, u, e) ==
    /\ RestBegin(h)
    /\ u \notin DOMAIN clients /\ \A k \in Handlers : handler[k].uuid # u
    /\ Register("rest", e)
    /\ handler' = [handler EXCEPT ![h] = Serve("enter", "rest", u, e, << >>, {})]
    /\ UNCHANGED <<agents, messages, clients, flow, ids, history>>

RestEnter(h) ==
    /\ handler[h].pc = "enter"
    /\ clients' = [u \in DOMAIN clients \cup {handler[h].uuid} |->
                       IF u = handler[h].uuid THEN handler[h].eid ELSE clients[u]]
    /\ Finish(h)
    /\ UNCHANGED <<agents, bank, registered, messages, flow, ids, history>>

\* RestAgent.handleUnregister: Load, Unregister, Delete.
RestUnregister(h, u) ==
    /\ RestBegin(h)
    /\ u \in DOMAIN clients
    /\ handler' = [handler EXCEPT ![h] = Serve("unregister", "rest", u, clients[u], << >>, {})]
    /\ revoked' = revoked \cup {clients[u]}
    /\ UNCHANGED <<boxes, flow, ids, delivered, handed, dropped>>

RestRemoveMailbox(h) ==
    /\ handler[h].pc = "unregister"
    /\ handler' = [handler EXCEPT ![h].pc = "delete"]
    /\ Unregister("rest", handler[h].eid)
    /\ UNCHANGED <<agents, clients, flow, ids, delivered, handed, revoked>>

RestDelete(h) ==
    /\ handler[h].pc = "delete"
    /\ clients' = [u \in DOMAIN clients \ {handler[h].uuid} |-> clients[u]]
    /\ Finish(h)
    /\ UNCHANGED <<agents, bank, registered, messages, flow, ids, history>>

\* UNIXAgent.handleRegisterUnregister and RECAgent.handleRegister: one call of
\* the bank, whose error is the reply.
UnixRegister(h, e) ==
    /\ UnixBegin(h)
    /\ Register("unix", e)
    /\ UNCHANGED <<agents, messages, clients, handler, flow, ids, history>>

RecRegister(h, e) ==
    /\ RecBegin(h)
    /\ Register("rec", e)
    /\ UNCHANGED <<agents, messages, clients, handler, flow, ids, history>>

UnixUnregister(h, e) ==
    /\ UnixBegin(h)
    /\ UNCHANGED handler
    /\ Unregister("unix", e)
    /\ UNCHANGED <<agents, clients, flow, ids, delivered, handed, revoked>>

-----------------------------------------------------------------------------
(* Fetching.  "todo" holds the addresses a request still has to look up: the *)
(* client's own, and for the REC agent also its group's and the broadcast    *)
(* address.  Every mailbox the REC agent has read is empty before it turns   *)
(* to the next one.                                                          *)

Fetch(h, a, addresses, calls) ==
    /\ handler' = [handler EXCEPT ![h] = Serve("lookup", a, "none", "none", addresses, calls)]
    /\ UNCHANGED <<boxes, flow, ids, history>>

GetAllAndClear == {<<"all", TRUE>>}

RestFetch(h, u) ==
    RestBegin(h) /\ u \in DOMAIN clients /\ Fetch(h, "rest", <<clients[u]>>, GetAllAndClear)

\* UNIXAgent.handleGetBundle; the client says whether to remove it.
UnixGet(h, e) == UnixBegin(h) /\ Fetch(h, "unix", <<e>>, {"one"} \X BOOLEAN)

\* UNIXAgent.handleGetAllBundles; the client says whether it wants the new ones.
UnixGetAll(h, e) == UnixBegin(h) /\ Fetch(h, "unix", <<e>>, {"all", "new"} \X BOOLEAN)

RecFetch(h, e, g) == RecBegin(h) /\ Fetch(h, "rec", <<e, g, Broadcast>>, GetAllAndClear)

Got(h) == Lost(handler[h].agent, handler[h].got, "error")

\* When the reply is an error, what the request has taken out is not in it.
LookUp(h) ==
    /\ handler[h].pc = "lookup"
    /\ LET box == bank[handler[h].agent][Head(handler[h].todo)]
       IN  IF box = NoBox
           THEN /\ Finish(h)
                /\ dropped' = dropped \cup Got(h)
                /\ UNCHANGED <<boxes, flow, ids, delivered, handed, revoked>>
           ELSE /\ handler' = [handler EXCEPT ![h].pc = "collect", ![h].box = box]
                /\ UNCHANGED <<boxes, flow, ids, history>>

\* What a call may return; which messages are new is the mailbox's own state
\* (module Mailbox).
Returns(mode, contents) ==
    CASE mode = "all" -> {contents}
      [] mode = "new" -> SUBSET contents
      [] mode = "one" -> {{b} : b \in contents}

\* Mutant of Clear: GetAll does not clear the mailbox.
ClearOnlyOne(contents, taken, mode, remove) ==
    IF remove /\ mode = "one" /\ taken \subseteq stored THEN contents \ taken ELSE contents

\* What a call leaves in the mailbox.
Clear(contents, taken, mode, remove) ==
    IF ~remove \/ ~(taken \subseteq stored) THEN contents
    ELSE IF mode = "one" THEN contents \ taken ELSE {}

\* The call fails when the store no longer has one of the bundles.
Collect(h) ==
    /\ handler[h].pc = "collect"
    /\ LET r == handler[h]
           contents == messages[r.box]
       IN  \/ \E c \in r.calls : \E taken \in Returns(c[1], contents) :
                LET left == Clear(contents, taken, c[1], c[2])
                    gone == contents \ left
                IN  IF taken \subseteq stored
                    THEN /\ handler' = [handler EXCEPT ![h].todo = Tail(@), ![h].box = NoBox,
                                            ![h].pc = IF Len(r.todo) = 1 THEN "reply" ELSE "lookup",
                                            ![h].got = IF c[2] THEN @ \cup taken ELSE @]
                         /\ UNCHANGED bank
                         /\ Leave(r.box, left, Lost(r.agent, gone \ taken, "skipped"))
                    ELSE /\ Finish(h) /\ UNCHANGED bank
                         /\ Leave(r.box, left, Got(h) \cup Lost(r.agent, gone, "error"))
           \/ /\ \E c \in r.calls : Returns(c[1], contents) = {}
              /\ Finish(h) /\ UNCHANGED bank
              /\ Leave(r.box, contents, Got(h))
    /\ UNCHANGED <<agents, registered, clients, flow, ids, delivered, handed, revoked>>

\* The reply reaches the client, or the connection is gone by now.
Reply(h) ==
    /\ handler[h].pc = "reply"
    /\ Finish(h)
    /\ handed' = handed \cup {[agent |-> handler[h].agent, bundle |-> b] : b \in handler[h].got}
    /\ UNCHANGED <<boxes, flow, ids, delivered, dropped, revoked>>

ReplyLost(h) ==
    /\ handler[h].pc = "reply"
    /\ Finish(h)
    /\ dropped' = dropped \cup Lost(handler[h].agent, handler[h].got, "reply")
    /\ UNCHANGED <<boxes, flow, ids, delivered, handed, revoked>>

-----------------------------------------------------------------------------
(* Sending                                                                   *)

\* Manager.Send.  Bundles for addresses that no agent of this node serves go to
\* other nodes and are not modelled here.
Send(src, dst, time, given) ==
    /\ Len(sent) < MaxSends[agents]
    /\ dst \in EIDs \cup ReservedAt("rec")
    /\ Issue(src, dst, time, given)
    /\ incoming' = incoming \cup {sent'[Len(sent')].bundle}
    /\ UNCHANGED <<boxes, handler, stored, delivering, history>>

\* RestAgent.handleBuild wants the client to be the source or the report-to.
RestBuild(u, src, reportTo, dst, time, given) ==
    u \in DOMAIN clients /\ clients[u] \in {src, reportTo} /\ Send(src, dst, time, given)

UnixBuild(src, dst, time, given) ==
    "unix" \in agents /\ Send(src, dst, time, given)

RecCreate(src, dst) == "rec" \in agents /\ Send(src, dst, clock, FALSE)

\* processing.receiveAsync up to the call of Delivery.  A bundle whose ID the
\* store knows is the bundle the store has.
ReceiveAsync(b) ==
    /\ b \in incoming
    /\ incoming' = incoming \ {b}
    /\ stored' = IF \E c \in stored : SameID(b, c) THEN stored ELSE stored \cup {b}
    /\ delivering' = delivering \cup {[bundle |-> CHOOSE c \in stored' : SameID(b, c), left |-> agents]}
    /\ UNCHANGED <<boxes, handler, ids, history>>

\* MailboxBank.Deliver and Mailbox.Deliver
BankDeliver(a, b) ==
    LET box == bank[a][b.dst]
    IN  IF box # NoBox /\ b \in stored \ messages[box]
        THEN /\ messages' = [messages EXCEPT ![box] = @ \cup {b}]
             /\ delivered' = delivered \cup {[agent |-> a, bundle |-> b]}
        ELSE UNCHANGED <<messages, delivered>>

\* One round of Manager.Delivery.
Deliver(d, a) ==
    /\ d \in delivering /\ a \in d.left
    /\ delivering' = (delivering \ {d}) \cup
                         {e \in {[d EXCEPT !.left = @ \ {a}]} : e.left # {}}
    /\ BankDeliver(a, d.bundle)
    /\ UNCHANGED <<agents, bank, registered, clients, handler, stored, incoming, ids, handed, dropped, revoked>>

\* The store drops a bundle (module BundleStore).
StoreDelete(b) ==
    /\ b \in stored
    /\ stored' = stored \ {b}
    /\ UNCHANGED <<boxes, handler, incoming, delivering, ids, history>>

-----------------------------------------------------------------------------
(* Start and restart.                                                        *)

\* NewRECAgent registers the reserved addresses before anybody else can.
NewBank(a) ==
    LET number == CHOOSE f \in [ReservedAt(a) -> 1..Cardinality(Reserved)] : IsInjective(f)
    IN  [x \in Addresses |-> IF x \in ReservedAt(a) THEN <<a, number[x]>> ELSE NoBox]

Configured == agents \in Configurations

Init ==
    /\ Configured
    /\ bank = [a \in Kinds |-> NewBank(a)] /\ registered = [a \in Kinds |-> ReservedAt(a)]
    /\ messages = [x \in Boxes |-> {}] /\ clients = << >>
    /\ handler = [h \in Handlers |-> Idle]
    /\ stored = {} /\ incoming = {} /\ delivering = {}
    /\ IdInit /\ clock = 1
    /\ delivered = {} /\ handed = {} /\ dropped = {} /\ revoked = {}

\* After a crash, or a shutdown, the daemon is started again.  Only the store
\* survives.
Restart ==
    /\ Reset
    /\ bank' = [a \in Kinds |-> NewBank(a)] /\ registered' = [a \in Kinds |-> ReservedAt(a)]
    /\ messages' = [x \in Boxes |-> {}] /\ clients' = << >>
    /\ handler' = [h \in Handlers |-> Idle]
    /\ incoming' = {} /\ delivering' = {}
    /\ delivered' = {} /\ handed' = {} /\ dropped' = {} /\ revoked' = {}
    /\ UNCHANGED <<agents, stored>>

Next ==
    \/ \E h \in Handlers :
          \/ \E u \in UUIDs : \/ \E e \in EIDs : RestRegister(h, u, e)
                              \/ RestUnregister(h, u)
                              \/ RestFetch(h, u)
          \/ RestEnter(h) \/ RestRemoveMailbox(h) \/ RestDelete(h)
          \/ \E e \in EIDs : \/ UnixRegister(h, e) \/ UnixUnregister(h, e) \/ UnixGet(h, e) \/ UnixGetAll(h, e)
                           \/ RecRegister(h, e) \/ \E g \in Groups : RecFetch(h, e, g)
          \/ LookUp(h) \/ Collect(h) \/ Reply(h) \/ ReplyLost(h)
    \/ \E src \in EIDs, dst \in Addresses :
          \/ RecCreate(src, dst)
          \/ \E t \in 0..MaxClock, g \in BOOLEAN :
                \/ UnixBuild(src, dst, t, g)
                \/ \E u \in UUIDs, r \in EIDs : RestBuild(u, src, r, dst, t, g)
    \/ \E b \in incoming : ReceiveAsync(b)
    \/ \E d \in delivering, a \in agents : Deliver(d, a)
    \/ \E b \in stored : StoreDelete(b)
    \/ GC
    \/ Restart
    \/ Tick /\ UNCHANGED <<boxes, handler, flow, history>>

Spec == Init /\ [][Next]_vars

-----------------------------------------------------------------------------
(* Properties                                                                *)

Sent == {sent[i].bundle : i \in DOMAIN sent}
Request == [pc : {"idle", "enter", "unregister", "delete", "lookup", "collect", "reply"},
            agent : Kinds \cup {"none"}, uuid : UUIDs \cup {"none"}, eid : EIDs \cup {"none"},
            todo : UNION {[1..n -> Addresses] : n \in 0..3}, box : Boxes \cup {NoBox},
            calls : SUBSET ({"one", "all", "new"} \X BOOLEAN), got : SUBSET Sent]

\* Every variable has its type; the list RegisteredIDs returns names exactly
\* the mailboxes of the map, which are objects of their own.
TypeOK ==
    /\ registered = [a \in Kinds |-> {x \in Addresses : bank[a][x] # NoBox}]
    /\ \A a \in Kinds, x, y \in Addresses :
          /\ bank[a][x] \in ({a} \X Nat) \cup {NoBox}
          /\ bank[a][x] = bank[a][y] /\ bank[a][x] # NoBox => x = y
    /\ messages \in [Boxes -> SUBSET Sent]
    /\ DOMAIN clients \subseteq UUIDs /\ \A u \in DOMAIN clients : clients[u] \in EIDs
    /\ handler \in [Handlers -> Request]
    /\ stored \subseteq Sent /\ incoming \subseteq Sent

\* Where agent a's copy of a bundle is.
Places(a, b) ==
    {<<"mailbox", x>> : x \in {y \in Boxes : y[1] = a /\ b \in messages[y]}}
    \cup {<<"request", h>> : h \in {k \in Handlers : handler[k].agent = a /\ b \in handler[k].got}}
    \cup {<<"client", 0>> : d \in {d \in handed : d.agent = a /\ d.bundle = b}}
    \cup {<<"lost", d.why>> : d \in {d \in dropped : d.agent = a /\ d.bundle = b}}

\* No bundle is handed out twice and none vanishes unnoticed: a bundle that an
\* agent accepted is in one mailbox, or taken out by one request, or handed to
\* one client, or lost in one of the ways this module names.  An error of the
\* request is such a way only for RECAgent.handleFetch, which empties up to three
\* mailboxes one by one.  This is about mailboxes that clients share, and that may
\* be unregistered while a request holds a pointer to them (MailboxBank.GetMailbox).
OnePlace ==
    /\ \A a \in Kinds, b \in Sent :
          Cardinality(Places(a, b)) = IF [agent |-> a, bundle |-> b] \in delivered THEN 1 ELSE 0
    /\ \A d \in dropped : d.why = "error" => d.agent = "rec"

\* A REST client that is entered has a mailbox, unless somebody has asked to
\* unregister its endpoint (handleRegister ignores the error of Register, and
\* several clients may share an endpoint).
ClientHasMailbox ==
    \A u \in DOMAIN clients :
        clients[u] \notin revoked => bank["rest"][clients[u]] # NoBox

=============================================================================
