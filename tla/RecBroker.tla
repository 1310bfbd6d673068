------------------------------- MODULE RecBroker -------------------------------
(***************************************************************************)
(* The REC overlay over DTN: brokers, and the executors, datastores and    *)
(* clients that associate with one (src/rec/dtn/node.py and broker.py, with*)
(* the client's side of an association).  Nodes exchange bundles through   *)
(* dtnd, which holds those for a node until it polls; a node handles the   *)
(* bundles of one poll in turn and sends the replies at the end.           *)
(*                                                                         *)
(* The handlers of a broker suspend only in the locks of its state and     *)
(* queue; the one other task that changes that state is the queue worker.  *)
(***************************************************************************)
EXTENDS Integers, FiniteSets

CONSTANTS
    Brokers, Executors, Datastores, Clients,
    Jobs, Data,     \* what clients submit, and the named data they put
    Queries,        \* job queries of clients
    Nobody,
    HrwParameters,  \* the parameters of hrw_select
    MaxFaults       \* bound: processes that are stopped, bundles that are lost

Members == Executors \cup Datastores \cup Clients
Work    == Jobs \cup Data \cup Queries

ASSUME RecBrokerConstants ==
    /\ Jobs \cap Data = {} /\ (Jobs \cup Data) \cap Queries = {}
    /\ Nobody \notin Brokers \cup Work
    /\ MaxFaults \in Nat

VARIABLES
    net,            \* bundles that dtnd holds for their destination
    brokerPending,  \* _broker_pending of a member
    broker,         \* _broker of a member
    context,        \* the broker in a client's context file
    given,          \* work that a client has sent to its broker
    up,             \* brokers that run
    discovered,     \* _discovered_nodes of a broker
    batch,          \* bundles of the current poll it has yet to handle
    replies,        \* its replies to those it has handled
    queued,         \* _queued_jobs and _queued_ndata
    worker,         \* the queue worker: "starting", "waiting" in the condition, "notified"
    served,         \* history: work sent on to an executor or a datastore, answered queries
    dropped,        \* history: work that nobody has any more
    unanswered,     \* history: members whose request or its ACK is gone
    faults

memberVars == <<brokerPending, broker, context>>
brokerVars == <<up, discovered, batch, replies, queued, worker>>
overlayVars == <<net, memberVars, given, brokerVars, served, dropped, unanswered, faults>>

Bundle(type, from, to) == [type |-> type, source |-> from, destination |-> to, work |-> Nobody]
Carrying(type, from, to, w) == [Bundle(type, from, to) EXCEPT !.work = w]

\* The members that wait for an answer one of these bundles would bring.
Awaiting(bundles) ==
    {n \in Members : \E m \in bundles :
        \/ m.type = "REQUEST" /\ m.source = n /\ brokerPending[n] = m.destination
        \/ m.type = "ACK" /\ m.destination = n /\ brokerPending[n] = m.source}

Fault == faults < MaxFaults /\ faults' = faults + 1

WorkOf(bundles) == {m.work : m \in bundles} \ {Nobody}

-----------------------------------------------------------------------------
(* Members                                                                    *)

\* _handle_discovery of an announcement: only a member with neither a broker nor
\* a pending one asks.
HandleAnnounce(n, m) ==
    /\ m.type = "ANNOUNCE"
    /\ IF brokerPending[n] = Nobody /\ broker[n] = Nobody
       THEN /\ brokerPending' = [brokerPending EXCEPT ![n] = m.source]
            /\ net' = (net \ {m}) \cup {Bundle("REQUEST", n, m.source)}
       ELSE /\ net' = net \ {m}
            /\ UNCHANGED brokerPending
    /\ UNCHANGED broker

\* Mutant of HandleAck: the ACK is held against the broker, not the pending one.
HandleAckUnmatched(n, m) ==
    /\ m.type = "ACK"
    /\ net' = net \ {m}
    /\ IF broker[n] = m.source
       THEN brokerPending' = [brokerPending EXCEPT ![n] = Nobody]
       ELSE UNCHANGED brokerPending
    /\ UNCHANGED broker

\* _handle_discovery of an ACK: only from the pending broker.
HandleAck(n, m) ==
    /\ m.type = "ACK"
    /\ net' = net \ {m}
    /\ IF brokerPending[n] = m.source
       THEN /\ broker' = [broker EXCEPT ![n] = m.source]
            /\ brokerPending' = [brokerPending EXCEPT ![n] = Nobody]
       ELSE UNCHANGED <<broker, brokerPending>>

\* _cache_response of the list of jobs, which ends the wait of job_query.
HandleList(n, m) ==
    /\ m.type = "LIST"
    /\ net' = net \ {m}
    /\ served' = served \cup {m.work}
    /\ UNCHANGED <<broker, brokerPending>>

\* A member polls and handles a bundle.  Its handlers raise nothing, so that
\* nothing tells a poll of several bundles from several polls.
Receive(n, type) ==
    /\ \E m \in net : /\ m.destination = n /\ m.type = type
                      /\ \/ (HandleAnnounce(n, m) \/ HandleAck(n, m)) /\ UNCHANGED served
                         \/ HandleList(n, m)
    /\ UNCHANGED <<context, given, brokerVars, dropped, unanswered, faults>>

\* Mutant of SendHeartbeat: an associated node has nothing more to say.
SendHeartbeatPending(n) ==
    /\ n \in Executors \cup Datastores
    /\ brokerPending[n] # Nobody
    /\ net' = net \cup {Bundle("REQUEST", n, brokerPending[n])}
    /\ UNCHANGED <<memberVars, given, brokerVars, served, dropped, unanswered, faults>>

\* Executors and datastores repeat their request to the broker they have.
SendHeartbeat(n) ==
    /\ n \in Executors \cup Datastores
    /\ broker[n] # Nobody
    /\ net' = net \cup {Bundle("REQUEST", n, broker[n])}
    /\ UNCHANGED <<memberVars, given, brokerVars, served, dropped, unanswered, faults>>

\* _wait_for_broker of a client sees the association and saves it.
SaveContext(c) ==
    /\ broker[c] # Nobody
    /\ context[c] # broker[c]
    /\ context' = [context EXCEPT ![c] = broker[c]]
    /\ UNCHANGED <<net, brokerPending, broker, given, brokerVars, served, dropped,
                   unanswered, faults>>

TypeOf(w) == CASE w \in Jobs -> "SUBMIT" [] w \in Data -> "PUT" [] w \in Queries -> "QUERY"

\* The sending half of _submit_job, data_put and job_query.
Submit(c, w) ==
    /\ broker[c] # Nobody
    /\ context[c] = broker[c]
    /\ w \notin given
    /\ given' = given \cup {w}
    /\ net' = net \cup {Carrying(TypeOf(w), c, broker[c], w)}
    /\ UNCHANGED <<memberVars, brokerVars, served, dropped, unanswered, faults>>

\* The process ends and starts again: only a client remembers its broker.
RestartMember(n) ==
    /\ Fault
    /\ brokerPending' = [brokerPending EXCEPT ![n] = Nobody]
    /\ broker' = [broker EXCEPT ![n] = IF n \in Clients THEN context[n] ELSE Nobody]
    /\ unanswered' = unanswered \ {n}
    /\ UNCHANGED <<net, context, given, brokerVars, served, dropped>>

-----------------------------------------------------------------------------
(* Brokers                                                                    *)

\* _handle_discovery of an announcement by the other brokers that run: nothing reads
\* what they note, so that it is there at once and not after a poll.
HandleBroker(b) ==
    discovered' = [x \in Brokers |-> discovered[x] \cup (IF x \in up \ {b} THEN {b} ELSE {})]

\* _announce_yourself, every ten seconds, to the broadcast address, which brokers
\* get as well, the sender included, who ignores it.
AnnounceYourself(b) ==
    /\ b \in up
    /\ worker[b] # "starting"
    /\ net' = net \cup {Bundle("ANNOUNCE", b, n) : n \in Members}
    /\ HandleBroker(b)
    /\ UNCHANGED <<memberVars, given, up, batch, replies, queued, worker, served, dropped,
                   unanswered, faults>>

\* _get_new_bundles of _receive_once.
GetNewBundles(b) ==
    LET bundles == {m \in net : m.destination = b}
    IN  /\ b \in up
        /\ batch[b] = {} /\ replies[b] = {}
        /\ bundles # {}
        /\ batch' = [batch EXCEPT ![b] = bundles]
        /\ net' = net \ bundles
        /\ UNCHANGED <<memberVars, given, up, discovered, replies, queued, worker,
                       served, dropped, unanswered, faults>>

Handled(b, m) == batch' = [batch EXCEPT ![b] = @ \ {m}]

\* The calls of hrw_select pass the keyword arguments key, nodes and k.
HrwSelectReturns == {"key", "nodes", "k"} \subseteq HrwParameters

\* A handler raises: _receive_once logs it, and the other bundles of the poll
\* and the replies to those already handled are gone with it.
Raise(b) ==
    /\ batch' = [batch EXCEPT ![b] = {}]
    /\ replies' = [replies EXCEPT ![b] = {}]
    /\ dropped' = dropped \cup WorkOf(batch[b] \cup replies[b])
    /\ unanswered' = unanswered \cup Awaiting(batch[b] \cup replies[b])

\* The nodes of the kind that takes this work.
NodesFor(w) == IF w \in Jobs THEN Executors ELSE Datastores
Available(b, w) == discovered[b] \cap NodesFor(w)

\* _schedule_job and _forward_ndata.
Forward(w) == served' = served \cup {w}

\* Mutant of HandleWork: work without a node to go to is not kept.
HandleWorkUnqueued(b, m) ==
    /\ m.type \in {"SUBMIT", "PUT"}
    /\ IF Available(b, m.work) = {} \/ HrwSelectReturns
       THEN Handled(b, m) /\ UNCHANGED <<replies, dropped, unanswered, served, queued>>
       ELSE Raise(b) /\ UNCHANGED <<queued, served>>
    /\ UNCHANGED <<discovered, worker>>

\* _handle_job_submit and _handle_ndata_put: the work is queued until there is a
\* node for it, and else one is selected and the work sent there.
HandleWork(b, m) ==
    /\ m.type \in {"SUBMIT", "PUT"}
    /\ IF Available(b, m.work) = {}
       THEN /\ Handled(b, m)
            /\ queued' = [queued EXCEPT ![b] = @ \cup {m.work}]
            /\ UNCHANGED <<replies, dropped, unanswered, served>>
       ELSE /\ IF HrwSelectReturns
               THEN Handled(b, m) /\ Forward(m.work) /\ UNCHANGED <<replies, dropped, unanswered>>
               ELSE Raise(b) /\ UNCHANGED served
            /\ UNCHANGED queued
    /\ UNCHANGED <<discovered, worker>>

\* Mutant of HandleQuery: the handler waits until there is a job to list.
HandleQueryBlocks(b, m) ==
    /\ m.type = "QUERY"
    /\ queued[b] # {}
    /\ Handled(b, m)
    /\ replies' = [replies EXCEPT ![b] = @ \cup {Carrying("LIST", b, m.source, m.work)}]
    /\ UNCHANGED <<discovered, queued, worker, served, dropped, unanswered>>

\* _handle_job_query.
HandleQuery(b, m) ==
    /\ m.type = "QUERY"
    /\ Handled(b, m)
    /\ replies' = [replies EXCEPT ![b] = @ \cup {Carrying("LIST", b, m.source, m.work)}]
    /\ UNCHANGED <<discovered, queued, worker, served, dropped, unanswered>>

\* notify_all of the condition wakes the worker if it is there to be woken.
Notified(b) == IF worker[b] = "starting" THEN "starting" ELSE "notified"

\* Mutant of HandleRequest: the queue worker is told of nodes that are new only.
HandleRequestOnce(b, m) ==
    /\ m.type = "REQUEST"
    /\ Handled(b, m)
    /\ discovered' = [discovered EXCEPT ![b] = @ \cup {m.source}]
    /\ worker' = [worker EXCEPT ![b] = IF m.source \in discovered[b] THEN @ ELSE Notified(b)]
    /\ replies' = [replies EXCEPT ![b] = @ \cup {Bundle("ACK", b, m.source)}]
    /\ UNCHANGED <<queued, served, dropped, unanswered>>

\* _handle_discovery of a request: remember the node, wake the queue worker, answer.
HandleRequest(b, m) ==
    /\ m.type = "REQUEST"
    /\ Handled(b, m)
    /\ discovered' = [discovered EXCEPT ![b] = @ \cup {m.source}]
    /\ worker' = [worker EXCEPT ![b] = Notified(b)]
    /\ replies' = [replies EXCEPT ![b] = @ \cup {Bundle("ACK", b, m.source)}]
    /\ UNCHANGED <<queued, served, dropped, unanswered>>

HandleBundle(b) ==
    /\ b \in up
    /\ \E m \in batch[b] : \/ HandleWork(b, m) \/ HandleQuery(b, m) \/ HandleRequest(b, m)
    /\ UNCHANGED <<net, memberVars, given, up, faults>>

\* The end of _receive_once: _send_and_check of the replies.
SendReplies(b) ==
    /\ b \in up
    /\ batch[b] = {} /\ replies[b] # {}
    /\ net' = net \cup replies[b]
    /\ replies' = [replies EXCEPT ![b] = {}]
    /\ UNCHANGED <<memberVars, given, up, discovered, batch, queued, worker,
                   served, dropped, unanswered, faults>>

\* The process ends with all it has in memory.
Die(b) ==
    /\ up' = up \ {b}
    /\ dropped' = dropped \cup queued[b] \cup WorkOf(batch[b] \cup replies[b])
    /\ unanswered' = unanswered \cup Awaiting(batch[b] \cup replies[b])
    /\ discovered' = [discovered EXCEPT ![b] = {}]
    /\ batch' = [batch EXCEPT ![b] = {}]
    /\ replies' = [replies EXCEPT ![b] = {}]
    /\ queued' = [queued EXCEPT ![b] = {}]
    /\ worker' = [worker EXCEPT ![b] = "starting"]

\* The queue worker after a notification: it takes the work for which there are
\* nodes and sends it there.  What it raises ends the task group, and with it run.
QueueWorker(b) ==
    LET work == {w \in queued[b] : Available(b, w) # {}}
    IN  /\ b \in up
        /\ worker[b] = "notified"
        /\ IF work # {} /\ ~HrwSelectReturns
           THEN Die(b) /\ UNCHANGED served
           ELSE /\ worker' = [worker EXCEPT ![b] = "waiting"]
                /\ queued' = [queued EXCEPT ![b] = @ \ work]
                /\ served' = served \cup work
                /\ UNCHANGED <<up, discovered, batch, replies, dropped, unanswered>>
        /\ UNCHANGED <<net, memberVars, given, faults>>

\* The broker is stopped or killed.
Crash(b) ==
    /\ b \in up
    /\ Fault
    /\ Die(b)
    /\ UNCHANGED <<net, memberVars, given, served>>

\* run of Node: the receive task is there before the broker has registered.
Start(b) ==
    /\ b \notin up
    /\ up' = up \cup {b}
    /\ UNCHANGED <<net, memberVars, given, discovered, batch, replies, queued, worker,
                   served, dropped, unanswered, faults>>

\* The task group of run, once the broker has registered: the announcements, and
\* the queue worker, which waits.
StartTasks(b) ==
    /\ b \in up
    /\ worker[b] = "starting"
    /\ worker' = [worker EXCEPT ![b] = "waiting"]
    /\ UNCHANGED <<net, memberVars, given, up, discovered, batch, replies, queued,
                   served, dropped, unanswered, faults>>

\* A bundle expires, or dtnd refuses it and _send_and_check only logs that.
Lose ==
    /\ Fault
    /\ \E m \in net :
          /\ net' = net \ {m}
          /\ dropped' = dropped \cup WorkOf({m})
          /\ unanswered' = unanswered \cup Awaiting({m})
    /\ UNCHANGED <<memberVars, given, brokerVars, served>>

-----------------------------------------------------------------------------

OverlayInit ==
    /\ net = {}
    /\ brokerPending = [n \in Members |-> Nobody]
    /\ broker = [n \in Members |-> Nobody]
    /\ context = [c \in Clients |-> Nobody]
    /\ given = {}
    /\ up = {}
    /\ discovered = [b \in Brokers |-> {}]
    /\ batch = [b \in Brokers |-> {}]
    /\ replies = [b \in Brokers |-> {}]
    /\ queued = [b \in Brokers |-> {}]
    /\ worker = [b \in Brokers |-> "starting"]
    /\ served = {} /\ dropped = {} /\ unanswered = {}
    /\ faults = 0

OverlayNext ==
    \/ \E n \in Members : \/ \E type \in {"ANNOUNCE", "ACK", "LIST"} : Receive(n, type)
                         \/ SendHeartbeat(n) \/ RestartMember(n)
    \/ \E c \in Clients : SaveContext(c) \/ \E w \in Work : Submit(c, w)
    \/ \E b \in Brokers :
          \/ AnnounceYourself(b) \/ GetNewBundles(b) \/ HandleBundle(b) \/ SendReplies(b)
          \/ QueueWorker(b) \/ Crash(b) \/ Start(b) \/ StartTasks(b)
    \/ Lose

OverlaySpec == OverlayInit /\ [][OverlayNext]_overlayVars

\* Nodes poll every ten seconds and handle all they get, timers go off, and tasks
\* run.  Nobody has to start a broker again, submit anything or restart.
Fairness ==
    /\ \A n \in Members : WF_overlayVars(Receive(n, "ANNOUNCE")) /\ WF_overlayVars(Receive(n, "ACK"))
    /\ \A c \in Clients : WF_overlayVars(Receive(c, "LIST"))
    /\ \A n \in Executors \cup Datastores : WF_overlayVars(SendHeartbeat(n))
    /\ \A b \in Brokers : /\ WF_overlayVars(AnnounceYourself(b)) /\ WF_overlayVars(GetNewBundles(b))
                          /\ WF_overlayVars(HandleBundle(b)) /\ WF_overlayVars(SendReplies(b))
                          /\ WF_overlayVars(StartTasks(b)) /\ WF_overlayVars(QueueWorker(b))

OverlayFairSpec == OverlaySpec /\ Fairness

-----------------------------------------------------------------------------
(* Properties                                                                 *)

BundleSet ==
    [type : {"ANNOUNCE", "REQUEST", "ACK", "SUBMIT", "PUT", "QUERY", "LIST"}, source : Members \cup Brokers,
     destination : Members \cup Brokers, work : Work \cup {Nobody}]

OverlayTypeOK ==
    /\ net \subseteq BundleSet
    /\ brokerPending \in [Members -> Brokers \cup {Nobody}]
    /\ broker \in [Members -> Brokers \cup {Nobody}]
    /\ context \in [Clients -> Brokers \cup {Nobody}]
    /\ \A n \in Members : broker[n] = Nobody \/ brokerPending[n] = Nobody
    /\ up \subseteq Brokers
    /\ discovered \in [Brokers -> SUBSET (Members \cup Brokers)]
    /\ batch \in [Brokers -> SUBSET BundleSet] /\ replies \in [Brokers -> SUBSET BundleSet]
    /\ queued \in [Brokers -> SUBSET Work]
    /\ worker \in [Brokers -> {"starting", "waiting", "notified"}]

\* Every job, put and query that a client handed to dtnd is in exactly one place:
\* on the way to the broker, in a poll the broker is handling or among its replies,
\* queued, served, or among those that were lost with a bundle, a broker or a
\* handler that raised.
WorkIsInOnePlace ==
    \A w \in given :
        LET bundles == net \cup UNION {batch[b] \cup replies[b] : b \in Brokers}
        IN  Cardinality({m \in bundles : m.work = w}) + Cardinality({b \in Brokers : w \in queued[b]})
                + Cardinality({w} \cap served) + Cardinality({w} \cap dropped) = 1

\* The queue worker gets to the work that is queued while the broker knows a node
\* for it that is associated with it.  The worker looks at the queues only when it
\* is notified, and a notification is lost on a broker that handles its first poll
\* before the worker waits; _handle_discovery notifies of every request, the
\* heartbeats of a node it knows already included, so that the next one will do.
QueuedWorkIsTaken ==
    \A b \in Brokers, w \in Jobs \cup Data :
        LET waits == b \in up /\ w \in queued[b] /\ \E n \in Available(b, w) : broker[n] = b
        IN  waits ~> ~waits

\* A broker that was restarted, and forgot everyone, learns again of every executor
\* and datastore that is associated with it, from their periodic heartbeats.
NodesAreRediscovered ==
    \A n \in Executors \cup Datastores, b \in Brokers :
        (broker[n] = b /\ b \in up) ~> (n \in discovered[b] \/ b \notin up \/ broker[n] # b)

\* Every member finds a broker while one keeps running, unless its one request or
\* the answer to it was lost: no member asks again (_broker_pending stays set).
MembersAssociate ==
    \A n \in Members :
        (broker[n] = Nobody /\ up # {}) ~> (broker[n] # Nobody \/ n \in unanswered \/ up = {})

\* A query is answered while its broker keeps running, unless it or its answer was
\* lost, with the broker or with another client's job in the same poll.
QueriesAreAnswered ==
    \A q \in Queries : (q \in given) ~> (q \in served \cup dropped \/ up # Brokers)

\* What _handle_job_submit and _queue_worker say they do: work is lost in none of
\* the broker's handlers, but forwarded to an available node.
WorkIsForwarded == faults = 0 => dropped = {}
=============================================================================
