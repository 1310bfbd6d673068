------------------------------ MODULE ClaManager ------------------------------
(***************************************************************************)
(* The manager of convergence layer adapters (pkg/cla) with the life cycle *)
(* of the connections it manages: MTCP clients and QUICL endpoints, made   *)
(* by discovery or by the QUICL listener.  The critical sections of the    *)
(* manager do not wait inside and are one step each; what makes the        *)
(* manager hard is that a connection is activated, used, lost and removed  *)
(* by different goroutines, and that it is removed by its address.         *)
(***************************************************************************)
EXTENDS Naturals

CONSTANTS
    MTCP,           \* addresses that are announced for MTCP
    QUICL,          \* addresses of QUICL peers: announced ones, and
    Accepted,       \* those of peers that have connected to the listener
    MaxObjects      \* bound: CLA objects made for one address

ASSUME AddressAssumption ==
    /\ MTCP \cap QUICL = {}
    /\ Accepted \subseteq QUICL
    /\ MaxObjects \in Nat \ {0}

VARIABLES
    pendingStart,   \* CLAs that are being activated
    senders,        \* CLAs that processing sends with
    pendingRemoval, \* addresses with a NotifyDisconnect under way
    act,            \* how far registerAsync and activateCLA are with each CLA
    conn,           \* the connection of each CLA
    handlers,       \* CLAs whose handler or handleConnection goroutine runs
    sending,        \* CLAs a Send is under way on
    receiving,      \* QUICL endpoints a handleStream is under way on
    stopped,        \* MTCPClient.stopped
    notifying,      \* calls of NotifyDisconnect, <<CLA, calling goroutine>>
    removing,       \* those that have entered their address in pendingRemoval
    disconnected,   \* history: CLAs NotifyDisconnect has removed
    closing,        \* CLAs the shutdown has spawned a Close for
    singleton       \* managerSingleton: "up", "nil", or "fatal" once used while nil

lists   == <<pendingStart, senders>>
calls   == <<pendingRemoval, notifying, removing, disconnected>>
adapter == <<act, conn, handlers, sending, receiving, stopped>>
manager == <<closing, singleton>>
vars    == <<lists, calls, adapter, manager>>

Addresses == MTCP \cup QUICL

\* A CLA object: its Address() and which of the objects with it it is.
Convergence == Addresses \X (1 .. MaxObjects)
IsMTCP(cla)  == cla[1] \in MTCP
IsQUICL(cla) == cla[1] \in QUICL

SameAddress(list, cla) == {other \in list : other[1] = cla[1]}

\* What the goroutines that call NotifyDisconnect are: the one that watches the
\* connection, a Send, or a handleStream.
Callers == {"handler", "send", "receive"}

\* GetManagerSingleton ends the process if the manager is gone; the goroutines
\* that run until it has ended may still take steps.
GetManagerSingleton == singleton' = IF singleton = "up" THEN "up" ELSE "fatal"

checkPresent(cla) == SameAddress(pendingStart \cup senders, cla) # {}

-----------------------------------------------------------------------------
(* Registration                                                               *)

\* handleDiscovery makes a CLA unless one is present, and calls Register.
HandleDiscovery(cla) ==
    /\ cla[1] \notin Accepted
    /\ act[cla] = "none"
    /\ ~checkPresent(cla)
    /\ act' = [act EXCEPT ![cla] = "register"]
    /\ GetManagerSingleton
    /\ UNCHANGED <<lists, calls, conn, handlers, sending, receiving, stopped, closing>>

\* The QUICL listener registers every connection it accepts.
Accept(cla) ==
    /\ cla[1] \in Accepted
    /\ act[cla] = "none"
    /\ act' = [act EXCEPT ![cla] = "register"]
    /\ GetManagerSingleton
    /\ UNCHANGED <<lists, calls, conn, handlers, sending, receiving, stopped, closing>>

registerAsync(cla) ==
    /\ act[cla] = "register"
    /\ IF checkPresent(cla)
       THEN /\ act' = [act EXCEPT ![cla] = "rejected"]
            /\ UNCHANGED pendingStart
       ELSE /\ act' = [act EXCEPT ![cla] = "activate"]
            /\ pendingStart' = pendingStart \cup {cla}
    /\ UNCHANGED <<senders, calls, conn, handlers, sending, receiving, stopped, manager>>

\* Activate dials (and, for QUICL, shakes hands) and starts the goroutine that
\* watches the connection; or it fails.  NotifyConnect needs the singleton.
Activate(cla) ==
    /\ act[cla] = "activate"
    /\ \/ /\ conn' = [conn EXCEPT ![cla] = "up"]
          /\ handlers' = handlers \cup {cla}
          /\ act' = [act EXCEPT ![cla] = "activated"]
          /\ GetManagerSingleton
       \/ /\ act' = [act EXCEPT ![cla] = "failed"]
          /\ UNCHANGED <<conn, handlers, singleton>>
    /\ UNCHANGED <<lists, calls, sending, receiving, stopped, closing>>

\* Mutant of activateCLA: it returns when Activate has failed.
activateCLAReturns(cla) ==
    /\ act[cla] \in {"activated", "failed"}
    /\ IF act[cla] = "failed"
       THEN UNCHANGED lists
       ELSE /\ pendingStart' = pendingStart \ SameAddress(pendingStart, cla)
            /\ senders' = senders \cup {cla}
    /\ act' = [act EXCEPT ![cla] = IF @ = "activated" THEN "listed" ELSE "rejected"]
    /\ UNCHANGED <<calls, conn, handlers, sending, receiving, stopped, manager>>

\* The rest of activateCLA.
activateCLA(cla) ==
    /\ act[cla] \in {"activated", "failed"}
    /\ pendingStart' = pendingStart \ SameAddress(pendingStart, cla)
    /\ senders' = IF act[cla] = "activated" THEN senders \cup {cla} ELSE senders
    /\ act' = [act EXCEPT ![cla] = IF @ = "activated" THEN "listed" ELSE "rejected"]
    /\ UNCHANGED <<calls, conn, handlers, sending, receiving, stopped, manager>>

-----------------------------------------------------------------------------
(* Connections and the goroutines on them                                     *)

\* A connection breaks: without an answer, or for QUICL also by the peer's
\* closing it or by another error of the transport.
Lose(cla, how) ==
    /\ conn[cla] = "up"
    /\ how \in IF IsMTCP(cla) THEN {"timeout"} ELSE {"timeout", "remote", "error"}
    /\ conn' = [conn EXCEPT ![cla] = how]
    /\ UNCHANGED <<lists, calls, act, handlers, sending, receiving, stopped, manager>>

\* A goroutine calls NotifyDisconnect, through the singleton.
CallNotify(cla, caller) ==
    /\ notifying' = IF singleton = "up" THEN notifying \cup {<<cla, caller>>} ELSE notifying
    /\ GetManagerSingleton

\* Mutant of CloseClient: stopped is set but not looked at.
CloseClientAgain(cla, caller) ==
    stopped' = stopped \cup {cla} /\ CallNotify(cla, caller)

\* MTCPClient.Close
CloseClient(cla, caller) ==
    IF cla \in stopped
    THEN UNCHANGED <<stopped, notifying, singleton>>
    ELSE stopped' = stopped \cup {cla} /\ CallNotify(cla, caller)

\* MTCPClient.handler: the keepalive fails.
KeepaliveFails(cla) ==
    /\ IsMTCP(cla)
    /\ cla \in handlers
    /\ conn[cla] # "up"
    /\ CloseClient(cla, "handler")
    /\ UNCHANGED <<lists, act, conn, handlers, sending, receiving, pendingRemoval, removing, disconnected, closing>>

\* MTCPClient.handler: stopSyn is closed after NotifyDisconnect has returned.
HandlerStops(cla) ==
    /\ IsMTCP(cla)
    /\ cla \in handlers \cap disconnected
    /\ handlers' = handlers \ {cla}
    /\ conn' = [conn EXCEPT ![cla] = "closed"]
    /\ UNCHANGED <<lists, calls, act, sending, receiving, stopped, manager>>

\* Endpoint.handleConnection: AcceptStream fails.  On errors that are neither a
\* timeout nor the peer's doing the loop goes round again.
handleConnection(cla) ==
    /\ IsQUICL(cla)
    /\ cla \in handlers
    /\ conn[cla] \in {"timeout", "remote", "closed"}
    /\ handlers' = handlers \ {cla}
    /\ IF conn[cla] = "closed"
       THEN UNCHANGED <<notifying, singleton>>
       ELSE CallNotify(cla, "handler")
    /\ UNCHANGED <<lists, act, conn, sending, receiving, stopped, pendingRemoval, removing, disconnected, closing>>

\* Processing begins to send with a CLA that GetSenders returned.
SendStart(cla) ==
    /\ cla \in senders
    /\ sending' = sending \cup {cla}
    /\ UNCHANGED <<lists, calls, act, conn, handlers, receiving, stopped, manager>>

\* Send returns, perhaps without having noticed that the connection broke.  An MTCP
\* client is closed on any error, also one of marshalling; a QUICL endpoint calls
\* NotifyDisconnect on a timeout.
SendEnd(cla) ==
    /\ cla \in sending
    /\ sending' = sending \ {cla}
    /\ \/ UNCHANGED <<stopped, notifying, singleton>>
       \/ IsMTCP(cla) /\ CloseClient(cla, "send")
       \/ /\ IsQUICL(cla) /\ conn[cla] = "timeout"
          /\ CallNotify(cla, "send")
          /\ UNCHANGED stopped
    /\ UNCHANGED <<lists, act, conn, handlers, receiving, pendingRemoval, removing, disconnected, closing>>

\* handleConnection accepts a stream and starts handleStream on it.
AcceptStream(cla) ==
    /\ IsQUICL(cla)
    /\ cla \in handlers
    /\ conn[cla] = "up"
    /\ receiving' = receiving \cup {cla}
    /\ UNCHANGED <<lists, calls, act, conn, handlers, sending, stopped, manager>>

\* handleStream returns, with a bundle or with an error; a timeout is reported.
handleStream(cla) ==
    /\ cla \in receiving
    /\ receiving' = receiving \ {cla}
    /\ \/ UNCHANGED <<notifying, singleton>>
       \/ conn[cla] = "timeout" /\ CallNotify(cla, "receive")
    /\ UNCHANGED <<lists, act, conn, handlers, sending, stopped, pendingRemoval, removing, disconnected, closing>>

-----------------------------------------------------------------------------
(* NotifyDisconnect, in the two parts its locks make of it.                   *)

NotifyDisconnect(cla, caller) ==
    /\ <<cla, caller>> \in notifying
    /\ notifying' = notifying \ {<<cla, caller>>}
    /\ IF cla[1] \in pendingRemoval
       THEN UNCHANGED <<pendingRemoval, removing>>
       ELSE /\ pendingRemoval' = pendingRemoval \cup {cla[1]}
            /\ removing' = removing \cup {<<cla, caller>>}
    /\ UNCHANGED <<lists, adapter, disconnected, manager>>

\* Mutant of RemoveCLA: it returns after the list of receivers.
RemoveCLAReceivers(cla, caller) ==
    /\ <<cla, caller>> \in removing
    /\ removing' = removing \ {<<cla, caller>>}
    /\ pendingRemoval' = pendingRemoval \ {cla[1]}
    /\ disconnected' = disconnected \cup {cla}
    /\ UNCHANGED <<lists, adapter, notifying, manager>>

RemoveCLA(cla, caller) ==
    /\ <<cla, caller>> \in removing
    /\ removing' = removing \ {<<cla, caller>>}
    /\ senders' = senders \ SameAddress(senders, cla)
    /\ pendingRemoval' = pendingRemoval \ {cla[1]}
    /\ disconnected' = disconnected \cup {cla}
    /\ UNCHANGED <<pendingStart, adapter, notifying, manager>>

-----------------------------------------------------------------------------
(* shutdown: the singleton goes first, the connections are closed after it.   *)

Shutdown ==
    /\ singleton = "up"
    /\ singleton' = "nil"
    /\ UNCHANGED <<lists, calls, adapter, closing>>

ShutdownLists ==
    /\ singleton = "nil"
    /\ closing' = closing \cup senders
    /\ senders' = {}
    /\ UNCHANGED <<pendingStart, calls, adapter, singleton>>

\* The Close of a CLA.  For QUICL it closes the connection and nothing else.
Close(cla) ==
    /\ cla \in closing
    /\ closing' = closing \ {cla}
    /\ IF IsMTCP(cla)
       THEN CloseClient(cla, "send") /\ UNCHANGED conn
       ELSE /\ conn' = [conn EXCEPT ![cla] = IF @ = "up" THEN "closed" ELSE @]
            /\ UNCHANGED <<stopped, notifying, singleton>>
    /\ UNCHANGED <<lists, pendingRemoval, removing, disconnected, act, handlers, sending, receiving>>

ManagerInit ==
    /\ pendingStart = {} /\ senders = {} /\ pendingRemoval = {}
    /\ act = [cla \in Convergence |-> "none"]
    /\ conn = [cla \in Convergence |-> "none"]
    /\ handlers = {} /\ sending = {} /\ receiving = {} /\ stopped = {}
    /\ notifying = {} /\ removing = {} /\ disconnected = {} /\ closing = {}
    /\ singleton = "up"

RegisterStep(cla) ==
    \/ HandleDiscovery(cla)
    \/ Accept(cla)
    \/ registerAsync(cla)
    \/ Activate(cla)
    \/ activateCLA(cla)

ConnectionStep(cla) ==
    \/ \E how \in {"timeout", "remote", "error"} : Lose(cla, how)
    \/ KeepaliveFails(cla)
    \/ HandlerStops(cla)
    \/ handleConnection(cla)
    \/ SendStart(cla)
    \/ SendEnd(cla)
    \/ AcceptStream(cla)
    \/ handleStream(cla)

DisconnectStep(cla) ==
    \E caller \in Callers : NotifyDisconnect(cla, caller) \/ RemoveCLA(cla, caller)

ShutdownStep ==
    \/ Shutdown
    \/ ShutdownLists
    \/ \E cla \in Convergence : Close(cla)

ManagerNext ==
    \/ \E cla \in Convergence :
          RegisterStep(cla) \/ ConnectionStep(cla) \/ DisconnectStep(cla)
    \/ ShutdownStep

ManagerSpec == ManagerInit /\ [][ManagerNext]_vars

\* A goroutine that is in NotifyDisconnect runs on, also when others enter it.
\* Nothing is assumed of discovery, dialling, the network or what is sent.
ManagerFairness ==
    \A cla \in Convergence, caller \in Callers :
        /\ WF_vars(NotifyDisconnect(cla, caller))
        /\ WF_vars(RemoveCLA(cla, caller))

ManagerFairSpec == ManagerSpec /\ ManagerFairness

-----------------------------------------------------------------------------
\* Every variable has its type; only MTCP clients have a stopped flag, only CLAs
\* that were connected are watched and only listed ones are sent with.
ManagerTypeOK ==
    /\ pendingStart \subseteq Convergence
    /\ senders \subseteq Convergence
    /\ pendingRemoval \subseteq Addresses
    /\ act \in [Convergence -> {"none", "register", "rejected", "activate",
                                "activated", "failed", "listed"}]
    /\ conn \in [Convergence -> {"none", "up", "timeout", "remote", "error", "closed"}]
    /\ stopped \subseteq {cla \in Convergence : IsMTCP(cla) /\ conn[cla] # "none"}
    /\ receiving \subseteq {cla \in Convergence : IsQUICL(cla) /\ conn[cla] # "none"}
    /\ handlers \subseteq {cla \in Convergence : conn[cla] # "none"}
    /\ sending \cup closing \subseteq {cla \in Convergence : act[cla] = "listed"}
    /\ notifying \cup removing \subseteq Convergence \X Callers
    /\ disconnected \subseteq Convergence
    /\ singleton \in {"up", "nil", "fatal"}

\* A CLA is in pendingStart exactly while its activateCLA runs, however it ends:
\* no address stays blocked for later discoveries by an activation that is over.
PendingIsActivating ==
    pendingStart = {cla \in Convergence : act[cla] \in {"activate", "activated", "failed"}}

\* Two goroutines that register CLAs with the same address, both after a check
\* that found none, still leave one of them in the manager's lists.
OneEntryPerAddress ==
    /\ pendingStart \cap senders = {}
    /\ \A cla, other \in pendingStart \cup senders : cla[1] = other[1] => cla = other

\* An address is in pendingRemoval exactly while one NotifyDisconnect removes it:
\* no call is turned away as "already pending removal" when nobody is left to do it.
RemovalIsUnderWay ==
    /\ pendingRemoval = {r[1][1] : r \in removing}
    /\ \A r, s \in removing : r[1][1] = s[1][1] => r = s

\* NotifyDisconnect removes by address, perhaps long after the connection was
\* lost; for MTCP it still removes nothing but the CLA it was called for: a
\* client that nobody has closed stays in use until the shutdown.
ConnectedIsListed ==
    singleton = "up" =>
        \A cla \in Convergence :
            IsMTCP(cla) /\ act[cla] = "listed" /\ cla \notin stopped => cla \in senders

\* A CLA that somebody calls NotifyDisconnect for leaves the list of senders, also
\* when the call is turned away because another one is under way.
DisconnectIsHandled ==
    \A cla \in Convergence :
        (cla \in senders /\ \E caller \in Callers : <<cla, caller>> \in notifying) ~>
            (cla \notin senders \/ singleton # "up")

\* "Will remove the CLA from either or both of the manager's lists": once
\* NotifyDisconnect has returned, the CLA is not in use.
DisconnectedIsUnlisted == disconnected \cap senders = {}

\* The address identifies a CLA "and ensure[s] it will not be opened twice": while
\* the manager runs, no two connections to the same address are up.
OpenedOnce ==
    singleton = "up" =>
        \A cla, other \in Convergence :
            cla[1] = other[1] /\ conn[cla] = "up" /\ conn[other] = "up" => cla = other

\* "Attempting to access an uninitialised CLA manager. This must never happen!"
SingletonIsInitialised == singleton # "fatal"
=============================================================================
