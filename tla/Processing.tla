------------------------------ MODULE Processing ------------------------------
(***************************************************************************)
(* Bundle processing (pkg/processing) with epidemic routing, on top of the *)
(* bundle store: goroutines that receive a bundle, goroutines that forward *)
(* one, the periodic dispatch and garbage collection jobs, and peers that  *)
(* come and go.  Delivery to mailboxes touches nothing modelled here.      *)
(***************************************************************************)
EXTENDS BundleStore

CONSTANTS
    Receivers,      \* bound: receiveAsync goroutines at a time
    Forwarders      \* bound: forwardingAsync goroutines at a time

VARIABLES
    recv,       \* receiveAsync goroutines
    fwd,        \* forwardingAsync goroutines
    senders,    \* peers a sending CLA is connected to
    holds,      \* history: <<bundle, peer>> where the peer has the bundle
    tried       \* history: descriptors some forwardingAsync chose peers for

procVars == <<recv, fwd, senders, holds, tried>>
allVars  == <<vars, procVars>>

Peers == EndpointIDs \ {NodeID}

Ready == [pc |-> "ready", id |-> Null, p |-> Null]

RecvState == [pc : {"ready", "insert", "check"},
              id : BundleIDs \cup {Null},
              p : Pointer \cup {Null}]

Done == [pc |-> "done", p |-> Null, peers |-> {}]

FwdState == [pc : {"done", "add", "remove", "select", "contraindicated", "load", "send"},
             p : Pointer \cup {Null},
             peers : SUBSET Peers]

Spawn(f, p) == fwd' = [fwd EXCEPT ![f] = [pc |-> "add", p |-> p, peers |-> {}]]
Goto(f, pc) == fwd' = [fwd EXCEPT ![f].pc = pc]
Exit(f)     == fwd' = [fwd EXCEPT ![f] = Done]

\* Go on after a descriptor method, or where the code goes on its error.
OnError(p, f) == desc[p].deleted /\ Exit(f) /\ UNCHANGED vars

-----------------------------------------------------------------------------
(* receiveAsync, for a bundle from a peer or, with Null, from an application. *)

\* InsertBundle finds the bundle: it returns the descriptor, with the sender
\* added as a holder, which fails if the descriptor is deleted.
ReceiveKnown(r, b, from) ==
    /\ recv[r] = Ready
    /\ stateMutex = Unlocked
    /\ bundles[b] # Null
    /\ IF from = Null THEN UNCHANGED vars ELSE InsertKnownBundle(b, from)
    /\ recv' = [recv EXCEPT ![r] = [pc |-> "check", id |-> b, p |-> bundles[b]]]
    /\ holds' = holds \cup {<<b, from>>}
    /\ UNCHANGED <<fwd, senders, tried>>

\* InsertBundle has to store the bundle.
ReceiveNew(r, b, from) ==
    /\ recv[r] = Ready
    /\ InsertMetadata(b, from)
    /\ recv' = [recv EXCEPT ![r] = [pc |-> "insert", id |-> b, p |-> Null]]
    /\ holds' = holds \cup {<<b, from>>}
    /\ UNCHANGED <<fwd, senders, tried>>

ReceiveCreate(r) ==
    /\ recv[r].pc = "insert"
    /\ CreateFile(recv[r].id)
    /\ recv' = IF stateMutex' = Unlocked THEN [recv EXCEPT ![r] = Ready] ELSE recv
    /\ UNCHANGED <<fwd, senders, holds, tried>>

ReceiveWrite(r) ==
    /\ recv[r].pc = "insert"
    /\ \E p \in Pointer :
          /\ WriteFile(p)
          /\ recv' = [recv EXCEPT ![r] = IF p \in DOMAIN desc' \ DOMAIN desc
                                         THEN [pc |-> "check", id |-> p[1], p |-> p]
                                         ELSE Ready]
    /\ UNCHANGED <<fwd, senders, holds, tried>>

\* HasConstraint(DispatchPending), then BundleForwarding.
ReceiveForward(r, f) ==
    /\ recv[r].pc = "check"
    /\ LET p == recv[r].p
       IN  IF Live(p) /\ "DispatchPending" \in desc[p].retentionConstraints
           THEN fwd[f] = Done /\ Spawn(f, p)
           ELSE UNCHANGED fwd
    /\ recv' = [recv EXCEPT ![r] = Ready]
    /\ UNCHANGED <<vars, senders, holds, tried>>

-----------------------------------------------------------------------------
(* forwardingAsync                                                            *)

\* DispatchPending, run by a timer and for every new peer, for one of the
\* bundles GetDispatchable returns.
DispatchPending(b, f) ==
    /\ stateMutex = Unlocked
    /\ b \in GetDispatchable
    /\ fwd[f] = Done
    /\ Spawn(f, bundles[b])
    /\ UNCHANGED <<vars, recv, senders, holds, tried>>

\* Mutant of ForwardAdd: the pipeline only removes "DispatchPending".
ForwardAddSkipped(f) ==
    /\ fwd[f].pc = "add"
    /\ Goto(f, "remove")
    /\ UNCHANGED <<vars, recv, senders, holds, tried>>

ForwardAdd(f) ==
    /\ fwd[f].pc = "add"
    /\ \/ AddConstraint(fwd[f].p, "ForwardPending") /\ Goto(f, "remove")
       \/ OnError(fwd[f].p, f)
    /\ UNCHANGED <<recv, senders, holds, tried>>

ForwardRemove(f) ==
    /\ fwd[f].pc = "remove"
    /\ \/ RemoveConstraint(fwd[f].p, "DispatchPending") /\ Goto(f, "select")
       \/ OnError(fwd[f].p, f)
    /\ UNCHANGED <<recv, senders, holds, tried>>

\* The peers that are not known to hold the bundle; none for a deleted one.
FilterPeers(p, clas) == IF desc[p].deleted THEN {} ELSE clas \ desc[p].metadata.KnownHolders

\* Epidemic routing, on the senders the CLA manager has.
SelectPeersForForwarding(p) == FilterPeers(p, senders)

ForwardSelect(f) ==
    /\ fwd[f].pc = "select"
    /\ LET peers == SelectPeersForForwarding(fwd[f].p)
       IN  fwd' = [fwd EXCEPT ![f].pc = IF peers = {} THEN "contraindicated" ELSE "load",
                              ![f].peers = peers]
    /\ tried' = tried \cup {fwd[f].p}
    /\ UNCHANGED <<vars, recv, senders, holds>>

\* Mutant of ForwardContraindicated: without peers the bundle is deleted outright.
ForwardContraindicatedDeletes(f) ==
    /\ fwd[f].pc = "contraindicated"
    /\ SetDescriptor(fwd[f].p, [desc[fwd[f].p] EXCEPT !.deleted = TRUE])
    /\ Exit(f)
    /\ UNCHANGED <<bundles, stateMutex, disk, expired, recv, senders, holds, tried>>

ForwardContraindicated(f) ==
    /\ fwd[f].pc = "contraindicated"
    /\ \/ ResetConstraints(fwd[f].p) /\ Exit(f)
       \/ OnError(fwd[f].p, f)
    /\ UNCHANGED <<recv, senders, holds, tried>>

\* On an error the goroutine returns, and "ForwardPending" stays.
ForwardLoad(f) ==
    /\ fwd[f].pc = "load"
    /\ IF LoadResult(fwd[f].p) = "bundle" THEN Goto(f, "send") ELSE Exit(f)
    /\ UNCHANGED <<vars, recv, senders, holds, tried>>

\* One forwardBundleToPeer returns: the transfer succeeded and the peer becomes
\* a known holder (unless the descriptor was deleted meanwhile), or it failed.
ForwardSent(f, peer) ==
    /\ fwd[f].pc = "send"
    /\ peer \in fwd[f].peers \cap senders
    /\ AddKnownHolder(fwd[f].p, peer) \/ (desc[fwd[f].p].deleted /\ UNCHANGED vars)
    /\ fwd' = [fwd EXCEPT ![f].peers = @ \ {peer}]
    /\ holds' = holds \cup {<<fwd[f].p[1], peer>>}
    /\ UNCHANGED <<recv, senders, tried>>

\* Mutant of ForwardFailed: the peer becomes a known holder all the same.
ForwardFailedRecorded(f, peer) ==
    /\ fwd[f].pc = "send"
    /\ peer \in fwd[f].peers
    /\ AddKnownHolder(fwd[f].p, peer)
    /\ fwd' = [fwd EXCEPT ![f].peers = @ \ {peer}]
    /\ UNCHANGED <<recv, senders, holds, tried>>

ForwardFailed(f, peer) ==
    /\ fwd[f].pc = "send"
    /\ peer \in fwd[f].peers
    /\ fwd' = [fwd EXCEPT ![f].peers = @ \ {peer}]
    /\ UNCHANGED <<vars, recv, senders, holds, tried>>

\* Mutant of ForwardEnd: "ForwardPending" is never removed.
ForwardEndPending(f) ==
    /\ fwd[f].pc = "send"
    /\ fwd[f].peers = {}
    /\ Exit(f)
    /\ UNCHANGED <<vars, recv, senders, holds, tried>>

\* wg.Wait returns when no transfer is left.
ForwardEnd(f) ==
    /\ fwd[f].pc = "send"
    /\ fwd[f].peers = {}
    /\ \/ RemoveConstraint(fwd[f].p, "ForwardPending")
       \/ desc[fwd[f].p].deleted /\ UNCHANGED vars
    /\ Exit(f)
    /\ UNCHANGED <<recv, senders, holds, tried>>

-----------------------------------------------------------------------------
PeerAppears(peer) ==
    /\ peer \notin senders
    /\ senders' = senders \cup {peer}
    /\ UNCHANGED <<vars, recv, fwd, holds, tried>>

PeerDisappears(peer) ==
    /\ peer \in senders
    /\ senders' = senders \ {peer}
    /\ UNCHANGED <<vars, recv, fwd, holds, tried>>

\* The garbage collection job, the deletions it spawns, and time.
BackgroundStep ==
    /\ CollectStep \/ DeleteStep \/ \E b \in BundleIDs : Expire(b)
    /\ UNCHANGED procVars

DaemonRestart ==
    /\ Restart
    /\ recv' = [r \in Receivers |-> Ready]
    /\ fwd' = [f \in Forwarders |-> Done]
    /\ senders' = {}
    /\ tried' = {}
    /\ UNCHANGED holds

ProcInit ==
    /\ Init
    /\ recv = [r \in Receivers |-> Ready]
    /\ fwd = [f \in Forwarders |-> Done]
    /\ senders = {}
    /\ holds = {}
    /\ tried = {}

ReceiveStep(r) ==
    \/ \E b \in BundleIDs, from \in Peers \cup {Null} :
          ReceiveKnown(r, b, from) \/ ReceiveNew(r, b, from)
    \/ ReceiveCreate(r)
    \/ ReceiveWrite(r)
    \/ \E f \in Forwarders : ReceiveForward(r, f)

ForwardStep(f) ==
    \/ ForwardAdd(f)
    \/ ForwardRemove(f)
    \/ ForwardSelect(f)
    \/ ForwardContraindicated(f)
    \/ ForwardLoad(f)
    \/ \E peer \in Peers : ForwardSent(f, peer) \/ ForwardFailed(f, peer)
    \/ ForwardEnd(f)

ProcNext ==
    \/ \E r \in Receivers : ReceiveStep(r)
    \/ \E f \in Forwarders : ForwardStep(f) \/ \E b \in BundleIDs : DispatchPending(b, f)
    \/ \E peer \in Peers : PeerAppears(peer) \/ PeerDisappears(peer)
    \/ BackgroundStep
    \/ DaemonRestart

ProcSpec == ProcInit /\ [][ProcNext]_allVars

\* Goroutines run on, critical sections end, the dispatch job comes round again
\* and finds the lock free, and on a connection that stays up not every transfer
\* fails.  Nothing is assumed about receptions, peers, expiry or restarts.
ProcFairness ==
    /\ \A f \in Forwarders :
          /\ WF_allVars(ForwardStep(f))
          /\ \A peer \in Peers : SF_allVars(ForwardSent(f, peer))
    /\ \A r \in Receivers : WF_allVars(ReceiveCreate(r) \/ ReceiveWrite(r))
    /\ \A b \in BundleIDs : SF_allVars(\E f \in Forwarders : DispatchPending(b, f))
    /\ WF_allVars(/\ stateMutex # Unlocked
                  /\ BackgroundStep
                  /\ UNCHANGED expired)

ProcFairSpec == ProcSpec /\ ProcFairness

-----------------------------------------------------------------------------
\* The goroutines' state has its type; pointers they hold are to objects.
ProcTypeOK ==
    /\ recv \in [Receivers -> RecvState]
    /\ fwd \in [Forwarders -> FwdState]
    /\ senders \subseteq Peers
    /\ holds \subseteq BundleIDs \X (Peers \cup {Null})
    /\ tried \subseteq DOMAIN desc
    /\ \A r \in Receivers : recv[r].pc = "check" => recv[r].p \in DOMAIN desc
    /\ \A f \in Forwarders : fwd[f].pc # "done" => fwd[f].p \in DOMAIN desc

\* Processing uses the store as BundleStore allows: each of its steps is a step
\* of the store or leaves the store alone, so all that holds of the store holds
\* of the daemon.
UsesBundleStore == Spec

AreHolders(b, metadata) ==
    \A peer \in metadata.KnownHolders \ {NodeID} : <<b, peer>> \in holds

\* Nobody is recorded as a holder of a bundle, in memory or on disk, who neither
\* sent it nor received it: epidemic routing never withholds a bundle from a peer
\* that does not have it, whatever transfers fail and whenever the daemon restarts.
KnownHoldersHold ==
    /\ \A p \in DOMAIN desc : AreHolders(p[1], desc[p].metadata)
    /\ \A b \in BundleIDs : metadataStore[b] # Null => AreHolders(b, metadataStore[b])

\* An expired bundle is collected only after a forwardingAsync has looked for
\* peers to send it to: the constraint a new descriptor starts with protects it
\* until then, in a daemon in which only garbage collection deletes.
TriedBeforeDeleted == \A p \in DOMAIN desc : desc[p].deleted => p \in tried

\* "If the bundle has the ForwardPending constraint, then it is currently going
\* though the processing pipeline and should not be dispatched again": no two
\* goroutines are in the pipeline with the same bundle.
OnePipelinePerBundle ==
    \A f, g \in Forwarders :
        f # g /\ fwd[f].pc \notin {"done", "add"} /\ fwd[g].pc \notin {"done", "add"}
            => fwd[f].p # fwd[g].p

\* "bundle's with constraints are also currently being processed": a bundle with
\* ForwardPending, which is neither dispatched nor collected, is being forwarded.
ForwardPendingIsForwarded ==
    \A p \in DOMAIN desc :
        "ForwardPending" \in desc[p].retentionConstraints =>
            \E f \in Forwarders : fwd[f].p = p

\* A bundle that was accepted reaches every peer that stays connected, or is
\* deleted: no interleaving of pipelines, failed transfers, collections and new
\* receptions leaves it in a state in which it is not dispatched again.
AcceptedIsForwarded ==
    \A b \in BundleIDs, peer \in Peers :
        <>[](b \in accepted /\ peer \in senders) => <>(<<b, peer>> \in holds)
=============================================================================
