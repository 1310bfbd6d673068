------------------------------- MODULE Mailbox -------------------------------
(***************************************************************************)
(* One mailbox of an application agent (pkg/application_agent/mailbox.go)  *)
(* on top of the bundle store.  The mailbox holds bundle IDs only; every   *)
(* fetch looks each bundle up in the store and loads it while the store's  *)
(* deletions go on.  Fetches that do not remove share the lock.            *)
(***************************************************************************)
EXTENDS AbstractStore

CONSTANTS
    Clients,    \* goroutines that serve fetch requests or collect garbage
    Calls       \* the <<method, remove>> pairs the agent uses

VARIABLES
    messages,   \* Mailbox.messages: "absent", or whether already retrieved
    fetch,      \* the Get, GetAll or GetNew each client is in, and so rwMutex
    delivered,  \* history: IDs Deliver has put into the mailbox
    handed,     \* history: IDs of bundles returned to a client
    dropped     \* history: IDs the client deleted or GC found gone

history == <<delivered, handed, dropped>>
mailboxVars == <<messages, fetch, history>>
allVars == <<status, mailboxVars>>

Methods == {"Get", "GetAll", "GetNew"}

ASSUME CallsAssumption == Calls \subseteq Methods \X BOOLEAN

Idle == [method |-> "none", remove |-> FALSE, todo |-> {}, loading |-> {}, got |-> {}]

FetchState == [method : Methods \cup {"wait", "GC", "none"},
               remove : BOOLEAN,
               todo : SUBSET BundleIDs,
               loading : SUBSET BundleIDs,      \* looked up, not yet loaded
               got : SUBSET BundleIDs]

Stored == {b \in BundleIDs : messages[b] # "absent"}

\* A garbage collection that waits for the lock.
Waiting == [Idle EXCEPT !.method = "wait"]

\* rwMutex: a removing fetch holds it alone, the others share it, and nobody gets
\* a share while the garbage collection waits.
CanLock  == \A c \in Clients : fetch[c] \in {Idle, Waiting}
CanRLock == \A c \in Clients : ~fetch[c].remove /\ fetch[c] # Waiting

-----------------------------------------------------------------------------
Deliver(b) ==
    /\ CanLock
    /\ messages[b] = "absent"           \* else AlreadyDeliveredError
    /\ status[b] \in Held               \* else the error of GetBundleDescriptor
    /\ messages' = [messages EXCEPT ![b] = "new"]
    /\ delivered' = delivered \cup {b}
    /\ UNCHANGED <<status, fetch, handed, dropped>>

\* Get looks at one ID, which must be in the mailbox; the others at all of them.
FetchStart(c, method, remove, ids) ==
    /\ fetch[c] = Idle
    /\ IF remove THEN CanLock ELSE CanRLock
    /\ IF method = "Get" THEN \E b \in Stored : ids = {b} ELSE ids = Stored
    /\ fetch' = [fetch EXCEPT ![c] = [Idle EXCEPT !.method = method,
                                                  !.remove = remove,
                                                  !.todo = ids]]
    /\ UNCHANGED <<status, messages, history>>

\* A client's call returns, with or without the bundles loaded so far.
Return(c, returned) ==
    /\ fetch' = [fetch EXCEPT ![c] = Idle]
    /\ handed' = handed \cup returned

\* Mutant of FetchLookup: a bundle that is not found is skipped.
FetchLookupSkips(c, b) ==
    /\ fetch[c].method \in Methods
    /\ fetch[c].loading = {}
    /\ b \in fetch[c].todo
    /\ LET rest == [fetch[c] EXCEPT !.todo = @ \ {b}]
       IN  fetch' = [fetch EXCEPT ![c] = IF status[b] \in Held
                                         THEN [rest EXCEPT !.loading = {b}]
                                         ELSE rest]
    /\ UNCHANGED <<status, messages, history>>

\* The loop body up to GetBundleDescriptor, whose error returns nil, err.
FetchLookup(c, b) ==
    /\ fetch[c].method \in Methods
    /\ fetch[c].loading = {}
    /\ b \in fetch[c].todo
    /\ LET rest == [fetch[c] EXCEPT !.todo = @ \ {b}]
       IN  \/ /\ fetch[c].method = "GetNew" /\ messages[b] = "retrieved"
              /\ fetch' = [fetch EXCEPT ![c] = rest]
              /\ UNCHANGED handed
           \/ /\ fetch[c].method # "GetNew" \/ messages[b] = "new"
              /\ status[b] \in Held
              /\ fetch' = [fetch EXCEPT ![c] = [rest EXCEPT !.loading = {b}]]
              /\ UNCHANGED handed
           \/ /\ fetch[c].method # "GetNew" \/ messages[b] = "new"
              /\ status[b] \notin Held
              /\ Return(c, {})
    /\ UNCHANGED <<status, messages, delivered, dropped>>

\* Load and the rest of the body.  A torn file loads without an error.  Load
\* fails on a deleted descriptor, a missing file, or any error of the disk, and
\* the call returns the bundles loaded before and the error.
FetchLoad(c, b) ==
    /\ b \in fetch[c].loading
    /\ \/ /\ status[b] \in {"stored", "torn"}
          /\ messages' = IF fetch[c].method = "Get" /\ fetch[c].remove
                         THEN messages
                         ELSE [messages EXCEPT ![b] = "retrieved"]
          /\ fetch' = [fetch EXCEPT ![c].loading = {}, ![c].got = @ \cup {b}]
          /\ UNCHANGED handed
       \/ /\ Return(c, fetch[c].got)
          /\ UNCHANGED messages
    /\ UNCHANGED <<status, delivered, dropped>>

\* After the loop.  Get removes its bundle, GetAll and GetNew clear the mailbox.
FetchEnd(c) ==
    /\ fetch[c].method \in Methods
    /\ fetch[c].todo = {} /\ fetch[c].loading = {}
    /\ LET removed == IF ~fetch[c].remove THEN {}
                      ELSE IF fetch[c].method = "Get" THEN fetch[c].got
                      ELSE BundleIDs
       IN  messages' = [b \in BundleIDs |-> IF b \in removed THEN "absent" ELSE messages[b]]
    /\ Return(c, fetch[c].got)
    /\ UNCHANGED <<status, delivered, dropped>>

\* Mutant of RemoveBundles: the lock is taken for reading.
RemoveShared(ids) ==
    /\ CanRLock
    /\ messages' = [b \in BundleIDs |-> IF b \in ids THEN "absent" ELSE messages[b]]
    /\ dropped' = dropped \cup (ids \cap Stored)
    /\ UNCHANGED <<status, fetch, delivered, handed>>

RemoveBundles(ids) ==
    /\ CanLock
    /\ messages' = [b \in BundleIDs |-> IF b \in ids THEN "absent" ELSE messages[b]]
    /\ dropped' = dropped \cup (ids \cap Stored)
    /\ UNCHANGED <<status, fetch, delivered, handed>>

Delete(b) == RemoveBundles({b})
Clear     == RemoveBundles(BundleIDs)

\* GC, a goroutine of its own, holds the lock over a loop of lookups.
GCLock(c) ==
    /\ fetch[c] = Idle
    /\ fetch' = [fetch EXCEPT ![c] = Waiting]
    /\ UNCHANGED <<status, messages, history>>

GCStart(c) ==
    /\ fetch[c] = Waiting /\ CanLock
    /\ fetch' = [fetch EXCEPT ![c] = [Idle EXCEPT !.method = "GC", !.remove = TRUE,
                                                  !.todo = Stored]]
    /\ UNCHANGED <<status, messages, history>>

\* Mutant of GCVisit: only Deleted() counts, not the error of the lookup.
GCVisitDeleted(c, b) ==
    /\ fetch[c].method = "GC"
    /\ b \in fetch[c].todo
    /\ fetch' = [fetch EXCEPT ![c].todo = @ \ {b}]
    /\ IF status[b] # "deleted"
       THEN UNCHANGED <<messages, dropped>>
       ELSE messages' = [messages EXCEPT ![b] = "absent"] /\ dropped' = dropped \cup {b}
    /\ UNCHANGED <<status, delivered, handed>>

GCVisit(c, b) ==
    /\ fetch[c].method = "GC"
    /\ b \in fetch[c].todo
    /\ fetch' = [fetch EXCEPT ![c].todo = @ \ {b}]
    /\ IF status[b] \in Held
       THEN UNCHANGED <<messages, dropped>>
       ELSE messages' = [messages EXCEPT ![b] = "absent"] /\ dropped' = dropped \cup {b}
    /\ UNCHANGED <<status, delivered, handed>>

GCEnd(c) ==
    /\ fetch[c].method = "GC"
    /\ fetch[c].todo = {}
    /\ fetch' = [fetch EXCEPT ![c] = Idle]
    /\ UNCHANGED <<status, messages, history>>

\* Mailboxes are not persistent.
Restart ==
    /\ StoreRestart
    /\ messages' = [b \in BundleIDs |-> "absent"]
    /\ fetch' = [c \in Clients |-> Idle]
    /\ delivered' = {} /\ handed' = {} /\ dropped' = {}

Init ==
    /\ StoreInit
    /\ messages = [b \in BundleIDs |-> "absent"]
    /\ fetch = [c \in Clients |-> Idle]
    /\ delivered = {} /\ handed = {} /\ dropped = {}

\* The store works on, independently of the mailbox.
StoreStep(b) ==
    /\ StoreInsert(b) \/ StoreDelete(b) \/ StoreForget(b)
    /\ UNCHANGED mailboxVars

FetchStep(c) ==
    \/ \E call \in Calls, ids \in SUBSET BundleIDs : FetchStart(c, call[1], call[2], ids)
    \/ \E b \in BundleIDs : FetchLookup(c, b) \/ FetchLoad(c, b)
    \/ FetchEnd(c)

GCStep(c) ==
    \/ GCLock(c)
    \/ GCStart(c)
    \/ \E b \in BundleIDs : GCVisit(c, b)
    \/ GCEnd(c)

Next ==
    \/ \E b \in BundleIDs : StoreStep(b) \/ Deliver(b) \/ Delete(b)
    \/ \E c \in Clients : FetchStep(c) \/ GCStep(c)
    \/ Clear
    \/ Restart

Spec == Init /\ [][Next]_allVars

\* A goroutine that holds the lock goes on; the GC is called again and again, gets
\* the lock (Go's mutexes hand over in order) and its loop ends.
Fairness ==
    /\ \A c \in Clients :
          WF_allVars(\/ \E b \in BundleIDs : FetchLookup(c, b) \/ FetchLoad(c, b) \/ GCVisit(c, b)
                     \/ FetchEnd(c)
                     \/ GCEnd(c))
    /\ SF_allVars(\E c \in Clients : GCLock(c))
    /\ SF_allVars(\E c \in Clients : GCStart(c))

FairSpec == Spec /\ Fairness

-----------------------------------------------------------------------------
\* Every variable has its type; only what was delivered is returned or dropped.
TypeOK ==
    /\ status \in [BundleIDs -> Status]
    /\ messages \in [BundleIDs -> {"absent", "new", "retrieved"}]
    /\ fetch \in [Clients -> FetchState]
    /\ delivered \subseteq BundleIDs
    /\ handed \subseteq delivered
    /\ dropped \subseteq delivered

\* The IDs a fetch or a GC iterates over stay in the mailbox until it is done
\* with them: nothing removes them while it holds the lock, shared or alone.
IterationIsStable ==
    \A c \in Clients : fetch[c].todo \cup fetch[c].loading \subseteq Stored

\* Whatever was delivered is still in the mailbox, or was returned to a client,
\* or was given up on purpose: no message is lost between fetches, deletions in
\* the store and garbage collections.
NothingIsLost == \A b \in delivered : b \in Stored \cup handed \cup dropped

\* A message whose bundle has left the store, which makes every GetAll of the
\* mailbox fail, does not stay.
DanglingIsCollected ==
    \A b \in BundleIDs :
        (b \in Stored /\ status[b] \notin Held) ~> (b \notin Stored \/ status[b] \in Held)
=============================================================================
