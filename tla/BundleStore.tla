------------------------------ MODULE BundleStore ------------------------------
(***************************************************************************)
(* The bundle store of dtnd (pkg/store): the in-memory map of bundle       *)
(* descriptors, the retention constraints that protect a bundle from       *)
(* deletion, the asynchronous deletion, garbage collection, and the two    *)
(* places a bundle occupies on disk (the metadata database and one file    *)
(* per bundle).  Callers are arbitrary: any goroutine that was ever handed *)
(* a *BundleDescriptor may call any of its methods at any time.            *)
(*                                                                         *)
(* Every method of a descriptor runs under that descriptor's stateMutex,   *)
(* so it is one step.  The methods of the store run under the store's      *)
(* stateMutex; what they do step by step while they hold it is visible to  *)
(* descriptor methods and to a crash, so those steps are separate actions. *)
(***************************************************************************)
EXTENDS Naturals

CONSTANTS
    BundleIDs,      \* bundle IDs
    EndpointIDs,    \* node IDs, as they occur in the list of known holders
    NodeID,         \* the node ID of this daemon
    MiscValues,     \* what routing stores in a bundle's miscellaneous data
    MaxObjects,     \* bound: descriptor objects created for one bundle ID
    Null

ASSUME StoreAssumption ==
    /\ NodeID \in EndpointIDs
    /\ MaxObjects \in Nat \ {0}
    /\ Null \notin BundleIDs \cup EndpointIDs \cup MiscValues
    /\ Null \notin BundleIDs \X (1 .. MaxObjects)
    /\ Null \notin [KnownHolders : SUBSET EndpointIDs,
                    MiscellaneousData : MiscValues \cup {Null}]

VARIABLES
    bundles,        \* BundleStore.bundles: bundle ID -> pointer to its descriptor
    desc,           \* the heap: pointer -> BundleDescriptor
    deleting,       \* pointers with a spawned deleteBundle that has not begun
    stateMutex,     \* BundleStore.stateMutex and the writer that holds it
    metadataStore,  \* on disk: the badgerhold database, bundle ID -> metadata
    bundleFile,     \* on disk: the serialised bundle in bundleDirectory
    expired,        \* bundle IDs whose expiry date has passed
    accepted        \* history: IDs InsertBundle returned for, not deleted since

memory == <<bundles, desc, deleting, stateMutex>>
disk   == <<metadataStore, bundleFile>>
vars   == <<memory, disk, expired, accepted>>

Constraint == {"DispatchPending", "ForwardPending", "ReassemblyPending"}

\* MiscellaneousData is a map; one key (the spray counter) is ever used.
BundleMetadata == [KnownHolders : SUBSET EndpointIDs,
                   MiscellaneousData : MiscValues \cup {Null}]

\* A descriptor object: which bundle it describes and which of the objects
\* created for that bundle it is.  Objects outlive their entry in the map.
Pointer == BundleIDs \X (1 .. MaxObjects)

BundleDescriptor == [metadata : BundleMetadata,
                     retentionConstraints : SUBSET Constraint,
                     retain : BOOLEAN,
                     dispatch : BOOLEAN,
                     deleted : BOOLEAN,
                     shouldDelete : BOOLEAN]

NewBundleDescriptor(metadata) ==
    [metadata |-> metadata,
     retentionConstraints |-> {"DispatchPending"},
     retain |-> TRUE,
     dispatch |-> TRUE,
     deleted |-> FALSE,
     shouldDelete |-> FALSE]

\* The writers of the store, by the next thing they do under the lock.
Unlocked == [op |-> "unlocked", id |-> Null, metadata |-> Null, todo |-> {}]

Locked(op, id, metadata, todo) ==
    [op |-> op, id |-> id, metadata |-> metadata, todo |-> todo]

LockState ==
    [op : {"unlocked", "create", "write", "unlinkMeta", "unlinkFile",
           "collect", "reap"},
     id : BundleIDs \cup {Null},
     metadata : BundleMetadata \cup {Null},
     todo : SUBSET BundleIDs]

-----------------------------------------------------------------------------
(* Descriptor methods, as functions of the descriptor they are called on.    *)

WithConstraint(d, c) ==
    [d EXCEPT !.retentionConstraints = @ \cup {c},
              !.retain = TRUE,
              !.dispatch = @ /\ c # "ForwardPending"]

\* Mutant of WithoutConstraint: dispatch is not worked out from what is left.
WithoutConstraintDispatches(d, c) ==
    LET left == d.retentionConstraints \ {c}
    IN  [d EXCEPT !.retentionConstraints = left,
                  !.dispatch = TRUE,
                  !.retain = left # {},
                  !.deleted = left = {} /\ d.shouldDelete]

\* RemoveConstraint drops every occurrence, so the list acts as a set.
WithoutConstraint(d, c) ==
    LET left == d.retentionConstraints \ {c}
    IN  [d EXCEPT !.retentionConstraints = left,
                  !.dispatch = "ForwardPending" \notin left,
                  !.retain = left # {},
                  !.deleted = left = {} /\ d.shouldDelete]

WithoutConstraints(d) ==
    [d EXCEPT !.retentionConstraints = {},
              !.retain = FALSE,
              !.dispatch = TRUE,
              !.deleted = d.shouldDelete]

\* Mutant of AfterDelete: the constraints are dropped instead of respected.
AfterDeleteForced(d, markIfConstraint) ==
    [WithoutConstraints(d) EXCEPT !.deleted = TRUE]

\* Delete(markIfConstraint) on a descriptor that is not deleted yet.
AfterDelete(d, markIfConstraint) ==
    IF d.retentionConstraints # {}
    THEN [d EXCEPT !.shouldDelete = @ \/ markIfConstraint]
    ELSE [d EXCEPT !.deleted = TRUE]

Retain(p)   == desc[p].retain /\ ~desc[p].deleted
Dispatch(p) == desc[p].dispatch /\ ~desc[p].deleted

\* What GetBundleDescriptor finds.
Present(b) == bundles[b] # Null /\ ~desc[bundles[b]].deleted

\* The bundles GetDispatchable returns descriptors of.
GetDispatchable == {b \in BundleIDs : bundles[b] # Null /\ Dispatch(bundles[b])}

\* The error of ParseBundle is not passed on: a torn file is returned as a bundle.
LoadEntireBundle(b) == IF bundleFile[b] = "absent" THEN "error" ELSE "bundle"

\* What Load returns.
LoadResult(p) == IF desc[p].deleted THEN "BundleDeletedError" ELSE LoadEntireBundle(p[1])

\* Mutant of SetDescriptor: unsafeDelete does not spawn deleteBundle.
SetDescriptorOnly(p, d) ==
    /\ desc' = [desc EXCEPT ![p] = d]
    /\ accepted' = IF d.deleted THEN accepted \ {p[1]} ELSE accepted
    /\ UNCHANGED deleting

\* Store d at p.  A method that sets deleted has run unsafeDelete, which spawns
\* the goroutine that will remove the bundle from the map and from disk.
SetDescriptor(p, d) ==
    /\ desc' = [desc EXCEPT ![p] = d]
    /\ deleting' = IF d.deleted THEN deleting \cup {p} ELSE deleting
    /\ accepted' = IF d.deleted THEN accepted \ {p[1]} ELSE accepted

\* badgerhold Update: fails for a missing key; a failure is only logged.
UpdateMetadata(b, metadata) ==
    \/ /\ metadataStore[b] # Null
       /\ metadataStore' = [metadataStore EXCEPT ![b] = metadata]
    \/ UNCHANGED metadataStore

-----------------------------------------------------------------------------
(* Methods of BundleDescriptor.  On a deleted descriptor they return          *)
(* BundleDeletedError and change nothing; SetMiscData alone does not look.    *)

Live(p) == p \in DOMAIN desc /\ ~desc[p].deleted

AddConstraint(p, c) ==
    /\ Live(p)
    /\ SetDescriptor(p, WithConstraint(desc[p], c))
    /\ UNCHANGED <<bundles, stateMutex, disk, expired>>

RemoveConstraint(p, c) ==
    /\ Live(p)
    /\ SetDescriptor(p, WithoutConstraint(desc[p], c))
    /\ UNCHANGED <<bundles, stateMutex, disk, expired>>

ResetConstraints(p) ==
    /\ Live(p)
    /\ SetDescriptor(p, WithoutConstraints(desc[p]))
    /\ UNCHANGED <<bundles, stateMutex, disk, expired>>

\* Mutant of Delete: unsafeDelete does not look whether deleted is already set.
DeleteAgain(p, markIfConstraint) ==
    /\ p \in DOMAIN desc
    /\ SetDescriptor(p, AfterDelete(desc[p], markIfConstraint))
    /\ UNCHANGED <<bundles, stateMutex, disk, expired>>

Delete(p, markIfConstraint) ==
    /\ Live(p)
    /\ SetDescriptor(p, AfterDelete(desc[p], markIfConstraint))
    /\ UNCHANGED <<bundles, stateMutex, disk, expired>>

\* Both write the whole metadata of the object to disk, without the store's lock.
AddKnownHolder(p, peer) ==
    /\ Live(p)
    /\ LET d == [desc[p] EXCEPT !.metadata.KnownHolders = @ \cup {peer}]
       IN  /\ desc' = [desc EXCEPT ![p] = d]
           /\ UpdateMetadata(p[1], d.metadata)
    /\ UNCHANGED <<bundles, deleting, stateMutex, bundleFile, expired, accepted>>

SetMiscData(p, value) ==
    /\ p \in DOMAIN desc
    /\ LET d == [desc[p] EXCEPT !.metadata.MiscellaneousData = value]
       IN  /\ desc' = [desc EXCEPT ![p] = d]
           /\ UpdateMetadata(p[1], d.metadata)
    /\ UNCHANGED <<bundles, deleting, stateMutex, bundleFile, expired, accepted>>

-----------------------------------------------------------------------------
(* InsertBundle.  A bundle that is in the map only gains a known holder.  One *)
(* that is not is written to the database, then to its file, and only then    *)
(* gets a descriptor.  previousNode is Null for a bundle without the block.   *)

InsertKnownBundle(b, previousNode) ==
    /\ stateMutex = Unlocked
    /\ bundles[b] # Null
    /\ previousNode # Null
    /\ AddKnownHolder(bundles[b], previousNode)

InsertMetadata(b, previousNode) ==
    /\ stateMutex = Unlocked
    /\ bundles[b] = Null
    /\ metadataStore[b] = Null        \* else badgerhold returns ErrKeyExists
    /\ LET metadata == [KnownHolders |-> {NodeID} \cup ({previousNode} \ {Null}),
                        MiscellaneousData |-> Null]
       IN  /\ metadataStore' = [metadataStore EXCEPT ![b] = metadata]
           /\ stateMutex' = Locked("create", b, metadata, {})
    /\ UNCHANGED <<bundles, desc, deleting, bundleFile, expired, accepted>>

\* badgerhold Delete and os.Remove: each may fail, which is only reported.
RemoveMetadata(b) ==
    \/ metadataStore' = [metadataStore EXCEPT ![b] = Null]
    \/ UNCHANGED metadataStore

RemoveFile(b) ==
    \/ bundleFile' = [bundleFile EXCEPT ![b] = "absent"]
    \/ UNCHANGED bundleFile

\* os.Create truncates; if it fails the metadata is taken back.
CreateFile(b) ==
    /\ stateMutex.op = "create"
    /\ stateMutex.id = b
    /\ \/ /\ bundleFile' = [bundleFile EXCEPT ![b] = "partial"]
          /\ stateMutex' = [stateMutex EXCEPT !.op = "write"]
          /\ UNCHANGED metadataStore
       \/ /\ RemoveMetadata(b)
          /\ RemoveFile(b)
          /\ stateMutex' = Unlocked
    /\ UNCHANGED <<bundles, desc, deleting, expired, accepted>>

\* A descriptor is allocated for the bundle being inserted.
NewObject(p) ==
    /\ p \in Pointer \ DOMAIN desc
    /\ desc' = [q \in DOMAIN desc \cup {p} |->
                  IF q = p THEN NewBundleDescriptor(stateMutex.metadata) ELSE desc[q]]

\* Mutant of WriteFile: the error of Marshal or Flush is not looked at.
WriteFileUnchecked(p) ==
    /\ stateMutex.op = "write"
    /\ stateMutex.id = p[1]
    /\ stateMutex' = Unlocked
    /\ NewObject(p)
    /\ bundleFile' \in {bundleFile, [bundleFile EXCEPT ![p[1]] = "whole"]}
    /\ bundles' = [bundles EXCEPT ![p[1]] = p]
    /\ accepted' = accepted \cup {p[1]}
    /\ UNCHANGED <<deleting, metadataStore, expired>>

\* If writing fails, the metadata and what was written of the file stay behind.
WriteFile(p) ==
    /\ stateMutex.op = "write"
    /\ stateMutex.id = p[1]
    /\ stateMutex' = Unlocked
    /\ \/ /\ NewObject(p)
          /\ bundleFile' = [bundleFile EXCEPT ![p[1]] = "whole"]
          /\ bundles' = [bundles EXCEPT ![p[1]] = p]
          /\ accepted' = accepted \cup {p[1]}
       \/ UNCHANGED <<bundleFile, desc, bundles, accepted>>
    /\ UNCHANGED <<deleting, metadataStore, expired>>

-----------------------------------------------------------------------------
(* deleteBundle, the goroutine that unsafeDelete spawns.                      *)

DeleteFromMap(p) ==
    /\ p \in deleting
    /\ stateMutex = Unlocked
    /\ deleting' = deleting \ {p}
    /\ bundles' = [bundles EXCEPT ![p[1]] = Null]
    /\ stateMutex' = Locked("unlinkMeta", p[1], Null, {})
    /\ UNCHANGED <<desc, disk, expired, accepted>>

DeleteMetadata(b) ==
    /\ stateMutex.op = "unlinkMeta"
    /\ stateMutex.id = b
    /\ RemoveMetadata(b)
    /\ stateMutex' = [stateMutex EXCEPT !.op = "unlinkFile"]
    /\ UNCHANGED <<bundles, desc, deleting, bundleFile, expired, accepted>>

DeleteFile(b) ==
    /\ stateMutex.op = "unlinkFile"
    /\ stateMutex.id = b
    /\ RemoveFile(b)
    /\ stateMutex' = Unlocked
    /\ UNCHANGED <<bundles, desc, deleting, metadataStore, expired, accepted>>

-----------------------------------------------------------------------------
(* GarbageCollect holds the store's lock over a loop in which each bundle is  *)
(* looked at (Expired, Retain) and then deleted under two separate            *)
(* acquisitions of the descriptor's lock.                                     *)

CollectStart ==
    /\ stateMutex = Unlocked
    /\ stateMutex' = Locked("collect", Null, Null, {b \in BundleIDs : bundles[b] # Null})
    /\ UNCHANGED <<bundles, desc, deleting, disk, expired, accepted>>

CollectCheck(b) ==
    /\ stateMutex.op = "collect"
    /\ b \in stateMutex.todo
    /\ stateMutex' = IF b \in expired /\ ~Retain(bundles[b])
                     THEN Locked("reap", b, Null, stateMutex.todo \ {b})
                     ELSE Locked("collect", Null, Null, stateMutex.todo \ {b})
    /\ UNCHANGED <<bundles, desc, deleting, disk, expired, accepted>>

\* Mutant of CollectDelete: GarbageCollect takes the bundle out of the map itself.
CollectDeleteFromMap(b) ==
    /\ stateMutex.op = "reap"
    /\ stateMutex.id = b
    /\ stateMutex' = Locked("collect", Null, Null, stateMutex.todo)
    /\ Live(bundles[b])
    /\ desc[bundles[b]].retentionConstraints = {}
    /\ desc' = [desc EXCEPT ![bundles[b]].deleted = TRUE]
    /\ bundles' = [bundles EXCEPT ![b] = Null]
    /\ accepted' = accepted \ {b}
    /\ UNCHANGED <<deleting, disk, expired>>

CollectDelete(b) ==
    /\ stateMutex.op = "reap"
    /\ stateMutex.id = b
    /\ stateMutex' = Locked("collect", Null, Null, stateMutex.todo)
    /\ IF Live(bundles[b])
       THEN SetDescriptor(bundles[b], AfterDelete(desc[bundles[b]], FALSE))
       ELSE UNCHANGED <<desc, deleting, accepted>>
    /\ UNCHANGED <<bundles, disk, expired>>

CollectEnd ==
    /\ stateMutex.op = "collect"
    /\ stateMutex.todo = {}
    /\ stateMutex' = Unlocked
    /\ UNCHANGED <<bundles, desc, deleting, disk, expired, accepted>>

-----------------------------------------------------------------------------
\* The clock passes the expiry date of b.
Expire(b) ==
    /\ b \notin expired
    /\ expired' = expired \cup {b}
    /\ UNCHANGED <<memory, disk, accepted>>

\* The process ends, at any point, and is started again: InitialiseStore finds
\* the disk as it was left and loadAll makes a descriptor of every metadata entry.
Restart ==
    LET loaded == {b \in BundleIDs : metadataStore[b] # Null}
    IN  /\ bundles' = [b \in BundleIDs |-> IF b \in loaded THEN <<b, 1>> ELSE Null]
        /\ desc' = [p \in loaded \X {1} |-> NewBundleDescriptor(metadataStore[p[1]])]
        /\ deleting' = {}
        /\ stateMutex' = Unlocked
        /\ UNCHANGED <<disk, expired, accepted>>

Init ==
    /\ bundles = [b \in BundleIDs |-> Null]
    /\ desc = [p \in {} |-> Null]
    /\ deleting = {}
    /\ stateMutex = Unlocked
    /\ metadataStore = [b \in BundleIDs |-> Null]
    /\ bundleFile = [b \in BundleIDs |-> "absent"]
    /\ expired = {}
    /\ accepted = {}

\* The methods goroutines call on descriptors they hold.
DescriptorStep ==
    \E p \in DOMAIN desc :
        \/ \E c \in Constraint : AddConstraint(p, c) \/ RemoveConstraint(p, c)
        \/ ResetConstraints(p)
        \/ \E mark \in BOOLEAN : Delete(p, mark)
        \/ \E peer \in EndpointIDs : AddKnownHolder(p, peer)
        \/ \E value \in MiscValues : SetMiscData(p, value)

InsertStep ==
    \/ \E b \in BundleIDs, previousNode \in EndpointIDs \cup {Null} :
          InsertKnownBundle(b, previousNode) \/ InsertMetadata(b, previousNode)
    \/ \E b \in BundleIDs : CreateFile(b)
    \/ \E p \in Pointer : WriteFile(p)

DeleteStep ==
    \/ \E p \in deleting : DeleteFromMap(p)
    \/ \E b \in BundleIDs : DeleteMetadata(b) \/ DeleteFile(b)

CollectStep ==
    \/ CollectStart
    \/ \E b \in BundleIDs : CollectCheck(b) \/ CollectDelete(b)
    \/ CollectEnd

Next ==
    \/ DescriptorStep
    \/ InsertStep
    \/ DeleteStep
    \/ CollectStep
    \/ \E b \in BundleIDs : Expire(b)
    \/ Restart

Spec == Init /\ [][Next]_vars

\* A goroutine inside a critical section keeps running, and a goroutine waiting
\* for the store's lock gets it (Go's mutexes hand over to waiters in order).
Fairness ==
    /\ WF_vars(\E b \in BundleIDs : CreateFile(b) \/ DeleteMetadata(b) \/ DeleteFile(b)
                                    \/ CollectCheck(b) \/ CollectDelete(b))
    /\ WF_vars(\E p \in Pointer : WriteFile(p))
    /\ WF_vars(CollectEnd)
    /\ \A p \in Pointer : SF_vars(DeleteFromMap(p))

FairSpec == Spec /\ Fairness

-----------------------------------------------------------------------------
(* Properties                                                                *)

\* Every variable has its type; the map points only to objects of that bundle.
TypeOK ==
    /\ bundles \in [BundleIDs -> Pointer \cup {Null}]
    /\ DOMAIN desc \subseteq Pointer
    /\ desc \in [DOMAIN desc -> BundleDescriptor]
    /\ deleting \subseteq DOMAIN desc
    /\ stateMutex \in LockState
    /\ metadataStore \in [BundleIDs -> BundleMetadata \cup {Null}]
    /\ bundleFile \in [BundleIDs -> {"absent", "partial", "whole"}]
    /\ expired \subseteq BundleIDs
    /\ accepted \subseteq BundleIDs
    /\ \A b \in BundleIDs :
          bundles[b] # Null => bundles[b] \in DOMAIN desc /\ bundles[b][1] = b

\* The cached flags that Dispatch(), Retain() and so GetDispatchable and
\* GarbageCollect decide by agree with the list of retention constraints after
\* any sequence of Add-, Remove- and ResetConstraints, and a deleted bundle has
\* no constraint left.
FlagsMatchConstraints ==
    \A p \in DOMAIN desc :
        /\ desc[p].retain <=> desc[p].retentionConstraints # {}
        /\ desc[p].dispatch <=> "ForwardPending" \notin desc[p].retentionConstraints
        /\ desc[p].deleted => desc[p].retentionConstraints = {}

\* deleteBundle runs later than the deletion that spawned it and removes by ID,
\* from the map and from disk.  When it gets its turn the ID still belongs to the
\* deleted object: it never removes a bundle that was stored again meanwhile.
DeletionHitsItsTarget ==
    \A p \in deleting : bundles[p[1]] = p /\ desc[p].deleted

\* While a writer changes the database entry or the file of a bundle, no map
\* entry leads anybody to that bundle, and an insert's database entry stays until
\* it is done; the bundles a garbage collection still has to visit stay mapped.
WriterOwnsItsFiles ==
    /\ stateMutex.op \in {"create", "write", "unlinkMeta", "unlinkFile"} =>
          stateMutex.id # Null /\ bundles[stateMutex.id] = Null
    /\ stateMutex.op \in {"create", "write"} =>
          stateMutex.metadata # Null /\ metadataStore[stateMutex.id] # Null
    /\ stateMutex.op = "reap" =>
          stateMutex.id # Null /\ bundles[stateMutex.id] # Null
    /\ \A b \in stateMutex.todo : bundles[b] # Null

\* Every bundle in the map has its database entry, so that a restart finds it.
MappedIsRecorded ==
    \A b \in BundleIDs : bundles[b] # Null => metadataStore[b] # Null

\* At most one undeleted descriptor exists for a bundle, the one in the map,
\* however many old pointers goroutines still hold.
OneLiveDescriptor ==
    \A p \in DOMAIN desc : ~desc[p].deleted => bundles[p[1]] = p

\* A bundle that InsertBundle has returned for and that nobody has deleted is in
\* the map, its metadata is in the database and its file is complete, through
\* failed inserts, garbage collections and restarts at any point.
AcceptedIsDurable ==
    \A b \in accepted :
        /\ Present(b)
        /\ metadataStore[b] # Null
        /\ bundleFile[b] = "whole"

\* The state invariants together, which need each other: what a late deleteBundle
\* removes rests on there being one live descriptor, that on what a writer does
\* under stateMutex, and what a restart finds on all of them.
StoreInv ==
    /\ TypeOK
    /\ FlagsMatchConstraints
    /\ DeletionHitsItsTarget
    /\ WriterOwnsItsFiles
    /\ MappedIsRecorded
    /\ OneLiveDescriptor
    /\ AcceptedIsDurable

DeletionIsAllowed ==
    \A p \in DOMAIN desc \cap DOMAIN desc' :
        ~desc[p].deleted /\ desc'[p].deleted =>
            desc[p].retentionConstraints = {} \/ desc[p].shouldDelete

\* "If a bundle has retention constraints, it must not be deleted": a step that
\* deletes a descriptor finds it without constraints, or takes away the last one
\* after the bundle had been marked.  GarbageCollect, which reads Retain() in one
\* critical section and deletes in the next, is no exception.
ConstrainedIsNotDeleted == [][DeletionIsAllowed]_vars

\* A deleted bundle does not stay in the map: its ID becomes free for a new copy
\* of the bundle (a restart may bring the old copy back instead).
DeletedIsForgotten ==
    \A b \in BundleIDs :
        bundles[b] # Null /\ ~Present(b) ~> bundles[b] = Null \/ Present(b)

-----------------------------------------------------------------------------
(* What the rest of the daemon sees of the store.                             *)

StatusOf(b) ==
    IF bundles[b] = Null THEN "absent"
    ELSE IF desc[bundles[b]].deleted THEN "deleted"
    ELSE IF bundleFile[b] = "whole" THEN "stored"
    ELSE IF bundleFile[b] = "partial" THEN "torn"
    ELSE "missing"

Abstract == INSTANCE AbstractStore WITH status <- [b \in BundleIDs |-> StatusOf(b)]

\* The store keeps the promise of AbstractStore: a bundle appears, complete, in
\* one step, is deleted once, forgotten later, and until it is deleted neither
\* another operation nor a restart changes what Load finds.
ImplementsAbstractStore == Abstract!StoreSpec

=============================================================================
