--------------------------- MODULE ProcessingProofs ---------------------------
(***************************************************************************)
(* The safety invariants of BundleStore, for every set of bundles, nodes   *)
(* and values and every number of descriptor objects.  No one of them is   *)
(* inductive alone: that a late deleteBundle removes the right bundle      *)
(* rests on there being one live object per ID, that one on what a writer  *)
(* does under the store's lock, and durability on all three.               *)
(*                                                                         *)
(* The daemon's processing uses the store as BundleStore allows, for any   *)
(* number of goroutines, bundles and peers.  The theorems about the store  *)
(* then hold of the daemon.                                                *)
(***************************************************************************)
EXTENDS Processing, TLAPS

\* FlagsMatchConstraints for one descriptor.
FlagsMatch(d) ==
    /\ d.retain <=> d.retentionConstraints # {}
    /\ d.dispatch <=> "ForwardPending" \notin d.retentionConstraints
    /\ d.deleted => d.retentionConstraints = {}

-----------------------------------------------------------------------------
\* A new descriptor is well-formed and its flags match its one constraint.
LEMMA NewDescriptor ==
    ASSUME NEW m \in BundleMetadata
    PROVE  /\ NewBundleDescriptor(m) \in BundleDescriptor
           /\ FlagsMatch(NewBundleDescriptor(m))
           /\ ~NewBundleDescriptor(m).deleted
BY DEF NewBundleDescriptor, BundleDescriptor, Constraint, FlagsMatch

\* The methods that change constraints or delete keep a live descriptor
\* well-formed and its flags in step with the constraints.
LEMMA DescriptorMethods ==
    ASSUME NEW d \in BundleDescriptor, FlagsMatch(d), ~d.deleted,
           NEW c \in Constraint, NEW mark \in BOOLEAN
    PROVE  /\ WithConstraint(d, c) \in BundleDescriptor
           /\ FlagsMatch(WithConstraint(d, c))
           /\ WithoutConstraint(d, c) \in BundleDescriptor
           /\ FlagsMatch(WithoutConstraint(d, c))
           /\ WithoutConstraints(d) \in BundleDescriptor
           /\ FlagsMatch(WithoutConstraints(d))
           /\ AfterDelete(d, mark) \in BundleDescriptor
           /\ FlagsMatch(AfterDelete(d, mark))
<1>1. WithConstraint(d, c) \in BundleDescriptor /\ FlagsMatch(WithConstraint(d, c))
  BY DEF WithConstraint, BundleDescriptor, FlagsMatch
<1>2. WithoutConstraint(d, c) \in BundleDescriptor /\ FlagsMatch(WithoutConstraint(d, c))
  BY DEF WithoutConstraint, BundleDescriptor, FlagsMatch
<1>3. WithoutConstraints(d) \in BundleDescriptor /\ FlagsMatch(WithoutConstraints(d))
  BY DEF WithoutConstraints, BundleDescriptor, FlagsMatch
<1>4. AfterDelete(d, mark) \in BundleDescriptor /\ FlagsMatch(AfterDelete(d, mark))
  BY DEF AfterDelete, BundleDescriptor, FlagsMatch
<1> QED BY <1>1, <1>2, <1>3, <1>4

\* Replacing one live descriptor by a well-formed one, spawning its deletion if
\* it is now deleted, keeps the invariant whatever happens to the store's lock.
LEMMA SetDescriptorKeeps ==
    ASSUME StoreInv, NEW p \in DOMAIN desc, ~desc[p].deleted,
           NEW d \in BundleDescriptor, FlagsMatch(d),
           SetDescriptor(p, d), UNCHANGED <<bundles, disk, expired>>,
           stateMutex' \in LockState, WriterOwnsItsFiles'
    PROVE  StoreInv'
<1> USE DEF StoreInv
<1>1. /\ DOMAIN desc' = DOMAIN desc
      /\ desc'[p] = d
      /\ \A q \in DOMAIN desc : q # p => desc'[q] = desc[q]
      /\ p \in Pointer /\ p[1] \in BundleIDs
      /\ bundles[p[1]] = p
  BY DEF SetDescriptor, TypeOK, OneLiveDescriptor, Pointer
<1>2. TypeOK'
  BY <1>1 DEF TypeOK, SetDescriptor, disk
<1>3. FlagsMatchConstraints'
  BY <1>1 DEF FlagsMatchConstraints, FlagsMatch
<1>4. DeletionHitsItsTarget'
  BY <1>1 DEF DeletionHitsItsTarget, SetDescriptor, TypeOK
<1>5. OneLiveDescriptor'
  BY <1>1 DEF OneLiveDescriptor
<1>6. AcceptedIsDurable'
  <2> SUFFICES ASSUME NEW b \in accepted'
               PROVE  Present(b)' /\ metadataStore'[b] # Null /\ bundleFile'[b] = "whole"
    BY DEF AcceptedIsDurable
  <2>1. b \in accepted /\ b \in BundleIDs /\ Present(b)
        /\ metadataStore[b] # Null /\ bundleFile[b] = "whole"
    BY DEF SetDescriptor, AcceptedIsDurable, TypeOK
  <2>2. Present(b)'
    <3>1. CASE bundles[b] = p
      <4>1. p[1] = b
        BY <3>1, <2>1 DEF TypeOK, Present
      <4>2. ~d.deleted
        BY <4>1 DEF SetDescriptor
      <4> QED BY <1>1, <2>1, <3>1, <4>2 DEF Present
    <3>2. CASE bundles[b] # p
      BY <1>1, <2>1, <3>2 DEF Present, TypeOK
    <3> QED BY <3>1, <3>2
  <2> QED BY <2>1, <2>2 DEF disk
<1>7. MappedIsRecorded'
  BY DEF MappedIsRecorded, disk
<1> QED BY <1>2, <1>3, <1>4, <1>5, <1>6, <1>7

\* The metadata methods touch no flag, and on disk at most an entry that exists.
LEMMA SetMetadataKeeps ==
    ASSUME StoreInv, NEW p \in DOMAIN desc, NEW m \in BundleMetadata,
           desc' = [desc EXCEPT ![p] = [desc[p] EXCEPT !.metadata = m]],
           UpdateMetadata(p[1], m),
           UNCHANGED <<bundles, deleting, stateMutex, bundleFile, expired, accepted>>
    PROVE  StoreInv'
<1> USE DEF StoreInv
<1>1. /\ DOMAIN desc' = DOMAIN desc
      /\ \A q \in DOMAIN desc :
            /\ desc'[q] \in BundleDescriptor
            /\ desc'[q].retentionConstraints = desc[q].retentionConstraints
            /\ desc'[q].retain = desc[q].retain
            /\ desc'[q].dispatch = desc[q].dispatch
            /\ desc'[q].deleted = desc[q].deleted
  BY DEF TypeOK, BundleDescriptor
<1>2. /\ metadataStore' \in [BundleIDs -> BundleMetadata \cup {Null}]
      /\ \A b \in BundleIDs : metadataStore[b] # Null => metadataStore'[b] # Null
  BY StoreAssumption DEF UpdateMetadata, TypeOK, BundleMetadata
<1>3. TypeOK'
  BY <1>1, <1>2 DEF TypeOK
<1>4. FlagsMatchConstraints'
  BY <1>1 DEF FlagsMatchConstraints
<1>5. DeletionHitsItsTarget'
  BY <1>1 DEF DeletionHitsItsTarget, TypeOK
<1>6. WriterOwnsItsFiles'
  BY <1>2 DEF WriterOwnsItsFiles, TypeOK, LockState
<1>7. OneLiveDescriptor'
  BY <1>1 DEF OneLiveDescriptor
<1>8. AcceptedIsDurable'
  BY <1>1, <1>2 DEF AcceptedIsDurable, Present, TypeOK
<1>9. MappedIsRecorded'
  BY <1>2 DEF MappedIsRecorded
<1> QED BY <1>3, <1>4, <1>5, <1>6, <1>7, <1>8, <1>9

\* Recording a further holder keeps the invariant, called by a goroutine or by
\* InsertBundle for a bundle that is already there.
LEMMA AddKnownHolderKeeps ==
    ASSUME StoreInv, NEW p \in DOMAIN desc, NEW peer \in EndpointIDs,
           AddKnownHolder(p, peer)
    PROVE  StoreInv'
<1> DEFINE m == [desc[p].metadata EXCEPT !.KnownHolders = @ \cup {peer}]
           d == [desc[p] EXCEPT !.metadata.KnownHolders = @ \cup {peer}]
<1>1. desc[p] \in BundleDescriptor /\ desc[p].metadata \in BundleMetadata
  BY DEF StoreInv, TypeOK, BundleDescriptor
<1>2. m \in BundleMetadata
  BY <1>1 DEF BundleMetadata
<1>3. d = [desc[p] EXCEPT !.metadata = m] /\ d.metadata = m
  BY <1>1 DEF BundleDescriptor, BundleMetadata
<1> QED BY <1>2, <1>3, SetMetadataKeeps DEF AddKnownHolder

\* A step of a descriptor method keeps the invariant.
LEMMA DescriptorStepKeeps ==
    ASSUME StoreInv, DescriptorStep
    PROVE  StoreInv'
<1> USE DEF StoreInv
<1>1. PICK p \in DOMAIN desc :
        \/ \E c \in Constraint : AddConstraint(p, c) \/ RemoveConstraint(p, c)
        \/ ResetConstraints(p)
        \/ \E mark \in BOOLEAN : Delete(p, mark)
        \/ \E peer \in EndpointIDs : AddKnownHolder(p, peer)
        \/ \E value \in MiscValues : SetMiscData(p, value)
  BY DEF DescriptorStep
<1>2. desc[p] \in BundleDescriptor /\ FlagsMatch(desc[p]) /\ desc[p].metadata \in BundleMetadata
  BY DEF TypeOK, FlagsMatchConstraints, FlagsMatch, BundleDescriptor
<1>3. ASSUME UNCHANGED <<bundles, stateMutex, disk, expired>>
      PROVE  stateMutex' \in LockState /\ WriterOwnsItsFiles'
  BY <1>3 DEF TypeOK, WriterOwnsItsFiles, disk
<1>4. ASSUME NEW c \in Constraint, AddConstraint(p, c) \/ RemoveConstraint(p, c)
      PROVE  StoreInv'
  BY <1>2, <1>3, <1>4, DescriptorMethods, SetDescriptorKeeps
     DEF AddConstraint, RemoveConstraint, Live
<1>5. ASSUME ResetConstraints(p)
      PROVE  StoreInv'
  <2>1. "ForwardPending" \in Constraint
    BY DEF Constraint
  <2> QED BY <1>2, <1>3, <1>5, <2>1, DescriptorMethods, SetDescriptorKeeps
          DEF ResetConstraints, Live
<1>6. ASSUME NEW mark \in BOOLEAN, Delete(p, mark)
      PROVE  StoreInv'
  <2>1. "ForwardPending" \in Constraint
    BY DEF Constraint
  <2> QED BY <1>2, <1>3, <1>6, <2>1, DescriptorMethods, SetDescriptorKeeps
          DEF Delete, Live
<1>7. ASSUME NEW peer \in EndpointIDs, AddKnownHolder(p, peer)
      PROVE  StoreInv'
  BY <1>7, AddKnownHolderKeeps
<1>8. ASSUME NEW value \in MiscValues, SetMiscData(p, value)
      PROVE  StoreInv'
  <2> DEFINE m == [desc[p].metadata EXCEPT !.MiscellaneousData = value]
             d == [desc[p] EXCEPT !.metadata.MiscellaneousData = value]
  <2>1. m \in BundleMetadata
    BY <1>2 DEF BundleMetadata
  <2>2. d = [desc[p] EXCEPT !.metadata = m] /\ d.metadata = m
    BY <1>2 DEF BundleDescriptor, BundleMetadata
  <2> QED BY <1>8, <2>1, <2>2, SetMetadataKeeps DEF SetMiscData
<1> QED BY <1>1, <1>4, <1>5, <1>6, <1>7, <1>8

\* Steps that only move a garbage collection along, or start it.
LEMMA CollectStepKeeps ==
    ASSUME StoreInv, CollectStep
    PROVE  StoreInv'
<1> USE DEF StoreInv
<1>1. ASSUME CollectStart \/ CollectEnd \/ \E b \in BundleIDs : CollectCheck(b)
      PROVE  StoreInv'
  <2>1. /\ UNCHANGED <<bundles, desc, deleting, disk, expired, accepted>>
        /\ stateMutex' \in LockState
        /\ WriterOwnsItsFiles'
    BY <1>1, StoreAssumption DEF CollectStart, CollectEnd, CollectCheck, Locked, Unlocked,
         LockState, TypeOK, WriterOwnsItsFiles
  <2> QED
    BY <2>1 DEF TypeOK, FlagsMatchConstraints, DeletionHitsItsTarget, OneLiveDescriptor,
         MappedIsRecorded, AcceptedIsDurable, Present, disk
<1>2. ASSUME NEW b \in BundleIDs, CollectDelete(b)
      PROVE  StoreInv'
  <2>1. /\ stateMutex' \in LockState
        /\ WriterOwnsItsFiles'
        /\ bundles[b] \in DOMAIN desc
        /\ UNCHANGED <<bundles, disk, expired>>
    BY <1>2 DEF CollectDelete, Locked, LockState, TypeOK, WriterOwnsItsFiles
  <2>2. CASE Live(bundles[b])
    <3> DEFINE p == bundles[b]
               d == AfterDelete(desc[p], FALSE)
    <3>1. desc[p] \in BundleDescriptor /\ FlagsMatch(desc[p]) /\ ~desc[p].deleted
      BY <2>1, <2>2 DEF TypeOK, FlagsMatchConstraints, FlagsMatch, Live
    <3>2. "ForwardPending" \in Constraint
      BY DEF Constraint
    <3>3. d \in BundleDescriptor /\ FlagsMatch(d)
      BY <3>1, <3>2, DescriptorMethods
    <3> QED BY <1>2, <2>1, <2>2, <3>1, <3>3, SetDescriptorKeeps DEF CollectDelete
  <2>3. CASE ~Live(bundles[b])
    BY <1>2, <2>1, <2>3 DEF CollectDelete, TypeOK, FlagsMatchConstraints,
         DeletionHitsItsTarget, MappedIsRecorded, OneLiveDescriptor, AcceptedIsDurable,
         Present, disk
  <2> QED BY <2>2, <2>3
<1> QED BY <1>1, <1>2 DEF CollectStep

\* A step of InsertBundle keeps the invariant.
LEMMA InsertStepKeeps ==
    ASSUME StoreInv, InsertStep
    PROVE  StoreInv'
<1> USE DEF StoreInv
<1>1. ASSUME NEW b \in BundleIDs, NEW previousNode \in EndpointIDs \cup {Null},
             InsertKnownBundle(b, previousNode)
      PROVE  StoreInv'
  <2>1. bundles[b] \in DOMAIN desc /\ previousNode \in EndpointIDs
    BY <1>1 DEF InsertKnownBundle, TypeOK
  <2> QED BY <1>1, <2>1, AddKnownHolderKeeps DEF InsertKnownBundle
<1>2. ASSUME NEW b \in BundleIDs, NEW previousNode \in EndpointIDs \cup {Null},
             InsertMetadata(b, previousNode)
      PROVE  StoreInv'
  <2> DEFINE m == [KnownHolders |-> {NodeID} \cup ({previousNode} \ {Null}),
                   MiscellaneousData |-> Null]
  <2>1. m \in BundleMetadata /\ m # Null
    BY StoreAssumption DEF BundleMetadata
  <2>2. /\ metadataStore' = [metadataStore EXCEPT ![b] = m]
        /\ stateMutex' = Locked("create", b, m, {})
        /\ UNCHANGED <<bundles, desc, deleting, bundleFile, expired, accepted>>
        /\ bundles[b] = Null
    BY <1>2 DEF InsertMetadata
  <2> HIDE DEF m
  <2>3. TypeOK' /\ WriterOwnsItsFiles'
    BY <2>1, <2>2, StoreAssumption DEF TypeOK, WriterOwnsItsFiles, Locked, LockState
  <2> QED
    BY <2>1, <2>2, <2>3 DEF TypeOK, FlagsMatchConstraints, DeletionHitsItsTarget,
         MappedIsRecorded, OneLiveDescriptor, AcceptedIsDurable, Present
<1>3. ASSUME NEW b \in BundleIDs, CreateFile(b)
      PROVE  StoreInv'
  <2>1. b \notin accepted /\ bundles[b] = Null
    BY <1>3 DEF CreateFile, WriterOwnsItsFiles, AcceptedIsDurable, Present
  <2>2. TypeOK' /\ WriterOwnsItsFiles'
    BY <1>3, <2>1 DEF CreateFile, RemoveMetadata, RemoveFile, TypeOK,
         WriterOwnsItsFiles, Unlocked, LockState
  <2>3. AcceptedIsDurable' /\ MappedIsRecorded'
    BY <1>3, <2>1 DEF CreateFile, RemoveMetadata, RemoveFile, TypeOK,
         MappedIsRecorded, AcceptedIsDurable, Present
  <2> QED
    BY <1>3, <2>2, <2>3 DEF CreateFile, FlagsMatchConstraints, DeletionHitsItsTarget,
         OneLiveDescriptor
<1>4. ASSUME NEW p \in Pointer, WriteFile(p)
      PROVE  StoreInv'
  <2> DEFINE b == p[1]
             d == NewBundleDescriptor(stateMutex.metadata)
  <2>1. /\ b \in BundleIDs /\ bundles[b] = Null /\ p # Null
        /\ stateMutex.metadata \in BundleMetadata
        /\ metadataStore[b] # Null
    BY <1>4, StoreAssumption DEF WriteFile, NewObject, WriterOwnsItsFiles, TypeOK, LockState, Pointer
  <2>2. d \in BundleDescriptor /\ FlagsMatch(d) /\ ~d.deleted
    BY <2>1, NewDescriptor
  <2>3. stateMutex' = Unlocked /\ UNCHANGED <<deleting, metadataStore, expired>>
    BY <1>4 DEF WriteFile, NewObject
  <2>4. CASE UNCHANGED <<bundleFile, desc, bundles, accepted>>
    BY <2>3, <2>4 DEF TypeOK, FlagsMatchConstraints, DeletionHitsItsTarget,
         WriterOwnsItsFiles, MappedIsRecorded, OneLiveDescriptor, AcceptedIsDurable,
         Present, Unlocked, LockState
  <2>5. CASE /\ p \in Pointer \ DOMAIN desc
             /\ bundleFile' = [bundleFile EXCEPT ![b] = "whole"]
             /\ desc' = [q \in DOMAIN desc \cup {p} |-> IF q = p THEN d ELSE desc[q]]
             /\ bundles' = [bundles EXCEPT ![b] = p]
             /\ accepted' = accepted \cup {b}
    <3> HIDE DEF d
    <3>1. TypeOK'
      BY <2>1, <2>2, <2>3, <2>5 DEF TypeOK, Unlocked, LockState
    <3>2. FlagsMatchConstraints'
      BY <2>2, <2>5 DEF FlagsMatchConstraints, FlagsMatch
    <3>3. DeletionHitsItsTarget'
      BY <2>1, <2>3, <2>5, StoreAssumption DEF DeletionHitsItsTarget, TypeOK, Pointer
    <3>4. WriterOwnsItsFiles'
      BY <2>3 DEF WriterOwnsItsFiles, Unlocked
    <3>5. OneLiveDescriptor'
      BY <2>1, <2>5, StoreAssumption DEF OneLiveDescriptor, TypeOK, Pointer
    <3>6. AcceptedIsDurable'
      BY <2>1, <2>2, <2>3, <2>5 DEF AcceptedIsDurable, Present, TypeOK
    <3>7. MappedIsRecorded'
      BY <2>1, <2>3, <2>5 DEF MappedIsRecorded, TypeOK
    <3> QED BY <3>1, <3>2, <3>3, <3>4, <3>5, <3>6, <3>7
  <2> QED BY <1>4, <2>4, <2>5 DEF WriteFile, NewObject
<1> QED BY <1>1, <1>2, <1>3, <1>4 DEF InsertStep

\* A step of deleteBundle keeps the invariant: it removes a deleted object.
LEMMA DeleteStepKeeps ==
    ASSUME StoreInv, DeleteStep
    PROVE  StoreInv'
<1> USE DEF StoreInv
<1>1. ASSUME NEW p \in deleting, DeleteFromMap(p)
      PROVE  StoreInv'
  <2>1. /\ p \in Pointer /\ p[1] \in BundleIDs /\ bundles[p[1]] = p /\ desc[p].deleted
        /\ p[1] \notin accepted
    BY DEF DeletionHitsItsTarget, TypeOK, Pointer, AcceptedIsDurable, Present
  <2>2. TypeOK' /\ WriterOwnsItsFiles'
    BY <1>1, <2>1, StoreAssumption DEF DeleteFromMap, TypeOK, WriterOwnsItsFiles, Locked, LockState, disk
  <2>3. DeletionHitsItsTarget'
    BY <1>1, <2>1 DEF DeleteFromMap, DeletionHitsItsTarget, TypeOK, Pointer
  <2>4. OneLiveDescriptor'
    BY <1>1, <2>1 DEF DeleteFromMap, OneLiveDescriptor, TypeOK, Pointer
  <2>5. AcceptedIsDurable' /\ MappedIsRecorded'
    BY <1>1, <2>1 DEF DeleteFromMap, MappedIsRecorded, AcceptedIsDurable, Present, TypeOK, disk
  <2> QED BY <1>1, <2>2, <2>3, <2>4, <2>5 DEF DeleteFromMap, FlagsMatchConstraints
<1>2. ASSUME NEW b \in BundleIDs, DeleteMetadata(b) \/ DeleteFile(b)
      PROVE  StoreInv'
  <2>1. b \notin accepted /\ bundles[b] = Null
    BY <1>2 DEF DeleteMetadata, DeleteFile, WriterOwnsItsFiles, AcceptedIsDurable, Present
  <2>2. TypeOK' /\ WriterOwnsItsFiles'
    BY <1>2, <2>1 DEF DeleteMetadata, DeleteFile, RemoveMetadata, RemoveFile, TypeOK,
         WriterOwnsItsFiles, Unlocked, LockState
  <2>3. AcceptedIsDurable' /\ MappedIsRecorded'
    BY <1>2, <2>1 DEF DeleteMetadata, DeleteFile, RemoveMetadata, RemoveFile, TypeOK,
         MappedIsRecorded, AcceptedIsDurable, Present
  <2> QED
    BY <1>2, <2>2, <2>3 DEF DeleteMetadata, DeleteFile, FlagsMatchConstraints,
         DeletionHitsItsTarget, OneLiveDescriptor
<1> QED BY <1>1, <1>2 DEF DeleteStep

\* A restart rebuilds the map from the database; what was accepted is still there.
LEMMA RestartKeeps ==
    ASSUME StoreInv, Restart
    PROVE  StoreInv'
<1> USE DEF StoreInv
<1> DEFINE loaded == {b \in BundleIDs : metadataStore[b] # Null}
<1>1. /\ bundles' = [b \in BundleIDs |-> IF b \in loaded THEN <<b, 1>> ELSE Null]
      /\ desc' = [p \in loaded \X {1} |-> NewBundleDescriptor(metadataStore[p[1]])]
      /\ deleting' = {}
      /\ stateMutex' = Unlocked
      /\ UNCHANGED <<metadataStore, bundleFile, expired, accepted>>
  BY DEF Restart, disk
<1>2. \A b \in loaded : metadataStore[b] \in BundleMetadata
  BY DEF TypeOK
<1>3. \A p \in loaded \X {1} :
         /\ p \in Pointer /\ p = <<p[1], 1>> /\ p[1] \in loaded
         /\ desc'[p] \in BundleDescriptor /\ FlagsMatch(desc'[p]) /\ ~desc'[p].deleted
  <2> SUFFICES ASSUME NEW p \in loaded \X {1}
               PROVE  /\ p \in Pointer /\ p = <<p[1], 1>> /\ p[1] \in loaded
                      /\ desc'[p] \in BundleDescriptor /\ FlagsMatch(desc'[p])
                      /\ ~desc'[p].deleted
    OBVIOUS
  <2>1. p \in Pointer /\ p = <<p[1], 1>> /\ p[1] \in loaded
    BY StoreAssumption DEF Pointer
  <2> QED BY <1>1, <1>2, <2>1, NewDescriptor
<1>4. \A b \in loaded : <<b, 1>> \in loaded \X {1} /\ <<b, 1>> # Null
  BY StoreAssumption
<1>5. DOMAIN desc' = loaded \X {1}
  BY <1>1
<1>6. TypeOK'
  <2>1. bundles' \in [BundleIDs -> Pointer \cup {Null}]
    BY <1>1, <1>3, <1>4
  <2>2. desc' \in [DOMAIN desc' -> BundleDescriptor]
    BY <1>1, <1>3, <1>5
  <2>3. stateMutex' \in LockState
    BY <1>1 DEF Unlocked, LockState
  <2>4. \A b \in BundleIDs :
           bundles'[b] # Null => bundles'[b] \in DOMAIN desc' /\ bundles'[b][1] = b
    BY <1>1, <1>4, <1>5
  <2> QED BY <1>1, <1>3, <1>5, <2>1, <2>2, <2>3, <2>4 DEF TypeOK
<1>7. FlagsMatchConstraints'
  BY <1>3, <1>5 DEF FlagsMatchConstraints, FlagsMatch
<1>8. DeletionHitsItsTarget' /\ WriterOwnsItsFiles'
  BY <1>1 DEF DeletionHitsItsTarget, WriterOwnsItsFiles, Unlocked
<1>9. OneLiveDescriptor'
  BY <1>1, <1>3, <1>5 DEF OneLiveDescriptor
<1>10. AcceptedIsDurable'
  <2> SUFFICES ASSUME NEW b \in accepted
               PROVE  Present(b)' /\ metadataStore'[b] # Null /\ bundleFile'[b] = "whole"
    BY <1>1 DEF AcceptedIsDurable
  <2>1. b \in loaded /\ bundleFile[b] = "whole"
    BY DEF AcceptedIsDurable, TypeOK
  <2>2. bundles'[b] = <<b, 1>> /\ bundles'[b] # Null /\ ~desc'[<<b, 1>>].deleted
    BY <1>1, <1>3, <1>4, <2>1
  <2> QED BY <1>1, <2>1, <2>2 DEF Present
<1>11. MappedIsRecorded'
  BY <1>1 DEF MappedIsRecorded
<1> QED BY <1>6, <1>7, <1>8, <1>9, <1>10, <1>11

\* Every step of the store keeps the invariant.
LEMMA NextKeeps ==
    ASSUME StoreInv, [Next]_vars
    PROVE  StoreInv'
<1>1. ASSUME NEW b \in BundleIDs, Expire(b)
      PROVE  StoreInv'
  BY <1>1 DEF Expire, memory, disk, StoreInv, TypeOK, FlagsMatchConstraints,
       DeletionHitsItsTarget, WriterOwnsItsFiles, MappedIsRecorded, OneLiveDescriptor,
       AcceptedIsDurable, Present
<1>2. CASE UNCHANGED vars
  BY <1>2 DEF vars, memory, disk, StoreInv, TypeOK, FlagsMatchConstraints,
       DeletionHitsItsTarget, WriterOwnsItsFiles, MappedIsRecorded, OneLiveDescriptor,
       AcceptedIsDurable, Present
<1> QED
  BY <1>1, <1>2, DescriptorStepKeeps, InsertStepKeeps, DeleteStepKeeps, CollectStepKeeps,
     RestartKeeps DEF Next

\* The empty store satisfies the invariant.
LEMMA InitEstablishes == Init => StoreInv
BY DEF Init, StoreInv, TypeOK, FlagsMatchConstraints, DeletionHitsItsTarget,
     WriterOwnsItsFiles, MappedIsRecorded, OneLiveDescriptor, AcceptedIsDurable, Unlocked,
     LockState, Pointer

-----------------------------------------------------------------------------
\* The inductive invariant holds in every reachable state of the store.
THEOREM StoreInvariance == Spec => []StoreInv
<1>1. Init => StoreInv
  BY InitEstablishes
<1>2. StoreInv /\ [Next]_vars => StoreInv'
  BY NextKeeps
<1> QED BY <1>1, <1>2, PTL DEF Spec

\* The variables of the store keep their types and the map points only to
\* objects of the bundle it maps.
THEOREM TypeCorrect == Spec => []TypeOK
<1>1. StoreInv => TypeOK
  BY DEF StoreInv
<1> QED BY <1>1, StoreInvariance, PTL

\* Dispatch() and Retain() always answer as the list of constraints says.
THEOREM FlagsCorrect == Spec => []FlagsMatchConstraints
<1>1. StoreInv => FlagsMatchConstraints
  BY DEF StoreInv
<1> QED BY <1>1, StoreInvariance, PTL

\* However late a spawned deleteBundle runs, it removes the object it was spawned
\* for, never a copy of the bundle that was stored again under the same ID.
THEOREM DeletionIsSafe == Spec => [](DeletionHitsItsTarget /\ OneLiveDescriptor)
<1>1. StoreInv => DeletionHitsItsTarget /\ OneLiveDescriptor
  BY DEF StoreInv
<1> QED BY <1>1, StoreInvariance, PTL

\* What InsertBundle accepted and nobody deleted is completely on disk and in the
\* map, whatever fails, is collected or restarts meanwhile.
THEOREM Durability == Spec => []AcceptedIsDurable
<1>1. StoreInv => AcceptedIsDurable
  BY DEF StoreInv
<1> QED BY <1>1, StoreInvariance, PTL

\* No step of the store, garbage collection included, deletes a bundle that holds
\* a retention constraint and was not marked for deletion.
THEOREM RetentionIsRespected == Spec => ConstrainedIsNotDeleted
<1>1. ASSUME StoreInv, [Next]_vars
      PROVE  DeletionIsAllowed
  <2> SUFFICES ASSUME NEW p \in DOMAIN desc \cap DOMAIN desc',
                      ~desc[p].deleted, desc'[p].deleted
               PROVE  desc[p].retentionConstraints = {} \/ desc[p].shouldDelete
    BY DEF DeletionIsAllowed
  <2> USE <1>1
  <2>1. desc \in [DOMAIN desc -> BundleDescriptor]
    BY DEF StoreInv, TypeOK
  <2>2. ASSUME NEW q \in DOMAIN desc, NEW d, desc' = [desc EXCEPT ![q] = d],
               d.deleted => desc[q].deleted \/ desc[q].retentionConstraints = {}
                            \/ desc[q].shouldDelete
        PROVE  desc[p].retentionConstraints = {} \/ desc[p].shouldDelete
    BY <2>1, <2>2
  <2>3. CASE DescriptorStep
    <3>1. PICK q \in DOMAIN desc :
            \/ \E c \in Constraint : AddConstraint(q, c) \/ RemoveConstraint(q, c)
            \/ ResetConstraints(q)
            \/ \E mark \in BOOLEAN : Delete(q, mark)
            \/ \E peer \in EndpointIDs : AddKnownHolder(q, peer)
            \/ \E value \in MiscValues : SetMiscData(q, value)
      BY <2>3 DEF DescriptorStep
    <3>2. desc[q] \in BundleDescriptor
      BY <2>1
    <3>3. ASSUME NEW c \in Constraint, AddConstraint(q, c)
          PROVE  desc[p].retentionConstraints = {} \/ desc[p].shouldDelete
      BY <3>2, <3>3, <2>2 DEF AddConstraint, SetDescriptor, WithConstraint, Live, BundleDescriptor
    <3>4. ASSUME NEW c \in Constraint, RemoveConstraint(q, c)
          PROVE  desc[p].retentionConstraints = {} \/ desc[p].shouldDelete
      BY <3>2, <3>4, <2>2 DEF RemoveConstraint, SetDescriptor, WithoutConstraint, BundleDescriptor
    <3>5. ASSUME ResetConstraints(q)
          PROVE  desc[p].retentionConstraints = {} \/ desc[p].shouldDelete
      BY <3>2, <3>5, <2>2 DEF ResetConstraints, SetDescriptor, WithoutConstraints, BundleDescriptor
    <3>6. ASSUME NEW mark \in BOOLEAN, Delete(q, mark)
          PROVE  desc[p].retentionConstraints = {} \/ desc[p].shouldDelete
      BY <3>2, <3>6, <2>2 DEF Delete, SetDescriptor, AfterDelete, Live, BundleDescriptor
    <3>7. ASSUME NEW peer \in EndpointIDs, AddKnownHolder(q, peer)
          PROVE  desc[p].retentionConstraints = {} \/ desc[p].shouldDelete
      BY <3>2, <3>7, <2>2 DEF AddKnownHolder, BundleDescriptor
    <3>8. ASSUME NEW value \in MiscValues, SetMiscData(q, value)
          PROVE  desc[p].retentionConstraints = {} \/ desc[p].shouldDelete
      BY <3>2, <3>8, <2>2 DEF SetMiscData, BundleDescriptor
    <3> QED BY <3>1, <3>3, <3>4, <3>5, <3>6, <3>7, <3>8
  <2>4. CASE InsertStep
    <3>1. ASSUME NEW b \in BundleIDs, NEW previousNode, InsertKnownBundle(b, previousNode)
          PROVE  desc[p].retentionConstraints = {} \/ desc[p].shouldDelete
      BY <2>1, <2>2, <3>1 DEF InsertKnownBundle, AddKnownHolder, Live, BundleDescriptor
    <3>2. ASSUME NEW q \in Pointer, WriteFile(q)
          PROVE  FALSE
      BY <3>2 DEF WriteFile, NewObject
    <3> QED BY <2>4, <3>1, <3>2 DEF InsertStep, InsertMetadata, CreateFile
  <2>5. CASE CollectStep
    <3>1. ASSUME NEW b \in BundleIDs, CollectDelete(b)
          PROVE  desc[p].retentionConstraints = {} \/ desc[p].shouldDelete
      BY <2>1, <2>2, <3>1 DEF CollectDelete, SetDescriptor, AfterDelete, Live, BundleDescriptor
    <3> QED BY <2>5, <3>1 DEF CollectStep, CollectStart, CollectCheck, CollectEnd
  <2>6. CASE Restart
    BY <2>6 DEF Restart, NewBundleDescriptor
  <2>7. CASE DeleteStep \/ (\E b \in BundleIDs : Expire(b)) \/ UNCHANGED vars
    BY <2>7 DEF DeleteStep, DeleteFromMap, DeleteMetadata, DeleteFile, Expire, memory, vars
  <2> QED BY <2>3, <2>4, <2>5, <2>6, <2>7 DEF Next
<1> QED BY <1>1, StoreInvariance, PTL DEF Spec, ConstrainedIsNotDeleted

-----------------------------------------------------------------------------
(* The store implements AbstractStore.                                        *)

AbstractStatus == [b \in BundleIDs |-> StatusOf(b)]

\* A step that leaves the status of every bundle alone is a stuttering step.
LEMMA StatusUnchanged ==
    ASSUME \A b \in BundleIDs : StatusOf(b)' = StatusOf(b)
    PROVE  UNCHANGED AbstractStatus
BY DEF AbstractStatus

\* Replacing a live descriptor deletes its bundle or changes no status.
LEMMA SetDescriptorRefines ==
    ASSUME StoreInv, NEW p \in DOMAIN desc, ~desc[p].deleted, NEW d,
           SetDescriptor(p, d), UNCHANGED <<bundles, disk>>
    PROVE  [Abstract!StoreNext]_AbstractStatus
<1>1. /\ p \in Pointer /\ p[1] \in BundleIDs /\ bundles[p[1]] = p /\ p # Null
      /\ \A b \in BundleIDs : bundles[b] # Null => bundles[b] \in DOMAIN desc
      /\ \A b \in BundleIDs : bundles[b] = p => b = p[1]
      /\ bundleFile \in [BundleIDs -> {"absent", "partial", "whole"}]
  BY StoreAssumption DEF StoreInv, TypeOK, OneLiveDescriptor, Pointer
<1>2. /\ DOMAIN desc' = DOMAIN desc /\ desc'[p] = d
      /\ \A q \in DOMAIN desc : q # p => desc'[q] = desc[q]
  BY DEF SetDescriptor, StoreInv, TypeOK
<1>3. \A b \in BundleIDs : b # p[1] => StatusOf(b)' = StatusOf(b)
  BY <1>1, <1>2 DEF StatusOf, disk
<1>4. CASE d.deleted
  <2>1. StatusOf(p[1])' = "deleted" /\ StatusOf(p[1]) \in {"stored", "torn", "missing"}
    BY <1>1, <1>2, <1>4 DEF StatusOf, disk
  <2>2. AbstractStatus' = [AbstractStatus EXCEPT ![p[1]] = "deleted"]
    BY <1>1, <1>3, <2>1 DEF AbstractStatus
  <2>3. Abstract!StoreDelete(p[1])
    BY <1>1, <2>1, <2>2 DEF Abstract!StoreDelete, Abstract!Held, AbstractStatus
  <2> QED BY <1>1, <2>3 DEF Abstract!StoreNext
<1>5. CASE ~d.deleted
  BY <1>1, <1>2, <1>3, <1>5, StatusUnchanged DEF StatusOf, disk
<1> QED BY <1>4, <1>5

\* Descriptor methods that only write metadata change no status.
LEMMA SetMetadataRefines ==
    ASSUME StoreInv, NEW p \in DOMAIN desc, NEW d, d.deleted = desc[p].deleted,
           desc' = [desc EXCEPT ![p] = d], UNCHANGED <<bundles, bundleFile>>
    PROVE  UNCHANGED AbstractStatus
<1>1. \A q \in DOMAIN desc : desc'[q].deleted = desc[q].deleted
  BY DEF StoreInv, TypeOK
<1>2. \A b \in BundleIDs : StatusOf(b)' = StatusOf(b)
  BY <1>1 DEF StatusOf, StoreInv, TypeOK
<1> QED BY <1>2, StatusUnchanged

\* Every step of the store is a step of AbstractStore or leaves status alone.
LEMMA StepRefines ==
    ASSUME StoreInv, [Next]_vars
    PROVE  [Abstract!StoreNext]_AbstractStatus
<1> USE DEF StoreInv
<1>1. \A p \in DOMAIN desc : desc[p] \in BundleDescriptor
  BY DEF TypeOK
<1>2. ASSUME NEW p \in DOMAIN desc, NEW peer, AddKnownHolder(p, peer)
      PROVE  UNCHANGED AbstractStatus
  BY <1>1, <1>2, SetMetadataRefines DEF AddKnownHolder, BundleDescriptor
<1>3. ASSUME UNCHANGED <<bundles, desc, bundleFile>>
      PROVE  UNCHANGED AbstractStatus
  BY <1>3 DEF AbstractStatus, StatusOf
<1>4. ASSUME NEW b \in BundleIDs, bundles[b] = Null, UNCHANGED <<bundles, desc>>,
             \A a \in BundleIDs : a # b => bundleFile'[a] = bundleFile[a]
      PROVE  UNCHANGED AbstractStatus
  BY <1>4, StatusUnchanged DEF StatusOf
<1>5. CASE DescriptorStep
  <2>1. PICK p \in DOMAIN desc :
          \/ \E c \in Constraint : AddConstraint(p, c) \/ RemoveConstraint(p, c)
          \/ ResetConstraints(p)
          \/ \E mark \in BOOLEAN : Delete(p, mark)
          \/ \E peer \in EndpointIDs : AddKnownHolder(p, peer)
          \/ \E value \in MiscValues : SetMiscData(p, value)
    BY <1>5 DEF DescriptorStep
  <2>2. ASSUME NEW value, SetMiscData(p, value)
        PROVE  UNCHANGED AbstractStatus
    BY <1>1, <2>2, SetMetadataRefines DEF SetMiscData, BundleDescriptor
  <2>3. ASSUME \/ \E c \in Constraint : AddConstraint(p, c) \/ RemoveConstraint(p, c)
               \/ ResetConstraints(p)
               \/ \E mark \in BOOLEAN : Delete(p, mark)
        PROVE  [Abstract!StoreNext]_AbstractStatus
    BY <2>3, SetDescriptorRefines
       DEF AddConstraint, RemoveConstraint, ResetConstraints, Delete, Live
  <2> QED BY <1>2, <2>1, <2>2, <2>3
<1>6. CASE InsertStep
  <2>1. ASSUME NEW b \in BundleIDs, NEW previousNode, InsertKnownBundle(b, previousNode)
        PROVE  UNCHANGED AbstractStatus
    BY <1>2, <2>1 DEF InsertKnownBundle, TypeOK
  <2>2. ASSUME NEW b \in BundleIDs, CreateFile(b)
        PROVE  UNCHANGED AbstractStatus
    <3>1. bundles[b] = Null
      BY <2>2 DEF CreateFile, WriterOwnsItsFiles
    <3>2. \A a \in BundleIDs : a # b => bundleFile'[a] = bundleFile[a]
      BY <2>2 DEF CreateFile, RemoveFile, TypeOK
    <3> QED BY <1>4, <2>2, <3>1, <3>2 DEF CreateFile
  <2>3. ASSUME NEW p \in Pointer, WriteFile(p)
        PROVE  [Abstract!StoreNext]_AbstractStatus
    <3> DEFINE b == p[1]
               d == NewBundleDescriptor(stateMutex.metadata)
    <3>1. b \in BundleIDs /\ bundles[b] = Null /\ p # Null /\ ~d.deleted
      BY <2>3, StoreAssumption DEF WriteFile, NewObject, WriterOwnsItsFiles, Pointer, NewBundleDescriptor
    <3>2. CASE /\ p \in Pointer \ DOMAIN desc
               /\ bundleFile' = [bundleFile EXCEPT ![b] = "whole"]
               /\ desc' = [q \in DOMAIN desc \cup {p} |-> IF q = p THEN d ELSE desc[q]]
               /\ bundles' = [bundles EXCEPT ![b] = p]
      <4> HIDE DEF d
      <4>1. StatusOf(b) = "absent" /\ StatusOf(b)' = "stored"
        BY <3>1, <3>2 DEF StatusOf, TypeOK
      <4>2. \A a \in BundleIDs : a # b => StatusOf(a)' = StatusOf(a)
        BY <3>1, <3>2 DEF StatusOf, TypeOK
      <4>3. Abstract!StoreInsert(b)
        BY <3>1, <4>1, <4>2 DEF Abstract!StoreInsert
      <4> QED BY <3>1, <4>3 DEF Abstract!StoreNext
    <3>3. CASE UNCHANGED <<bundleFile, desc, bundles>>
      BY <1>3, <3>3
    <3> QED BY <2>3, <3>2, <3>3 DEF WriteFile, NewObject
  <2> QED BY <1>3, <1>6, <2>1, <2>2, <2>3 DEF InsertStep, InsertMetadata
<1>7. CASE DeleteStep
  <2>1. ASSUME NEW p \in deleting, DeleteFromMap(p)
        PROVE  [Abstract!StoreNext]_AbstractStatus
    <3>1. p[1] \in BundleIDs /\ bundles[p[1]] = p /\ desc[p].deleted /\ p # Null
      BY StoreAssumption DEF DeletionHitsItsTarget, TypeOK, Pointer
    <3>2. StatusOf(p[1]) = "deleted" /\ StatusOf(p[1])' = "absent"
      BY <2>1, <3>1 DEF DeleteFromMap, StatusOf, TypeOK
    <3>3. \A a \in BundleIDs : a # p[1] => StatusOf(a)' = StatusOf(a)
      BY <2>1, <3>1 DEF DeleteFromMap, StatusOf, TypeOK, disk
    <3>4. Abstract!StoreForget(p[1])
      BY <3>1, <3>2, <3>3 DEF Abstract!StoreForget
    <3> QED BY <3>1, <3>4 DEF Abstract!StoreNext
  <2>2. ASSUME NEW b \in BundleIDs, DeleteMetadata(b)
        PROVE  UNCHANGED AbstractStatus
    BY <1>3, <2>2 DEF DeleteMetadata
  <2>3. ASSUME NEW b \in BundleIDs, DeleteFile(b)
        PROVE  UNCHANGED AbstractStatus
    <3>1. bundles[b] = Null
      BY <2>3 DEF DeleteFile, WriterOwnsItsFiles
    <3>2. \A a \in BundleIDs : a # b => bundleFile'[a] = bundleFile[a]
      BY <2>3 DEF DeleteFile, RemoveFile, TypeOK
    <3> QED BY <1>4, <2>3, <3>1, <3>2 DEF DeleteFile
  <2> QED BY <1>7, <2>1, <2>2, <2>3 DEF DeleteStep
<1>8. CASE CollectStep
  <2>1. ASSUME NEW b \in BundleIDs, CollectDelete(b)
        PROVE  [Abstract!StoreNext]_AbstractStatus
    BY <1>3, <2>1, SetDescriptorRefines DEF CollectDelete, Live, disk
  <2> QED BY <1>3, <1>8, <2>1 DEF CollectStep, CollectStart, CollectCheck, CollectEnd, disk
<1>9. CASE Restart
  <2>1. \A b \in BundleIDs : StatusOf(b)' \in Abstract!Held \cup {"absent"}
    BY <1>9, StoreAssumption DEF Restart, StatusOf, NewBundleDescriptor, Abstract!Held
  <2>2. \A b \in BundleIDs : StatusOf(b) \in Abstract!Held => StatusOf(b)' = StatusOf(b)
    <3> SUFFICES ASSUME NEW b \in BundleIDs, StatusOf(b) \in Abstract!Held
                 PROVE  StatusOf(b)' = StatusOf(b)
      OBVIOUS
    <3>1. bundles[b] # Null /\ ~desc[bundles[b]].deleted /\ metadataStore[b] # Null
      BY DEF StatusOf, Abstract!Held, MappedIsRecorded
    <3>2. bundles'[b] # Null /\ ~desc'[bundles'[b]].deleted
      BY <1>9, <3>1, StoreAssumption DEF Restart, NewBundleDescriptor
    <3> QED BY <1>9, <3>1, <3>2 DEF StatusOf, Restart, disk
  <2>3. Abstract!StoreRestart
    <3>1. AbstractStatus' \in [BundleIDs -> Abstract!Held \cup {"absent"}]
      BY <2>1 DEF AbstractStatus
    <3>2. \A b \in BundleIDs :
             AbstractStatus[b] \in Abstract!Held => AbstractStatus'[b] = AbstractStatus[b]
      BY <2>2 DEF AbstractStatus
    <3> QED BY <3>1, <3>2 DEF Abstract!StoreRestart, AbstractStatus
  <2> QED BY <2>3 DEF Abstract!StoreNext
<1>10. CASE (\E b \in BundleIDs : Expire(b)) \/ UNCHANGED vars
  BY <1>3, <1>10 DEF Expire, vars, memory, disk
<1> QED BY <1>5, <1>6, <1>7, <1>8, <1>9, <1>10 DEF Next

\* The bundle store implements the abstract store the other components rely on.
THEOREM StoreImplementsAbstract == Spec => ImplementsAbstractStore
<1>1. Init => Abstract!StoreInit
  BY DEF Init, Abstract!StoreInit, StatusOf
<1>2. StoreInv /\ [Next]_vars => [Abstract!StoreNext]_AbstractStatus
  BY StepRefines
<1> QED
  BY <1>1, <1>2, StoreInvariance, PTL
     DEF Spec, ImplementsAbstractStore, Abstract!StoreSpec, AbstractStatus

-----------------------------------------------------------------------------
(* The daemon on top of the store                                            *)

\* A step of a receiving goroutine is a step of InsertBundle or none.
LEMMA ReceiveStepUsesStore ==
    ASSUME StoreInv, NEW r \in Receivers, ReceiveStep(r)
    PROVE  [Next]_vars
<1>1. ASSUME NEW b \in BundleIDs, NEW from \in Peers \cup {Null},
             ReceiveKnown(r, b, from) \/ ReceiveNew(r, b, from)
      PROVE  [Next]_vars
  BY <1>1 DEF ReceiveKnown, ReceiveNew, Peers, Next, InsertStep
<1>2. ASSUME ReceiveCreate(r)
      PROVE  [Next]_vars
  <2>1. CreateFile(recv[r].id)
    BY <1>2 DEF ReceiveCreate
  <2>2. recv[r].id \in BundleIDs
    BY <2>1 DEF CreateFile, StoreInv, TypeOK, WriterOwnsItsFiles, LockState
  <2> QED BY <2>1, <2>2 DEF Next, InsertStep
<1>3. ASSUME ReceiveWrite(r)
      PROVE  [Next]_vars
  BY <1>3 DEF ReceiveWrite, Next, InsertStep
<1>4. ASSUME NEW f \in Forwarders, ReceiveForward(r, f)
      PROVE  [Next]_vars
  BY <1>4 DEF ReceiveForward
<1> QED BY <1>1, <1>2, <1>3, <1>4 DEF ReceiveStep

\* A step of a forwarding goroutine is a call of a descriptor method or none.
LEMMA ForwardStepUsesStore ==
    ASSUME NEW f \in Forwarders, ForwardStep(f)
    PROVE  [Next]_vars
<1> DEFINE p == fwd[f].p
<1>1. "ForwardPending" \in Constraint /\ "DispatchPending" \in Constraint
  BY DEF Constraint
<1>2. ASSUME ForwardAdd(f)
      PROVE  [Next]_vars
  <2>1. AddConstraint(p, "ForwardPending") \/ UNCHANGED vars
    BY <1>2 DEF ForwardAdd, OnError
  <2> QED BY <1>1, <2>1 DEF AddConstraint, Live, Next, DescriptorStep
<1>3. ASSUME ForwardRemove(f)
      PROVE  [Next]_vars
  <2>1. RemoveConstraint(p, "DispatchPending") \/ UNCHANGED vars
    BY <1>3 DEF ForwardRemove, OnError
  <2> QED BY <1>1, <2>1 DEF RemoveConstraint, Live, Next, DescriptorStep
<1>4. ASSUME ForwardContraindicated(f)
      PROVE  [Next]_vars
  <2>1. ResetConstraints(p) \/ UNCHANGED vars
    BY <1>4 DEF ForwardContraindicated, OnError
  <2> QED BY <2>1 DEF ResetConstraints, Live, Next, DescriptorStep
<1>5. ASSUME NEW peer \in Peers, ForwardSent(f, peer)
      PROVE  [Next]_vars
  <2>1. AddKnownHolder(p, peer) \/ UNCHANGED vars
    BY <1>5 DEF ForwardSent
  <2>2. peer \in EndpointIDs
    BY DEF Peers
  <2> QED BY <2>1, <2>2 DEF AddKnownHolder, Live, Next, DescriptorStep
<1>6. ASSUME ForwardEnd(f)
      PROVE  [Next]_vars
  <2>1. RemoveConstraint(p, "ForwardPending") \/ UNCHANGED vars
    BY <1>6 DEF ForwardEnd
  <2> QED BY <1>1, <2>1 DEF RemoveConstraint, Live, Next, DescriptorStep
<1>7. ASSUME \/ ForwardSelect(f)
             \/ ForwardLoad(f)
             \/ \E peer \in Peers : ForwardFailed(f, peer)
      PROVE  [Next]_vars
  BY <1>7 DEF ForwardSelect, ForwardLoad, ForwardFailed
<1> QED BY <1>2, <1>3, <1>4, <1>5, <1>6, <1>7 DEF ForwardStep

\* Every step of the daemon is a step of the store or leaves it alone.
LEMMA ProcStepUsesStore ==
    ASSUME StoreInv, [ProcNext]_allVars
    PROVE  [Next]_vars
<1>1. CASE BackgroundStep
  BY <1>1 DEF BackgroundStep, Next
<1>2. CASE DaemonRestart
  BY <1>2 DEF DaemonRestart, Next
<1>3. ASSUME NEW f \in Forwarders, NEW b \in BundleIDs, DispatchPending(b, f)
      PROVE  [Next]_vars
  BY <1>3 DEF DispatchPending
<1>4. ASSUME NEW peer \in Peers, PeerAppears(peer) \/ PeerDisappears(peer)
      PROVE  [Next]_vars
  BY <1>4 DEF PeerAppears, PeerDisappears
<1>5. CASE UNCHANGED allVars
  BY <1>5 DEF allVars
<1> QED
  BY <1>1, <1>2, <1>3, <1>4, <1>5, ReceiveStepUsesStore, ForwardStepUsesStore DEF ProcNext

\* The store's inductive invariant holds in every reachable state of the daemon.
THEOREM DaemonKeepsStoreInv == ProcSpec => []StoreInv
<1>1. ProcInit => StoreInv
  BY InitEstablishes DEF ProcInit
<1>2. StoreInv /\ [ProcNext]_allVars => StoreInv'
  BY ProcStepUsesStore, NextKeeps
<1> QED BY <1>1, <1>2, PTL DEF ProcSpec

\* The daemon implements BundleStore: each of its steps uses the store as the
\* store's specification says it may be used.
THEOREM DaemonUsesBundleStore == ProcSpec => UsesBundleStore
<1>1. ProcInit => Init
  BY DEF ProcInit
<1>2. StoreInv /\ [ProcNext]_allVars => [Next]_vars
  BY ProcStepUsesStore
<1> QED BY <1>1, <1>2, DaemonKeepsStoreInv, PTL DEF ProcSpec, UsesBundleStore, Spec

-----------------------------------------------------------------------------
(* The properties of processing itself.                                       *)

\* KnownHoldersHold, and for the metadata an insert has in its hands.
HoldersInv ==
    /\ KnownHoldersHold
    /\ stateMutex.metadata # Null => AreHolders(stateMutex.id, stateMutex.metadata)

\* Why nothing is deleted untried: until a forwarder has looked for peers, one of
\* the two constraints of the pipeline is there and nobody asks for deletion, and
\* forwarders that may take the other constraints away come after that.
TriedInv ==
    /\ \A p \in DOMAIN desc \ tried :
          /\ ~desc[p].deleted /\ ~desc[p].shouldDelete
          /\ \/ "DispatchPending" \in desc[p].retentionConstraints
             \/ "ForwardPending" \in desc[p].retentionConstraints
    /\ \A f \in Forwarders :
          /\ fwd[f].pc \in {"remove", "select"} =>
                fwd[f].p \in tried \/ "ForwardPending" \in desc[fwd[f].p].retentionConstraints
          /\ fwd[f].pc \in {"contraindicated", "load", "send"} => fwd[f].p \in tried

ProcInv == StoreInv /\ ProcTypeOK /\ HoldersInv /\ TriedInv

\* A step that replaces a descriptor but not its metadata keeps HoldersInv.
LEMMA SetDescriptorHolders ==
    ASSUME StoreInv, HoldersInv, NEW p \in DOMAIN desc, NEW d,
           d.metadata = desc[p].metadata, desc' = [desc EXCEPT ![p] = d],
           UNCHANGED <<metadataStore, holds>>,
           stateMutex' = stateMutex \/ stateMutex'.metadata = Null
    PROVE  HoldersInv'
<1>1. DOMAIN desc' = DOMAIN desc /\ \A q \in DOMAIN desc : desc'[q].metadata = desc[q].metadata
  BY DEF StoreInv, TypeOK
<1> QED BY <1>1 DEF HoldersInv, KnownHoldersHold, AreHolders

\* A step that writes neither descriptors nor metadata keeps it, if it lets go of
\* the lock or leaves it alone.
LEMMA UnchangedHolders ==
    ASSUME HoldersInv, UNCHANGED <<desc, metadataStore>>, holds \subseteq holds',
           stateMutex' = stateMutex \/ stateMutex'.metadata = Null
    PROVE  HoldersInv'
BY DEF HoldersInv, KnownHoldersHold, AreHolders

\* Recording a peer that has the bundle keeps it.
LEMMA AddKnownHolderHolders ==
    ASSUME StoreInv, HoldersInv, NEW p \in DOMAIN desc, NEW peer,
           AddKnownHolder(p, peer), holds' = holds \cup {<<p[1], peer>>}
    PROVE  HoldersInv'
<1> DEFINE d == [desc[p] EXCEPT !.metadata.KnownHolders = @ \cup {peer}]
<1>1. desc[p] \in BundleDescriptor /\ desc[p].metadata \in BundleMetadata /\ p[1] \in BundleIDs
  BY DEF StoreInv, TypeOK, BundleDescriptor, Pointer
<1>2. d.metadata.KnownHolders = desc[p].metadata.KnownHolders \cup {peer}
  BY <1>1 DEF BundleDescriptor, BundleMetadata
<1>3. /\ desc' = [desc EXCEPT ![p] = d]
      /\ \/ metadataStore' = [metadataStore EXCEPT ![p[1]] = d.metadata]
         \/ metadataStore' = metadataStore
      /\ stateMutex' = stateMutex
  BY DEF AddKnownHolder, UpdateMetadata
<1> HIDE DEF d
<1>4. \A n \in d.metadata.KnownHolders \ {NodeID} : <<p[1], n>> \in holds'
  BY <1>2 DEF HoldersInv, KnownHoldersHold, AreHolders
<1>5. \A q \in DOMAIN desc' : AreHolders(q[1], desc[q].metadata)'
  BY <1>3, <1>4 DEF HoldersInv, KnownHoldersHold, AreHolders, StoreInv, TypeOK
<1>6. \A b \in BundleIDs : metadataStore'[b] # Null => AreHolders(b, metadataStore[b])'
  BY <1>1, <1>3, <1>4 DEF HoldersInv, KnownHoldersHold, AreHolders, StoreInv, TypeOK
<1> QED
  BY <1>3, <1>5, <1>6 DEF HoldersInv, KnownHoldersHold, AreHolders

\* A reception keeps HoldersInv: the sender of a bundle has it.
LEMMA ReceiveStepHolders ==
    ASSUME StoreInv, HoldersInv, NEW r \in Receivers, ReceiveStep(r)
    PROVE  HoldersInv'
<1>1. ASSUME NEW b \in BundleIDs, NEW from \in Peers \cup {Null}, ReceiveKnown(r, b, from)
      PROVE  HoldersInv'
  <2>1. bundles[b] \in DOMAIN desc /\ bundles[b][1] = b
    BY <1>1 DEF ReceiveKnown, StoreInv, TypeOK
  <2>2. CASE from = Null
    BY <1>1, <2>2, UnchangedHolders DEF ReceiveKnown, vars, memory, disk
  <2>3. CASE from # Null
    BY <1>1, <2>1, <2>3, AddKnownHolderHolders DEF ReceiveKnown, InsertKnownBundle
  <2> QED BY <2>2, <2>3
<1>2. ASSUME NEW b \in BundleIDs, NEW from \in Peers \cup {Null}, ReceiveNew(r, b, from)
      PROVE  HoldersInv'
  <2> DEFINE m == [KnownHolders |-> {NodeID} \cup ({from} \ {Null}),
                   MiscellaneousData |-> Null]
  <2>1. /\ metadataStore' = [metadataStore EXCEPT ![b] = m]
        /\ stateMutex' = Locked("create", b, m, {})
        /\ UNCHANGED desc
        /\ holds' = holds \cup {<<b, from>>}
    BY <1>2 DEF ReceiveNew, InsertMetadata
  <2>2. \A n \in m.KnownHolders \ {NodeID} : <<b, n>> \in holds'
    BY <2>1
  <2> HIDE DEF m
  <2>3. KnownHoldersHold'
    BY <2>1, <2>2 DEF HoldersInv, KnownHoldersHold, AreHolders, StoreInv, TypeOK
  <2> QED BY <2>1, <2>2, <2>3 DEF HoldersInv, AreHolders, Locked
<1>3. ASSUME ReceiveCreate(r)
      PROVE  HoldersInv'
  <2>1. /\ stateMutex'.metadata \in {stateMutex.metadata, Null}
        /\ stateMutex'.metadata # Null => stateMutex'.id = stateMutex.id
        /\ UNCHANGED <<desc, holds>>
        /\ \A b \in BundleIDs : metadataStore'[b] \in {metadataStore[b], Null}
    BY <1>3 DEF ReceiveCreate, CreateFile, RemoveMetadata, Unlocked, StoreInv, TypeOK, LockState
  <2> QED BY <2>1 DEF HoldersInv, KnownHoldersHold, AreHolders
<1>4. ASSUME ReceiveWrite(r)
      PROVE  HoldersInv'
  <2>1. PICK p \in Pointer : WriteFile(p)
    BY <1>4 DEF ReceiveWrite
  <2>2. /\ stateMutex' = Unlocked /\ UNCHANGED <<metadataStore, holds>>
        /\ stateMutex.op = "write" /\ stateMutex.id = p[1] /\ stateMutex.metadata # Null
    BY <1>4, <2>1 DEF WriteFile, NewObject, ReceiveWrite, StoreInv, WriterOwnsItsFiles
  <2>3. \A q \in DOMAIN desc' : AreHolders(q[1], desc[q].metadata)'
    <3>1. CASE UNCHANGED desc
      BY <2>2, <3>1 DEF HoldersInv, KnownHoldersHold, AreHolders
    <3>2. CASE desc' = [q \in DOMAIN desc \cup {p} |->
                          IF q = p THEN NewBundleDescriptor(stateMutex.metadata) ELSE desc[q]]
      <4>1. /\ DOMAIN desc' = DOMAIN desc \cup {p}
            /\ desc'[p].metadata = stateMutex.metadata
            /\ \A q \in DOMAIN desc : q # p => desc'[q] = desc[q]
        BY <3>2 DEF NewBundleDescriptor
      <4> QED BY <2>2, <4>1 DEF HoldersInv, KnownHoldersHold, AreHolders
    <3> QED BY <2>1, <3>1, <3>2 DEF WriteFile, NewObject
  <2> QED BY <2>2, <2>3 DEF HoldersInv, KnownHoldersHold, AreHolders, Unlocked
<1>5. ASSUME NEW f \in Forwarders, ReceiveForward(r, f)
      PROVE  HoldersInv'
  BY <1>5, UnchangedHolders DEF ReceiveForward, vars, memory, disk
<1> QED BY <1>1, <1>2, <1>3, <1>4, <1>5 DEF ReceiveStep

\* Forwarding keeps HoldersInv: only a peer that took the bundle is recorded.
LEMMA ForwardStepHolders ==
    ASSUME StoreInv, ProcTypeOK, HoldersInv, NEW f \in Forwarders, ForwardStep(f)
    PROVE  HoldersInv'
<1> DEFINE p == fwd[f].p
<1>1. ASSUME UNCHANGED vars, holds \subseteq holds'
      PROVE  HoldersInv'
  BY <1>1, UnchangedHolders DEF vars, memory, disk
<1>2. ASSUME NEW d, p \in DOMAIN desc, d.metadata = desc[p].metadata, SetDescriptor(p, d),
             UNCHANGED <<stateMutex, disk, holds>>
      PROVE  HoldersInv'
  BY <1>2, SetDescriptorHolders DEF SetDescriptor, disk
<1>3. p \in DOMAIN desc => desc[p] \in BundleDescriptor
  BY DEF StoreInv, TypeOK
<1>4. ASSUME NEW c, AddConstraint(p, c), UNCHANGED holds
      PROVE  HoldersInv'
  BY <1>2, <1>3, <1>4 DEF AddConstraint, Live, WithConstraint, BundleDescriptor
<1>5. ASSUME NEW c, RemoveConstraint(p, c), UNCHANGED holds
      PROVE  HoldersInv'
  BY <1>2, <1>3, <1>5 DEF RemoveConstraint, Live, WithoutConstraint, BundleDescriptor
<1>6. ASSUME ResetConstraints(p), UNCHANGED holds
      PROVE  HoldersInv'
  BY <1>2, <1>3, <1>6 DEF ResetConstraints, Live, WithoutConstraints, BundleDescriptor
<1>7. ASSUME NEW peer \in Peers, ForwardSent(f, peer)
      PROVE  HoldersInv'
  <2>1. CASE AddKnownHolder(p, peer)
    BY <1>7, <2>1, AddKnownHolderHolders DEF ForwardSent, ProcTypeOK
  <2>2. CASE UNCHANGED vars
    BY <1>1, <1>7, <2>2 DEF ForwardSent
  <2> QED BY <1>7, <2>1, <2>2 DEF ForwardSent
<1>8. CASE ForwardAdd(f) \/ ForwardRemove(f) \/ ForwardContraindicated(f) \/ ForwardEnd(f)
  BY <1>1, <1>4, <1>5, <1>6, <1>8
     DEF ForwardAdd, ForwardRemove, ForwardContraindicated, ForwardEnd, OnError
<1>9. CASE ForwardSelect(f) \/ ForwardLoad(f) \/ \E peer \in Peers : ForwardFailed(f, peer)
  BY <1>1, <1>9 DEF ForwardSelect, ForwardLoad, ForwardFailed
<1> QED BY <1>7, <1>8, <1>9 DEF ForwardStep

\* The background jobs keep HoldersInv: they only delete.
LEMMA BackgroundStepHolders ==
    ASSUME StoreInv, HoldersInv, BackgroundStep
    PROVE  HoldersInv'
<1>1. UNCHANGED holds
  BY DEF BackgroundStep, procVars
<1>2. ASSUME NEW b \in BundleIDs, CollectDelete(b)
      PROVE  HoldersInv'
  <2>1. stateMutex'.metadata = Null /\ UNCHANGED metadataStore
    BY <1>2 DEF CollectDelete, Locked, disk
  <2>2. CASE Live(bundles[b])
    BY <1>1, <1>2, <2>1, <2>2, SetDescriptorHolders
       DEF CollectDelete, SetDescriptor, AfterDelete, Live, StoreInv, TypeOK, BundleDescriptor
  <2>3. CASE ~Live(bundles[b])
    BY <1>1, <1>2, <2>1, <2>3, UnchangedHolders DEF CollectDelete
  <2> QED BY <2>2, <2>3
<1>3. CASE CollectStart \/ CollectEnd \/ \E b \in BundleIDs : CollectCheck(b)
  BY <1>1, <1>3, UnchangedHolders
     DEF CollectStart, CollectEnd, CollectCheck, Locked, Unlocked, disk
<1>4. CASE DeleteStep
  <2>1. /\ UNCHANGED desc
        /\ stateMutex'.metadata \in {stateMutex.metadata, Null}
        /\ stateMutex'.metadata # Null => stateMutex'.id = stateMutex.id
        /\ \A b \in BundleIDs : metadataStore'[b] \in {metadataStore[b], Null}
    BY <1>4 DEF DeleteStep, DeleteFromMap, DeleteMetadata, DeleteFile, RemoveMetadata,
         Locked, Unlocked, StoreInv, TypeOK, LockState, disk
  <2> QED BY <1>1, <2>1 DEF HoldersInv, KnownHoldersHold, AreHolders
<1>5. CASE \E b \in BundleIDs : Expire(b)
  BY <1>1, <1>5, UnchangedHolders DEF Expire, memory, disk
<1> QED BY <1>2, <1>3, <1>4, <1>5 DEF BackgroundStep, CollectStep

\* What a step other than a restart may do to the heap, as far as TriedInv and
\* ProcTypeOK go: objects stay, and a new one waits for dispatch.
HeapGrows ==
    /\ DOMAIN desc \subseteq DOMAIN desc'
    /\ \A p \in DOMAIN desc' \ DOMAIN desc :
          /\ ~desc'[p].deleted /\ ~desc'[p].shouldDelete
          /\ "DispatchPending" \in desc'[p].retentionConstraints

\* The same constraints and marks.
SameState(d, e) ==
    /\ d.retentionConstraints = e.retentionConstraints
    /\ d.deleted = e.deleted
    /\ d.shouldDelete = e.shouldDelete

\* A step that grows the heap and changes the state of no old object keeps
\* TriedInv, if forwarders stay where they are, finish or begin.
LEMMA QuietKeepsTried ==
    ASSUME ProcTypeOK, TriedInv, HeapGrows,
           \A p \in DOMAIN desc : SameState(desc'[p], desc[p]),
           tried' = tried,
           \A f \in Forwarders : fwd'[f] = fwd[f] \/ fwd'[f].pc \in {"done", "add"}
    PROVE  TriedInv'
<1>1. \A p \in DOMAIN desc' \ tried' :
        /\ ~desc'[p].deleted /\ ~desc'[p].shouldDelete
        /\ \/ "DispatchPending" \in desc'[p].retentionConstraints
           \/ "ForwardPending" \in desc'[p].retentionConstraints
  BY DEF TriedInv, HeapGrows, SameState
<1>2. ASSUME NEW f \in Forwarders
      PROVE  /\ fwd'[f].pc \in {"remove", "select"} =>
                   \/ fwd'[f].p \in tried'
                   \/ "ForwardPending" \in desc'[fwd'[f].p].retentionConstraints
             /\ fwd'[f].pc \in {"contraindicated", "load", "send"} => fwd'[f].p \in tried'
  BY <1>2 DEF TriedInv, ProcTypeOK, SameState
<1> QED BY <1>1, <1>2 DEF TriedInv

\* A step that only replaces the metadata of one object is quiet.
LEMMA AddKnownHolderQuiet ==
    ASSUME StoreInv, NEW p \in DOMAIN desc, NEW peer, AddKnownHolder(p, peer)
    PROVE  HeapGrows /\ \A q \in DOMAIN desc : SameState(desc'[q], desc[q])
<1>1. desc[p] \in BundleDescriptor /\ desc \in [DOMAIN desc -> BundleDescriptor]
  BY DEF StoreInv, TypeOK
<1> QED BY <1>1 DEF AddKnownHolder, HeapGrows, SameState, BundleDescriptor

\* A reception keeps TriedInv.
LEMMA ReceiveStepTried ==
    ASSUME StoreInv, ProcTypeOK, TriedInv, NEW r \in Receivers, ReceiveStep(r)
    PROVE  HeapGrows /\ TriedInv'
<1>1. ASSUME UNCHANGED desc
      PROVE  HeapGrows /\ \A p \in DOMAIN desc : SameState(desc'[p], desc[p])
  BY <1>1 DEF HeapGrows, SameState
<1>2. ASSUME NEW b \in BundleIDs, NEW from \in Peers \cup {Null},
             ReceiveKnown(r, b, from) \/ ReceiveNew(r, b, from)
      PROVE  HeapGrows /\ TriedInv'
  <2>1. HeapGrows /\ \A p \in DOMAIN desc : SameState(desc'[p], desc[p])
    BY <1>1, <1>2, AddKnownHolderQuiet DEF ReceiveKnown, ReceiveNew, InsertKnownBundle,
         InsertMetadata, StoreInv, TypeOK, vars, memory
  <2> QED BY <1>2, <2>1, QuietKeepsTried DEF ReceiveKnown, ReceiveNew
<1>3. ASSUME ReceiveCreate(r)
      PROVE  HeapGrows /\ TriedInv'
  BY <1>1, <1>3, QuietKeepsTried DEF ReceiveCreate, CreateFile
<1>4. ASSUME ReceiveWrite(r)
      PROVE  HeapGrows /\ TriedInv'
  <2>1. PICK p \in Pointer : WriteFile(p)
    BY <1>4 DEF ReceiveWrite
  <2>2. HeapGrows /\ \A q \in DOMAIN desc : SameState(desc'[q], desc[q])
    BY <1>1, <2>1 DEF WriteFile, NewObject, HeapGrows, SameState, NewBundleDescriptor
  <2> QED BY <1>4, <2>2, QuietKeepsTried DEF ReceiveWrite
<1>5. ASSUME NEW f \in Forwarders, ReceiveForward(r, f)
      PROVE  HeapGrows /\ TriedInv'
  <2>1. \A g \in Forwarders : fwd'[g] = fwd[g] \/ fwd'[g].pc \in {"done", "add"}
    <3>1. fwd \in [Forwarders -> FwdState]
      BY DEF ProcTypeOK
    <3>2. UNCHANGED fwd \/ \E p : fwd' = [fwd EXCEPT ![f] = [pc |-> "add", p |-> p, peers |-> {}]]
      BY <1>5 DEF ReceiveForward, Spawn
    <3> QED BY ONLY <3>1, <3>2
  <2> QED BY <1>1, <1>5, <2>1, QuietKeepsTried DEF ReceiveForward, vars, memory
<1> QED BY <1>2, <1>3, <1>4, <1>5 DEF ReceiveStep

\* The background jobs keep TriedInv: what is untried has a constraint.
LEMMA BackgroundStepTried ==
    ASSUME StoreInv, ProcTypeOK, TriedInv, BackgroundStep
    PROVE  HeapGrows /\ TriedInv'
<1>1. ASSUME UNCHANGED desc
      PROVE  HeapGrows /\ TriedInv'
  BY <1>1, QuietKeepsTried DEF HeapGrows, SameState, BackgroundStep, procVars
<1>2. ASSUME NEW b \in BundleIDs, CollectDelete(b), Live(bundles[b])
      PROVE  HeapGrows /\ TriedInv'
  <2> DEFINE p == bundles[b]
             d == AfterDelete(desc[p], FALSE)
  <2>1. p \in DOMAIN desc /\ desc[p] \in BundleDescriptor /\ desc' = [desc EXCEPT ![p] = d]
    BY <1>2 DEF CollectDelete, SetDescriptor, Live, StoreInv, TypeOK
  <2>2. /\ p \notin tried => SameState(d, desc[p])
        /\ d.retentionConstraints = desc[p].retentionConstraints
    BY <2>1 DEF AfterDelete, SameState, BundleDescriptor, TriedInv
  <2> HIDE DEF d
  <2>3. /\ DOMAIN desc' = DOMAIN desc /\ desc'[p] = d
        /\ \A q \in DOMAIN desc : q # p => desc'[q] = desc[q]
    BY <2>1
  <2>4. UNCHANGED <<fwd, tried>>
    BY DEF BackgroundStep, procVars
  <2>5. ASSUME NEW q \in DOMAIN desc
        PROVE  /\ desc'[q].retentionConstraints = desc[q].retentionConstraints
               /\ q \notin tried => SameState(desc'[q], desc[q])
    BY <2>2, <2>3 DEF SameState
  <2>6. HeapGrows
    BY <2>3 DEF HeapGrows
  <2>7. \A q \in DOMAIN desc' \ tried' :
          /\ ~desc'[q].deleted /\ ~desc'[q].shouldDelete
          /\ \/ "DispatchPending" \in desc'[q].retentionConstraints
             \/ "ForwardPending" \in desc'[q].retentionConstraints
    BY <2>3, <2>4, <2>5 DEF TriedInv, SameState
  <2>8. \A f \in Forwarders :
          /\ fwd'[f].pc \in {"remove", "select"} =>
                \/ fwd'[f].p \in tried'
                \/ "ForwardPending" \in desc'[fwd'[f].p].retentionConstraints
          /\ fwd'[f].pc \in {"contraindicated", "load", "send"} => fwd'[f].p \in tried'
    BY <2>4, <2>5 DEF TriedInv, ProcTypeOK
  <2> QED BY <2>6, <2>7, <2>8 DEF TriedInv
<1> QED
  BY <1>1, <1>2 DEF BackgroundStep, CollectStep, CollectStart, CollectCheck, CollectDelete,
     CollectEnd, DeleteStep, DeleteFromMap, DeleteMetadata, DeleteFile, Expire, memory

\* What TriedInv says of one forwarder, after the step.
ForwarderTried(f) ==
    /\ fwd[f].pc \in {"remove", "select"} =>
          \/ fwd[f].p \in tried
          \/ "ForwardPending" \in desc[fwd[f].p].retentionConstraints
    /\ fwd[f].pc \in {"contraindicated", "load", "send"} => fwd[f].p \in tried

\* A step of forwarder f that changes the state of no object but p.
LEMMA OneChangeKeepsTried ==
    ASSUME ProcTypeOK, TriedInv, NEW f \in Forwarders, NEW p \in DOMAIN desc,
           DOMAIN desc' = DOMAIN desc,
           \A q \in DOMAIN desc : q # p => desc'[q] = desc[q],
           tried \subseteq tried',
           \/ p \in tried'
           \/ /\ ~desc'[p].deleted /\ ~desc'[p].shouldDelete
              /\ \/ "DispatchPending" \in desc'[p].retentionConstraints
                 \/ "ForwardPending" \in desc'[p].retentionConstraints
              /\ "ForwardPending" \in desc[p].retentionConstraints =>
                    "ForwardPending" \in desc'[p].retentionConstraints,
           \A g \in Forwarders : g # f => fwd'[g] = fwd[g],
           ForwarderTried(f)'
    PROVE  HeapGrows /\ TriedInv'
<1>1. HeapGrows
  BY DEF HeapGrows
<1>2. \A q \in DOMAIN desc' \ tried' :
        /\ ~desc'[q].deleted /\ ~desc'[q].shouldDelete
        /\ \/ "DispatchPending" \in desc'[q].retentionConstraints
           \/ "ForwardPending" \in desc'[q].retentionConstraints
  BY DEF TriedInv
<1>3. ASSUME NEW g \in Forwarders
      PROVE  ForwarderTried(g)'
  <2>1. CASE g = f
    BY <2>1
  <2>2. CASE g # f
    <3>1. fwd'[g] = fwd[g] /\ (fwd[g].pc # "done" => fwd[g].p \in DOMAIN desc)
      BY <2>2 DEF ProcTypeOK
    <3>2. ForwarderTried(g)
      BY DEF TriedInv, ForwarderTried
    <3> QED BY <3>1, <3>2 DEF ForwarderTried
  <2> QED BY <2>1, <2>2
<1> QED BY <1>1, <1>2, <1>3 DEF TriedInv, ForwarderTried

\* A forwarder keeps TriedInv: it takes "DispatchPending" away only behind its
\* "ForwardPending", and that only after it has chosen peers.
LEMMA ForwardStepTried ==
    ASSUME StoreInv, ProcTypeOK, TriedInv, NEW f \in Forwarders, ForwardStep(f)
    PROVE  HeapGrows /\ TriedInv'
<1> DEFINE p == fwd[f].p
<1>0. /\ fwd[f].pc # "done" => p \in DOMAIN desc
      /\ fwd \in [Forwarders -> FwdState] /\ fwd[f] \in FwdState
      /\ ForwarderTried(f)
      /\ \A q \in DOMAIN desc : desc[q] \in BundleDescriptor
  BY DEF ProcTypeOK, TriedInv, ForwarderTried, StoreInv, TypeOK
<1>1. ASSUME p \in DOMAIN desc, Exit(f), UNCHANGED <<desc, tried>>
      PROVE  HeapGrows /\ TriedInv'
  <2>1. \A g \in Forwarders : fwd'[g] = fwd[g] \/ fwd'[g].pc \in {"done", "add"}
    BY <1>0, <1>1 DEF Exit, Done
  <2> QED BY <1>1, <2>1, QuietKeepsTried DEF HeapGrows, SameState
<1>2. CASE ForwardAdd(f)
  <2>1. CASE OnError(p, f)
    BY <1>0, <1>1, <1>2, <2>1 DEF ForwardAdd, OnError, vars, memory
  <2>2. CASE AddConstraint(p, "ForwardPending") /\ Goto(f, "remove")
    <3>1. p \in DOMAIN desc /\ desc' = [desc EXCEPT ![p] = WithConstraint(desc[p], "ForwardPending")]
      BY <2>2 DEF AddConstraint, SetDescriptor, Live
    <3>2. /\ "ForwardPending" \in desc'[p].retentionConstraints
          /\ desc'[p].deleted = desc[p].deleted
          /\ desc'[p].shouldDelete = desc[p].shouldDelete
      BY <1>0, <3>1 DEF WithConstraint, BundleDescriptor
    <3>3. /\ fwd'[f].p = p /\ fwd'[f].pc = "remove" /\ tried' = tried
          /\ \A g \in Forwarders : g # f => fwd'[g] = fwd[g]
      BY <1>0, <1>2, <2>2 DEF Goto, FwdState, ForwardAdd
    <3>4. ForwarderTried(f)'
      BY <3>2, <3>3 DEF ForwarderTried
    <3>5. p \notin tried => ~desc[p].deleted /\ ~desc[p].shouldDelete
      BY <3>1 DEF TriedInv
    <3> HIDE DEF p
    <3> QED BY <3>1, <3>2, <3>3, <3>4, <3>5, OneChangeKeepsTried
  <2> QED BY <1>2, <2>1, <2>2 DEF ForwardAdd
<1>3. CASE ForwardRemove(f)
  <2>1. CASE OnError(p, f)
    BY <1>0, <1>1, <1>3, <2>1 DEF ForwardRemove, OnError, vars, memory
  <2>2. CASE RemoveConstraint(p, "DispatchPending") /\ Goto(f, "select")
    <3>1. p \in DOMAIN desc
          /\ desc' = [desc EXCEPT ![p] = WithoutConstraint(desc[p], "DispatchPending")]
      BY <2>2 DEF RemoveConstraint, SetDescriptor, Live
    <3>2. /\ desc'[p].retentionConstraints = desc[p].retentionConstraints \ {"DispatchPending"}
          /\ desc'[p].deleted => desc[p].shouldDelete
          /\ desc'[p].shouldDelete = desc[p].shouldDelete
      BY <1>0, <3>1 DEF WithoutConstraint, BundleDescriptor
    <3>3. /\ fwd'[f].p = p /\ fwd'[f].pc = "select" /\ tried' = tried
          /\ \A g \in Forwarders : g # f => fwd'[g] = fwd[g]
      BY <1>0, <1>3, <2>2 DEF Goto, FwdState, ForwardRemove
    <3>4. p \in tried \/ "ForwardPending" \in desc[p].retentionConstraints
      BY <1>0, <1>3 DEF ForwarderTried, ForwardRemove
    <3>5. ForwarderTried(f)'
      BY <3>2, <3>3, <3>4 DEF ForwarderTried
    <3>6. p \notin tried => ~desc[p].shouldDelete
      BY <3>1 DEF TriedInv
    <3> HIDE DEF p
    <3> QED BY <3>1, <3>2, <3>3, <3>4, <3>5, <3>6, OneChangeKeepsTried
  <2> QED BY <1>3, <2>1, <2>2 DEF ForwardRemove
<1>4. ASSUME p \in DOMAIN desc, p \in tried', tried \subseteq tried',
             DOMAIN desc' = DOMAIN desc,
             \A q \in DOMAIN desc : q # p => desc'[q] = desc[q],
             \A g \in Forwarders : g # f => fwd'[g] = fwd[g],
             fwd'[f].p = p \/ fwd'[f].pc = "done"
      PROVE  HeapGrows /\ TriedInv'
  <2>1. ForwarderTried(f)'
    BY <1>4 DEF ForwarderTried
  <2> HIDE DEF p
  <2> QED BY <1>4, <2>1, OneChangeKeepsTried
<1>5. CASE ForwardSelect(f)
  BY <1>0, <1>4, <1>5 DEF ForwardSelect, FwdState, vars, memory
<1>6. CASE ForwardContraindicated(f) \/ ForwardEnd(f)
  <2>1. p \in DOMAIN desc /\ p \in tried /\ tried' = tried
    BY <1>0, <1>6 DEF ForwardContraindicated, ForwardEnd, ForwarderTried
  <2>2. /\ fwd'[f].pc = "done"
        /\ \A g \in Forwarders : g # f => fwd'[g] = fwd[g]
    <3>1. Exit(f)
      BY <1>6 DEF ForwardContraindicated, ForwardEnd, OnError
    <3> QED BY <1>0, <3>1 DEF Exit, Done
  <2>3. /\ DOMAIN desc' = DOMAIN desc
        /\ \A q \in DOMAIN desc : q # p => desc'[q] = desc[q]
    BY <1>6 DEF ForwardContraindicated, ForwardEnd, OnError, ResetConstraints,
         RemoveConstraint, SetDescriptor, vars, memory
  <2> QED BY <1>4, <2>1, <2>2, <2>3
<1>7. CASE ForwardLoad(f)
  BY <1>0, <1>4, <1>7 DEF ForwardLoad, ForwarderTried, Goto, Exit, Done, FwdState, vars, memory
<1>8. ASSUME NEW peer \in Peers, ForwardSent(f, peer) \/ ForwardFailed(f, peer)
      PROVE  HeapGrows /\ TriedInv'
  <2>1. p \in DOMAIN desc /\ p \in tried /\ tried' = tried
    BY <1>0, <1>8 DEF ForwardSent, ForwardFailed, ForwarderTried
  <2>2. /\ fwd'[f].p = p
        /\ \A g \in Forwarders : g # f => fwd'[g] = fwd[g]
    BY <1>0, <1>8 DEF ForwardSent, ForwardFailed, FwdState
  <2>3. /\ DOMAIN desc' = DOMAIN desc
        /\ \A q \in DOMAIN desc : q # p => desc'[q] = desc[q]
    BY <1>8 DEF ForwardSent, ForwardFailed, AddKnownHolder, vars, memory
  <2> QED BY <1>4, <2>1, <2>2, <2>3
<1> QED BY <1>2, <1>3, <1>5, <1>6, <1>7, <1>8 DEF ForwardStep

\* Receptions and forwarders keep their types: they hold pointers they were given.
LEMMA ReceiveStepTyped ==
    ASSUME StoreInv, StoreInv', ProcTypeOK, HeapGrows, NEW r \in Receivers, ReceiveStep(r)
    PROVE  ProcTypeOK'
<1> USE DEF RecvState, FwdState
<1>1. ASSUME NEW b \in BundleIDs, NEW from \in Peers \cup {Null},
             ReceiveKnown(r, b, from) \/ ReceiveNew(r, b, from)
      PROVE  ProcTypeOK'
  <2>1. bundles[b] # Null => bundles[b] \in Pointer /\ bundles[b] \in DOMAIN desc
    BY DEF StoreInv, TypeOK
  <2>2. PICK s \in RecvState : /\ recv' = [recv EXCEPT ![r] = s]
                               /\ s.pc = "check" => s.p \in DOMAIN desc
    <3> DEFINE known == [pc |-> "check", id |-> b, p |-> bundles[b]]
               new == [pc |-> "insert", id |-> b, p |-> Null]
    <3>1. ReceiveKnown(r, b, from) => bundles[b] # Null /\ recv' = [recv EXCEPT ![r] = known]
      BY DEF ReceiveKnown
    <3>2. ReceiveNew(r, b, from) => recv' = [recv EXCEPT ![r] = new]
      BY DEF ReceiveNew
    <3>3. bundles[b] # Null => known \in RecvState /\ known.p \in DOMAIN desc
      BY <2>1
    <3>4. new \in RecvState /\ new.pc # "check"
      OBVIOUS
    <3> HIDE DEF known, new
    <3> QED BY <1>1, <3>1, <3>2, <3>3, <3>4
  <2>3. UNCHANGED <<fwd, senders, tried>> /\ holds' = holds \cup {<<b, from>>}
    BY <1>1 DEF ReceiveKnown, ReceiveNew
  <2> HIDE DEF RecvState, FwdState
  <2>4. /\ recv' \in [Receivers -> RecvState]
        /\ \A q \in Receivers : recv'[q].pc = "check" => recv'[q].p \in DOMAIN desc
    BY <2>2 DEF ProcTypeOK
  <2>5. holds' \subseteq BundleIDs \X (Peers \cup {Null})
    <3>1. holds \subseteq BundleIDs \X (Peers \cup {Null})
      BY DEF ProcTypeOK
    <3>2. <<b, from>> \in BundleIDs \X (Peers \cup {Null})
      OBVIOUS
    <3> QED BY ONLY <2>3, <3>1, <3>2
  <2> QED BY <2>3, <2>4, <2>5 DEF ProcTypeOK, HeapGrows
<1>2. ASSUME ReceiveCreate(r)
      PROVE  ProcTypeOK'
  BY <1>2 DEF ReceiveCreate, ProcTypeOK, HeapGrows, Ready
<1>3. ASSUME ReceiveWrite(r)
      PROVE  ProcTypeOK'
  <2>1. PICK p \in Pointer :
           recv' = [recv EXCEPT ![r] = IF p \in DOMAIN desc' \ DOMAIN desc
                                       THEN [pc |-> "check", id |-> p[1], p |-> p]
                                       ELSE Ready]
    BY <1>3 DEF ReceiveWrite
  <2>2. p[1] \in BundleIDs
    BY DEF Pointer
  <2> QED BY <1>3, <2>1, <2>2 DEF ReceiveWrite, ProcTypeOK, HeapGrows, Ready
<1>4. ASSUME NEW f \in Forwarders, ReceiveForward(r, f)
      PROVE  ProcTypeOK'
  <2>1. recv' = [recv EXCEPT ![r] = Ready] /\ Ready \in RecvState /\ Ready.pc = "ready"
    BY <1>4 DEF ReceiveForward, Ready
  <2>2. recv[r].p \in Pointer \cup {Null} /\ recv[r].p \in DOMAIN desc
    BY <1>4 DEF ReceiveForward, ProcTypeOK
  <2>3. PICK s \in FwdState : /\ fwd' = [fwd EXCEPT ![f] = s] \/ fwd' = fwd
                              /\ s.p \in DOMAIN desc
    <3> DEFINE s == [pc |-> "add", p |-> recv[r].p, peers |-> {}]
    <3>1. s \in FwdState /\ s.p \in DOMAIN desc
      BY <2>2
    <3>2. fwd' = [fwd EXCEPT ![f] = s] \/ fwd' = fwd
      BY <1>4 DEF ReceiveForward, Spawn
    <3> HIDE DEF s
    <3> QED BY <3>1, <3>2
  <2>4. UNCHANGED <<senders, holds, tried>>
    BY <1>4 DEF ReceiveForward
  <2> HIDE DEF RecvState, FwdState
  <2>5. /\ recv' \in [Receivers -> RecvState]
        /\ \A q \in Receivers : recv'[q].pc = "check" => recv'[q].p \in DOMAIN desc
    BY <2>1 DEF ProcTypeOK
  <2>6. /\ fwd' \in [Forwarders -> FwdState]
        /\ \A g \in Forwarders : fwd'[g].pc # "done" => fwd'[g].p \in DOMAIN desc
    BY <2>3 DEF ProcTypeOK
  <2> QED BY <2>4, <2>5, <2>6 DEF ProcTypeOK, HeapGrows
<1> QED BY <1>1, <1>2, <1>3, <1>4 DEF ReceiveStep

LEMMA ForwardStepTyped ==
    ASSUME StoreInv, ProcTypeOK, HeapGrows, NEW f \in Forwarders, ForwardStep(f)
    PROVE  ProcTypeOK'
<1> USE DEF FwdState
<1>1. CASE ForwardAdd(f) \/ ForwardRemove(f) \/ ForwardContraindicated(f) \/ ForwardEnd(f)
           \/ ForwardLoad(f)
  <2>1. /\ fwd' \in [Forwarders -> FwdState]
        /\ \A g \in Forwarders : fwd'[g].pc # "done" => fwd[g].pc # "done" /\ fwd'[g].p = fwd[g].p
    BY <1>1 DEF ForwardAdd, ForwardRemove, ForwardContraindicated, ForwardEnd, ForwardLoad,
         OnError, Goto, Exit, Done, ProcTypeOK
  <2>2. UNCHANGED <<recv, senders, holds, tried>>
    BY <1>1 DEF ForwardAdd, ForwardRemove, ForwardContraindicated, ForwardEnd, ForwardLoad
  <2> QED BY <2>1, <2>2 DEF ProcTypeOK, HeapGrows
<1>2. CASE ForwardSelect(f)
  <2>1. SelectPeersForForwarding(fwd[f].p) \subseteq Peers
    BY DEF SelectPeersForForwarding, FilterPeers, ProcTypeOK
  <2>2. PICK peers \in SUBSET Peers, pc \in {"contraindicated", "load"} :
           fwd' = [fwd EXCEPT ![f].pc = pc, ![f].peers = peers]
    BY <1>2, <2>1 DEF ForwardSelect
  <2>3. /\ fwd' \in [Forwarders -> FwdState]
        /\ \A g \in Forwarders : fwd'[g].p = fwd[g].p
        /\ \A g \in Forwarders : fwd'[g].pc # "done" => g = f \/ fwd[g].pc # "done"
    <3>1. fwd \in [Forwarders -> FwdState] /\ f \in Forwarders
      BY DEF ProcTypeOK
    <3> QED BY ONLY <2>2, <3>1 DEF FwdState
  <2>4. fwd[f].p \in DOMAIN desc
    BY <1>2 DEF ForwardSelect, ProcTypeOK
  <2>5. \A g \in Forwarders : fwd'[g].pc # "done" => fwd'[g].p \in DOMAIN desc'
    BY <2>3, <2>4 DEF ProcTypeOK, HeapGrows
  <2>6. tried' = tried \cup {fwd[f].p} /\ UNCHANGED <<recv, senders, holds>>
    BY <1>2 DEF ForwardSelect
  <2> QED BY <2>3, <2>4, <2>5, <2>6 DEF ProcTypeOK, HeapGrows
<1>3. ASSUME NEW peer \in Peers, ForwardSent(f, peer) \/ ForwardFailed(f, peer)
      PROVE  ProcTypeOK'
  <2>1. fwd[f].p[1] \in BundleIDs
    BY <1>3 DEF ForwardSent, ForwardFailed, ProcTypeOK, StoreInv, TypeOK, Pointer
  <2> QED BY <1>3, <2>1 DEF ForwardSent, ForwardFailed, ProcTypeOK, HeapGrows
<1> QED BY <1>1, <1>2, <1>3 DEF ForwardStep

\* A restart ends all goroutines and reads from disk what was written there.
LEMMA DaemonRestartKeeps ==
    ASSUME StoreInv, ProcInv, DaemonRestart
    PROVE  (ProcTypeOK /\ HoldersInv /\ TriedInv)'
<1>1. ProcTypeOK'
  <2>1. Ready \in RecvState /\ Ready.pc = "ready" /\ Done \in FwdState /\ Done.pc = "done"
    BY DEF RecvState, FwdState, Ready, Done
  <2> QED BY <2>1 DEF DaemonRestart, ProcTypeOK, ProcInv
<1>2. TriedInv'
  BY DEF DaemonRestart, Restart, TriedInv, Done, NewBundleDescriptor
<1>3. HoldersInv'
  <2>1. stateMutex'.metadata = Null /\ UNCHANGED <<metadataStore, holds>>
    BY DEF DaemonRestart, Restart, Unlocked, disk
  <2>2. ASSUME NEW p \in DOMAIN desc'
        PROVE  /\ p[1] \in BundleIDs /\ metadataStore[p[1]] # Null
               /\ desc'[p].metadata = metadataStore[p[1]]
    BY DEF DaemonRestart, Restart, NewBundleDescriptor
  <2> QED BY <2>1, <2>2 DEF ProcInv, HoldersInv, KnownHoldersHold, AreHolders
<1> QED BY <1>1, <1>2, <1>3

\* The invariant is inductive.
LEMMA ProcNextKeeps ==
    ASSUME ProcInv, [ProcNext]_allVars
    PROVE  ProcInv'
<1>0. StoreInv /\ StoreInv' /\ ProcTypeOK /\ HoldersInv /\ TriedInv
  BY ProcStepUsesStore, NextKeeps DEF ProcInv
<1>1. ASSUME NEW r \in Receivers, ReceiveStep(r)
      PROVE  ProcInv'
  BY <1>0, <1>1, ReceiveStepTried, ReceiveStepTyped, ReceiveStepHolders DEF ProcInv
<1>2. ASSUME NEW f \in Forwarders, ForwardStep(f)
      PROVE  ProcInv'
  BY <1>0, <1>2, ForwardStepTried, ForwardStepTyped, ForwardStepHolders DEF ProcInv
<1>3. ASSUME NEW f \in Forwarders, NEW b \in BundleIDs, DispatchPending(b, f)
      PROVE  ProcInv'
  <2>1. /\ bundles[b] \in Pointer /\ bundles[b] \in DOMAIN desc
        /\ fwd' = [fwd EXCEPT ![f] = [pc |-> "add", p |-> bundles[b], peers |-> {}]]
        /\ UNCHANGED <<desc, metadataStore, stateMutex, recv, senders, holds, tried>>
    BY <1>0, <1>3 DEF DispatchPending, GetDispatchable, Spawn, StoreInv, TypeOK, vars, memory, disk
  <2>2. ProcTypeOK'
    BY <1>0, <2>1 DEF ProcTypeOK, FwdState
  <2>3. \A g \in Forwarders : fwd'[g] = fwd[g] \/ fwd'[g].pc \in {"done", "add"}
    BY <1>0, <2>1 DEF ProcTypeOK
  <2>4. HeapGrows /\ \A p \in DOMAIN desc : SameState(desc'[p], desc[p])
    BY <2>1 DEF HeapGrows, SameState
  <2> QED BY <1>0, <2>1, <2>2, <2>3, <2>4, QuietKeepsTried, UnchangedHolders DEF ProcInv
<1>4. ASSUME UNCHANGED <<vars, recv, fwd, holds, tried>>, senders' \subseteq Peers
      PROVE  ProcInv'
  BY <1>0, <1>4 DEF ProcInv, ProcTypeOK, HoldersInv, KnownHoldersHold, AreHolders, TriedInv,
     vars, memory, disk
<1>5. ASSUME NEW peer \in Peers, PeerAppears(peer) \/ PeerDisappears(peer)
      PROVE  ProcInv'
  BY <1>0, <1>4, <1>5 DEF PeerAppears, PeerDisappears, ProcTypeOK
<1>6. CASE BackgroundStep
  <2>1. HeapGrows /\ TriedInv' /\ HoldersInv'
    BY <1>0, <1>6, BackgroundStepTried, BackgroundStepHolders
  <2>2. ProcTypeOK'
    BY <1>0, <1>6, <2>1 DEF BackgroundStep, procVars, ProcTypeOK, HeapGrows
  <2> QED BY <1>0, <2>1, <2>2 DEF ProcInv
<1>7. CASE DaemonRestart
  BY <1>0, <1>7, DaemonRestartKeeps DEF ProcInv
<1>8. CASE UNCHANGED allVars
  BY <1>0, <1>4, <1>8 DEF allVars, procVars, ProcTypeOK
<1> QED BY <1>1, <1>2, <1>3, <1>5, <1>6, <1>7, <1>8 DEF ProcNext

\* All of it holds in every state of the daemon.
THEOREM ProcInvariance == ProcSpec => []ProcInv
<1>1. ProcInit => ProcInv
  <2> SUFFICES ASSUME ProcInit PROVE ProcInv
    OBVIOUS
  <2>1. StoreInv
    BY InitEstablishes DEF ProcInit
  <2>2. Ready \in RecvState /\ Ready.pc = "ready" /\ Done \in FwdState /\ Done.pc = "done"
    BY DEF RecvState, FwdState, Ready, Done
  <2>3. ProcTypeOK
    BY <2>2 DEF ProcInit, Init, ProcTypeOK
  <2>4. HoldersInv /\ TriedInv
    BY <2>2 DEF ProcInit, Init, HoldersInv, TriedInv, KnownHoldersHold, Unlocked
  <2> QED BY <2>1, <2>3, <2>4 DEF ProcInv
<1>2. ProcInv /\ [ProcNext]_allVars => ProcInv'
  BY ProcNextKeeps
<1> QED BY <1>1, <1>2, PTL DEF ProcSpec

\* Nobody is a known holder of a bundle, in memory or on disk, who neither sent
\* nor received it (KnownHoldersHold), for any number of bundles, peers and
\* goroutines.
THEOREM HoldersAreGenuine == ProcSpec => []KnownHoldersHold
<1>1. ProcInv => KnownHoldersHold
  BY DEF ProcInv, HoldersInv
<1> QED BY <1>1, ProcInvariance, PTL

\* No bundle is collected before a forwardingAsync has chosen peers for it
\* (TriedBeforeDeleted), for any number of bundles, peers and goroutines.
THEOREM NothingIsDeletedUntried == ProcSpec => []TriedBeforeDeleted
<1>1. ProcInv => TriedBeforeDeleted
  BY DEF ProcInv, TriedInv, TriedBeforeDeleted
<1> QED BY <1>1, ProcInvariance, PTL
=============================================================================
