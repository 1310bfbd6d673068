CONSTANTS
    b1 = b1
    n0 = n0
    n1 = n1
    Null = Null
    BundleIDs <- OneBundle
    EndpointIDs <- TwoNodes
    NodeID = n0
    MiscValues <- OneCopy
    MaxObjects = 2
SPECIFICATION FairSpec
INVARIANTS
    FlagsMatchConstraints
    DeletionHitsItsTarget
    AcceptedIsDurable
PROPERTIES
    ConstrainedIsNotDeleted
    ImplementsAbstractStore
    DeletedIsForgotten
