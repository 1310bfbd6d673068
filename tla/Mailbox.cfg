CONSTANTS
    b1 = b1
    b2 = b2
    c1 = c1
    c2 = c2
    BundleIDs <- TwoBundles
    Clients <- TwoClients
    Calls <- LosslessCalls
SPECIFICATION FairSpec
INVARIANTS
    IterationIsStable
    NothingIsLost
PROPERTIES
    DanglingIsCollected
