CONSTANTS
    b1 = b1
    n0 = n0
    n1 = n1
    r1 = r1
    f1 = f1
    f2 = f2
    Null = Null
    BundleIDs <- OneBundle
    EndpointIDs <- OnePeer
    NodeID = n0
    MiscValues = {}
    MaxObjects = 1
    Receivers = {r1}
    Forwarders = {f1, f2}
SPECIFICATION ProcSpec
INVARIANTS
    OnePipelinePerBundle
