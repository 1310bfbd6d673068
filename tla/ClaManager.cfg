CONSTANTS
    m1 = m1
    q1 = q1
    MTCP <- MtcpPeer
    QUICL <- QuiclPeer
    Accepted <- QuiclPeer
    MaxObjects = 2
SPECIFICATION ManagerFairSpec
CONSTRAINT OnePeer
INVARIANTS
    PendingIsActivating
    ConnectedIsListed
PROPERTIES
    DisconnectIsHandled
CHECK_DEADLOCK FALSE
