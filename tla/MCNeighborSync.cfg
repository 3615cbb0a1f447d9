SPECIFICATION FairSpec
CONSTANTS
    p1 = p1
    p2 = p2
    p3 = p3
    None = None
    ByDistance <- MCThreePeers
    NEIGHBOR_SYNC_PEER_COUNT = 2
    MaxEvents = 1
    MaxChurn = 2
INVARIANTS
    TypeOK
    NobodySkipped
    NobodyScannedTwice
PROPERTIES
    CycleCompletes
    EveryPeerReached
