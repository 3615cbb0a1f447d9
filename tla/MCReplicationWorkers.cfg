SPECIFICATION FairWorkersSpec
CONSTANTS
    p1 = p1
    p2 = p2
    k1 = k1
    k2 = k2
    None = None
    Keys <- MCKeys
    Peers <- MCPeers
    Distance <- MCDistance
    Sources <- MCSources
    MAX_PENDING_VERIFY = 2
    MAX_PENDING_VERIFY_PER_PEER = 1
    MAX_FETCH_QUEUE = 1
    MaxParallelFetch = 2
INVARIANTS
    StagesDisjoint
    FetchIndexExact
    SenderCountsExact
    CapacityRespected
    FetchesMatchInFlight
    BatchStillPending
PROPERTIES
    NoSourceTriedTwice
    LifecycleImplemented
    QueuesUsedAsSpecified
    PendingLeaves
    InFlightLeaves
