SPECIFICATION FairSpec
CONSTANTS
    p1 = p1
    p2 = p2
    k1 = k1
    None = None
    Keys <- MCKeys
    Peers <- MCPeers
    SyncTasks = {"request"}
INVARIANTS
    FlagFollowsDrain
PROPERTIES
    DrainCompletes
    BootstrapEnds
