SPECIFICATION FairSpec
CONSTANTS
    k1 = k1
    k2 = k2
    h1 = h1
    h2 = h2
    h3 = h3
    None = None
    Keys <- MCKeys
    Hashes <- MCHashes
    GOSSIP_ANSWERABILITY_TTL = 1
    MAX_RETAINED_GOSSIPED_SLOTS = 2
    ROTATION_INTERVAL = 1
    PRUNE_HYSTERESIS = 1
INVARIANTS
    Answerable
    InWindowFits
    OwedBytesStored
PROPERTY Released
