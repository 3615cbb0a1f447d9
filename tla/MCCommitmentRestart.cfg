SPECIFICATION Spec
CONSTANTS
    h1 = h1
    h2 = h2
    h3 = h3
    k1 = k1
    None = None
    Hashes <- MCHashes
    Keys <- MCKeys
    GOSSIP_ANSWERABILITY_TTL = 3
    MAX_RETAINED_GOSSIPED_SLOTS = 3
    RESTART_STAMP_GRACE = 1
    PERSIST_INTERVAL = 1
    GossipCadence = 3
SYMMETRY HashSymmetry
INVARIANT AnswerableUnlessLost
