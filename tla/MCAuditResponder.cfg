\* Three peers with up to two slots each, and four permits: both run out.
CONSTANTS
    p1 = p1
    p2 = p2
    p3 = p3
    Peers <- MCPeers
    MAX_AUDIT_RESPONSES_PER_PEER = 2
    MAX_CONCURRENT_AUDIT_RESPONSES = 4
    MaxChallenges = 7
    SMALL_TREE_FULL_AUDIT_FLOOR = 4
    MaxKeyCount = 24
SPECIFICATION MCSpec
CHECK_DEADLOCK FALSE
INVARIANTS
    SlotsExact
    PermitsExact
    SelectionCovers
    ProofsExact
PROPERTIES
    SlotsReturned
