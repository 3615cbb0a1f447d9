\* Two peers and one key; the close group changes freely.
CONSTANTS
    p1 = p1
    p2 = p2
    k1 = k1
    Peers <- MCPeers
    Keys <- MCKeys
    None = None
    REPAIR_HINT_MIN_AGE = 1
    MaxEpoch = 1
    MaxChurn = 2
SPECIFICATION Spec
SYMMETRY MCSymmetry
CHECK_DEADLOCK FALSE
INVARIANTS
    TypeOK
    PenaltyAfterRepairTime
PROPERTY HintedSinceEntry
