SPECIFICATION Spec
CONSTANTS
    h1 = h1
    h2 = h2
    k1 = k1
    k2 = k2
    None = None
    Hashes <- MCHashes
    Keys <- MCKeys
    GOSSIP_ANSWERABILITY_TTL = 4
    MAX_RETAINED_GOSSIPED_SLOTS = 2
    AUDIT_COOLDOWN = 1
    SKEW_MARGIN = 2
    MAX_BYTE_CHALLENGE_KEYS = 1
    MaxSkew = 1
    MaxDelay = 1
    MaxAudits = 1
    MaxOffers = 2
CONSTRAINT Apart
SYMMETRY HashAndKeySymmetry
INVARIANTS
    HonestNotPenalized
    ClaimNotRepeated
PROPERTIES
    CreditFromAudit
    FreshPinKept
    FirstAuditOwed
