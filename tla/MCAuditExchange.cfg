\* Two nodes that sync with and audit each other.
CONSTANTS
    n1 = n1
    n2 = n2
    Nodes <- MCTwoNodes
    None = None
    AUDIT_RESPONSE_TIMEOUT = 2
    MaxInbox = 2
SPECIFICATION Spec
INVARIANT AnsweredInTime
