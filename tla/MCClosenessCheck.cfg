\* Three callers for the pool, one retry as in the code.
CONSTANTS
    c1 = c1
    c2 = c2
    c3 = c3
    None = None
    Callers <- MCCallers
    MAX_LEADER_RETRIES = 1
SPECIFICATION Spec
CHECK_DEADLOCK FALSE
PROPERTY CallersReturn
