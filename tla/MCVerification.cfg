SPECIFICATION Spec
CONSTANTS
    n1 = n1
    n2 = n2
    n3 = n3
    f1 = f1
    Nodes <- MCNodes
    Faulty <- MCFaulty
    Thresholds = {1, 2}
    MaxRounds = 1
    MaxTargets = 4
SYMMETRY HonestSymmetry
INVARIANTS
    OnlyPaidKept
    VerdictExact
