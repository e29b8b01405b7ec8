SPECIFICATION LearnerSpec
CONSTANTS
    N = 3
    groupid <- MCflat
    parentid <- MCflat
    Value = {v1, v2}
    None = None
    Iid = {1, 2}
    MaxBallot = 2
    Active = {0}
    Learners = {0}
INVARIANTS
    LearnerTypeOK
    DeliveredInOrder
    DeliveredByQuorum
    QuorumNoticed
    HolesNoticed
SYMMETRY MCsymmetry
