SPECIFICATION ProposerSpec
CONSTANTS
    N = 2
    groupid <- MCflat
    parentid <- MCflat
    Value = {v1, v2}
    None = None
    Iid = {1, 2}
    MaxBallot = 4
    Active = {0}
    MaxProposers = 2
    preexec_window = 1
    Submitting <- MCall
INVARIANTS
    ProposerTypeOK
    PhasesDisjoint
    ValueInOnePlace
    AcceptFollowsPromises
    OneValuePerBallot
SYMMETRY MCsymmetry
