CONSTANTS
    N = 2
    groupid <- MCflat
    parentid <- MCflat
    Value = {1, 2}
    None = None
    Iid = {1}
    MaxBallot = 3
    Active = {0, 1}
    Learners = {}
    MaxProposers = 2
    preexec_window = 1
    Submitting <- MCeach
    Checkpoints = {}
SPECIFICATION SystemSpec
INVARIANT QuorumIsBound
VIEW MCview
