CONSTANTS
    N = 2
    groupid <- MCflat
    parentid <- MCflat
    Value = {v1, v2}
    None = None
    Iid = {1, 2}
    MaxBallot = 3
    Active = {0}
    Learners = {0, 1}
    MaxProposers = 3
    preexec_window = 1
    Submitting <- MCall
    Checkpoints = {1}
    Unreliable = {}
SPECIFICATION FairSpec
INVARIANT DeliveredWasChosen
PROPERTIES
    ImplementsBroadcast
    EveryValueDelivered
VIEW MCview
