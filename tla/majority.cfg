CONSTANTS
    N = 3
    groupid <- MCrelaygroup
    parentid <- MCrelayparent
    Value = {v1}
    None = None
    Iid = {1}
    MaxBallot = 3
    Active = {0}
    Learners = {0, 1}
    MaxProposers = 3
    preexec_window = 1
    Submitting <- MCall
    Checkpoints = {1}
    Unreliable <- MCtolast
SPECIFICATION FairSpec
INVARIANT DeliveredWasChosen
PROPERTY EveryValueDelivered
VIEW MCview
