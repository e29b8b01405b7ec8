SPECIFICATION AcceptorSpec
CONSTANTS
    N = 2
    groupid <- MCflat
    parentid <- MCflat
    Value = {v1}
    None = None
    Iid = {1}
    MaxBallot = 2
    Active = {0}
INVARIANTS
    AcceptorTypeOK
    TrimmedStayGone
    AnswersBind
    StoredWasAnnounced
PROPERTY NoVoteBelowPromise
