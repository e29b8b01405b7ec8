CONSTANTS
    Peer = {p1, p2}
    Conn = {c1, c2, c3}
    Connecting = Connecting
    Idle = Idle
SPECIFICATION FairConnSpec
INVARIANTS
    ConnTypeOK
    IdIsPlace
    TableExact
    PeerPursued
PROPERTY EveryoneReconnects
