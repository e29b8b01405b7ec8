CONSTANTS
    Message <- MCmessages
    MaxSent = 3
    NULL = NULL
    EmptyValue = EmptyValue
    v1 = v1
SPECIFICATION StreamSpec
INVARIANTS
    ReceivedAsSent
    NothingLeftUnread
