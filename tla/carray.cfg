CONSTANTS
    Elem = {e1, e2}
    Null = Null
    Garbage = Garbage
    FirstSize = 2
    MaxCount = 6
SPECIFICATION CArraySpec
INVARIANT CArrayTypeOK
PROPERTY ImplementsQueue
