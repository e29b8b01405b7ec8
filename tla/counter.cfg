CONSTANTS
    N = 3
    groupid <- MCrelaygroup
    parentid <- MCrelayparent
    Interval = 2
    MaxLog = 5
SPECIFICATION CounterSpec
INVARIANTS
    CounterTypeOK
    CountExact
    StoppedCanResume
