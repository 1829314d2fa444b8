SPECIFICATION SafeSpec
CONSTANTS
    p1 = p1
    p2 = p2
    t1 = t1
    t2 = t2
    t3 = t3
    cb = cb
    c1 = c1
    c2 = c2
    NONE = NONE
    CORRUPT = CORRUPT
    ABSENT = ABSENT
    DAMAGED = DAMAGED
    FileLocking = TRUE
    MaxFaults = 1
    Cookbooks = {cb}
    Versions = {1, 2}
    Contents = {c1, c2}
    Threads <- MCThreads
    Procs <- MCProcs
    ProcOf <- MCTwoProcesses
    Requests <- MCRequests
INVARIANTS
    IndexCoherent
    SuccessIsIndexed
PROPERTIES
    NoSilentOverwrite
    ImplementsCatalogSpec
