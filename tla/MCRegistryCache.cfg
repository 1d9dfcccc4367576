CONSTANTS
    d1 = d1
    d2 = d2
    t1 = t1
    t2 = t2
    u1 = u1
    k1 = k1
    Daemons = {d1, d2}
    Threads = {t1, t2, u1}
    DaemonOf <- OwnDaemon
    Keys = {k1}
    Batch = 2
    MaxWrites = 2
    MaxTime = 1
    None = None
SPECIFICATION MCSpec
INVARIANTS NoWriteForgotten ClearSticks
