CONSTANTS
    d1 = d1
    Reads = {1, 2, 3, 4}
    Docs = {d1}
    DocOf <- FourReads
    Tagged = {1, 2, 3}
    MaxStale = 1
    None = None
SPECIFICATION MCSpec
INVARIANTS OneCombinedBuild NewestReadAnswered
CHECK_DEADLOCK FALSE
