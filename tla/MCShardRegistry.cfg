SPECIFICATION ShardsSpec
CONSTANTS
    NShards = 2
    Leftovers <- MCLeftovers
    Threads <- MCThreads
    Plans <- MCPlans
    Roots <- MCRoots
    MaxInstalls = 1
    MaxFaults = 1
    MaxFiles = 8
    MaxCaches = 4
INVARIANTS LiveFileKept Findable
PROPERTY InvalidationReachesAll
