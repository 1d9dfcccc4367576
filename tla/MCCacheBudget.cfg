SPECIFICATION Spec
CONSTANTS
    Shards <- MCShards
    Keys <- MCKeys
    Late = {1}
    Disks <- MCDisks
    Plans <- MCPlans
    Budget = 7
    Low = 5
    Floor = 1
    Batch = 1
    Scan = 2
    Passes = 2
    Overhead = 1
    Preloaded = 2
    MaxRestarts = 1
INVARIANTS AccountsExact ClockAhead SparesWarm NeverWaitsForItself
PROPERTY PassEnds
