CONSTANTS
    Jobs <- MCJobs
    Callers <- MCJobs
    Runners <- MCRunners
    Width = 1
    StartMayFail = FALSE
    None = None
    Plans <- MCPlans
    Permits = 2
    Workers = 2
    MemoLimit = 1
    Exposes <- MCExposes
    MaxBatches = 4
SPECIFICATION ESpec
INVARIANT PermitLeft
PROPERTIES DrainIsMap EveryJobRuns SweepFollowsWork
CHECK_DEADLOCK FALSE
