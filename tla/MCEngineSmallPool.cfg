CONSTANTS
    Jobs <- MCJobs
    Callers <- MCJobs
    Runners <- MCSmallRunners
    Width = 1
    StartMayFail = FALSE
    None = None
    Plans <- MCSmallPlans
    Permits = 2
    Workers = 2
    MemoLimit = 1
    Exposes <- MCExposes
    MaxBatches = 4
SPECIFICATION ESpec
PROPERTY InteractiveFindsWorkers
CHECK_DEADLOCK FALSE
