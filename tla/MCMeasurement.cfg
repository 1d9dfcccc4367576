SPECIFICATION Spec
CONSTANTS
    Scenarios <- MCScenarios
    MaxAliasConfigs = 3
    MaxModuleBytes = 4
    MaxGraphBytes = 7
    MaxModules = 6
    MaxSheetFiles = 4
    MaxSheetBytes = 6
    MaxCssReads = 8
    MaxCssBytes = 8
    Callers = {1, 2, 3}
    Permits = 1
INVARIANTS
    LedgerExact
    FailureIsFunction
    BudgetExact
    NoIdlePermit
    EntryAgrees
    MeasuredIsHonest
    NothingTransientStored
    TotalIsHonest
PROPERTIES
    RequestsEnd
CHECK_DEADLOCK FALSE
