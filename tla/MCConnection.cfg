CONSTANTS
    d1 = d1
    d2 = d2
    Sessions <- AllSessions
    Parked <- ParkedHandlers
    MaxPush = 1
    None = None
SPECIFICATION FairSpec
INVARIANTS InvalidationsNeverCut OrderlyCloseAnswers FinishedWorkFlushed
PROPERTIES InvalidationsSettleFirst CloseEnds
CHECK_DEADLOCK FALSE
