SPECIFICATION MCSpec
SYMMETRY Symmetry
CONSTANTS
    k1 = k1
    Thread = {t1, t2}
    Key = {k1, k2}
    EntryId = {e1, e2, e3}
    FlushBatch = 1
    MaxPending = 1
    MaxClears = 1
    Nil = Nil
INVARIANTS InsertsNeverResurrect MemorySurvivorsDoomed
