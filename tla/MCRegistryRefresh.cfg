CONSTANTS
    web = web
    backend = backend
    Blocks = {1, 2, 3}
    Sources = {web, backend}
    SourceOf <- ThreeBlocks
    Targets = {t1, t2}
    NoBlock = NoBlock
SPECIFICATION MCSpec
INVARIANTS NoFabricatedFailure FetchedIsDelivered
CHECK_DEADLOCK FALSE
