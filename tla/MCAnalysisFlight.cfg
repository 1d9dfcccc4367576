SPECIFICATION MCSpec
CONSTANTS
    Thread = {t1, t2, t3}
    Key = {k1, k2}
    FlightId = {1, 2, 3}
    NoFlight = NoFlight
    NoResult = NoResult
INVARIANTS OneComputePerKey NoLostWakeup
PROPERTY CallsEnd
