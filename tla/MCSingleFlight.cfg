SPECIFICATION FairSpec
CONSTANTS
    Callers = {c1, c2, c3}
    Keys = {k1, k2}
    Results = {v}
    NoResult = NoResult
    NoKey = NoKey
    NoFlight = NoFlight
    MayPanic = TRUE
    MaxCalls = 2
CHECK_DEADLOCK FALSE
INVARIANTS TypeOK OneInFlight SameResult
PROPERTIES ImplementsCoalesce DoReturnsUnlessPanic
