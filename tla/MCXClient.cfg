CONSTANTS
    Addresses = {a, b}
    Ops = {o1, o2}
    MaxConns = 2
    None = None
SPECIFICATION FairSpec
INVARIANTS TypeOK NoLeak BroadcastOutcome
PROPERTIES EveryOpReturns
CHECK_DEADLOCK FALSE
