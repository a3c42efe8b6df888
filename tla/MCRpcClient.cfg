CONSTANTS
    Sync = {c1}
    Async = {a1, a2}
    Capacity = 1
    None = None
SPECIFICATION FairSpec
INVARIANTS TypeOK CompletedOnce RightReply NotLost
PROPERTIES ImplementsAnswering EveryCallEnds
CHECK_DEADLOCK FALSE
