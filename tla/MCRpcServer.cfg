CONSTANTS
    N = 3
SPECIFICATION FairSpec
INVARIANTS TypeOK ResponsesWhole
PROPERTIES EveryRequestAnswered ImplementsExchange
CHECK_DEADLOCK FALSE
