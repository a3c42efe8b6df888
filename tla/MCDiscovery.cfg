CONSTANTS
    Servers = {1}
    Static = {0, 9}
    Getters = {11, 12}
    Timeout = 3
    Interval = 1
    Delay = 1
    UpdateTimeout = 2
    MaxTime = 5
SPECIFICATION FairSpec
INVARIANTS TypeOK PromptServerStays FreshChoice
PROPERTIES EveryGetEnds
CHECK_DEADLOCK FALSE
