SPECIFICATION FairSpec
CONSTANTS
    k1 = k1
    k2 = k2
    k3 = k3
    s = s
    b = b
    None = None
    Keys <- MCKeys
    Values <- MCValues
    KeyLen <- MCKeyLen
    ValueLen <- MCValueLen
    Budgets <- MCBudgets
INVARIANTS TypeOK PartsAgree HoldsMostRecent EvictsJustEnough
PROPERTIES AddReturns
