SPECIFICATION Spec
CONSTANTS
    w1 = w1
    w2 = w2
    r1 = r1
    r2 = r2
    r3 = r3
    k1 = k1
    k2 = k2
    None = None
    Workers <- TwoWorkers
    Requests = {r1, r2, r3}
    Keys <- Callers
    KeyOf <- ThreeKeyOf
    EntriesPerStripe = 1
    RequestLimit = 1
    TokenLimit = 4
    ReserveTokens = 2
    ActualTokens <- MCActual
    Cooldowns <- MCCooldowns
    SlotReturns = TRUE
    MaxMinute = 1
    MaxCrashes = 1
SYMMETRY Symmetry
INVARIANTS
    TypeOK
    SlotsExact
    CountsBelongToWindow
    RequestBudget
