\* Two workers, three requests of one organisation with two projects, two
\* months of one minute each, one worker death.
SPECIFICATION Spec
CONSTANTS
    w1 = w1
    w2 = w2
    r1 = r1
    r2 = r2
    r3 = r3
    org = org
    p1 = p1
    p2 = p2
    None = None
    Workers <- TwoWorkers
    Requests <- ThreeRequests
    Scopes <- MCScopes
    Budget <- MCBudget
    Mode <- MCMode
    Costs <- MCCosts
    Reserve = 2
    EntriesPerStripe = 3
    MinutesPerMonth = 1
    MaxMinute = 1
    MaxCrashes = 1
SYMMETRY Symmetry
INVARIANT SpendIsAccounted
PROPERTY ReservedWithinBudget
