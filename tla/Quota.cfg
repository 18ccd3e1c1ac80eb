CONSTANTS
    q1 = q1  q2 = q2  q3 = q3  q4 = q4
    Requests <- FourRequests
    LastDay = 2
    Limit = 2
    Budget = 1
    MaxFaults = 1
SPECIFICATION Spec
SYMMETRY RequestSymmetry
INVARIANTS CountersCoverGrants SpendingBounded
PROPERTY ImplementsDailyBudget
CHECK_DEADLOCK FALSE
