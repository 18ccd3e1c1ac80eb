CONSTANTS
    w1 = w1  w2 = w2  turkey = turkey  egypt = egypt  Never = Never
    Workers <- TwoWorkers
    Routes <- TwoRoutes
    FlightDays <- Flights
    LastDay = 1
    Interval = 1
    NearDays = 2
    HorizonDays = 3
    WindowDays = 2
    MaxRestarts = 1
SPECIFICATION Spec
SYMMETRY WorkerSymmetry
INVARIANT NearFirst
PROPERTIES PricesAreKept RunsAreSpaced
CHECK_DEADLOCK FALSE
