CONSTANTS
    w1 = w1  w2 = w2  turkey = turkey  egypt = egypt  Never = Never
    Workers <- OneWorker
    Routes <- OneRoute
    FlightDays <- Flights
    LastDay = 1
    Interval = 1
    NearDays = 2
    HorizonDays = 3
    WindowDays = 2
    MaxRestarts = 0
SPECIFICATION Spec
PROPERTY FailedWindowsKeepPrices
CHECK_DEADLOCK FALSE
