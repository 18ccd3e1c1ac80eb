CONSTANTS
    w1 = w1  w2 = w2
    Workers <- TwoWorkers
    NumJobs = 2
    Options <- EveryOption
    MaxTotal = 3
    PageCap = 3
    MaxFaults = 1
SPECIFICATION FairPoolSpec
INVARIANTS ClosedAfterSenders JobsAreAnsweredOnce NothingFetchedIsLost
PROPERTY SearchReturns
CHECK_DEADLOCK FALSE
