CONSTANTS
    j1 = j1  j2 = j2
    Jobs <- TwoJobs
    Tourvisor = Tourvisor
    NumWorkers = 2
    MaxPages = 2
    TvBatches = 1
    ResultsCap = 2
    UpdatesCap = 1
    MaxRequests = 2
SPECIFICATION FairSpec
INVARIANTS ClosedAfterSenders DrainedWhilePresent OnlyLeavingLosesTickets
PROPERTY StreamsEnd
