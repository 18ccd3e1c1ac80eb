CONSTANTS
    h1 = h1  r1 = r1
    Scheduler = Scheduler
    NoOne = NoOne
    HomeRequests <- OneHome
    RecRequests <- OneRec
    MaxBuilds = 3
    MaxFaults = 1
SPECIFICATION FairSpec
INVARIANTS TwoKeysStored NoRebuild EmptyOnlyOnFailure
PROPERTIES NewestIsStored RequestsAreAnswered
