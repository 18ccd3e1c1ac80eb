CONSTANTS
    s1 = s1  s2 = s2
    samo = samo  anex = anex
    tour1 = tour1  tour2 = tour2  beach = beach
    Callers <- TwoSearches
    Operators <- TwoOperators
    Excluded <- OneExcluded
    Queries <- OneQuery
    Tours <- TwoTours
    OperatorOf <- TourOperators
    Unsellable <- NoTours
    StoreFails = TRUE
SPECIFICATION FairSpec
INVARIANTS PaidSearchesAreAllowed CachedWasShown
PROPERTIES ResultsAreKept StreamReturns
CHECK_DEADLOCK FALSE
