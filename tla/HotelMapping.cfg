CONSTANTS
    r1 = r1  r2 = r2  w1 = w1
    kompas17 = kompas17  malva5 = malva5  rixos = rixos  hilton = hilton
    None = None
    Resolvers <- TwoResolvers
    Workers <- OneWorker
    Keys <- TwoKeys
    Hotels <- TwoHotels
    QueueSize = 1
    MaxFaults = 1
SPECIFICATION FairSpec
INVARIANTS PendingIsOwned OneJobPerKey CachedIsStored
PROPERTIES MappingIsStable PendingEnds WorkersStop
CHECK_DEADLOCK FALSE
