CONSTANTS
    r1 = r1  r2 = r2  w1 = w1
    kompas17 = kompas17  malva5 = malva5  rixos = rixos  hilton = hilton
    None = None
    Resolvers <- OneResolver
    Workers <- OneWorker
    Keys <- OneKey
    Hotels <- TwoHotels
    QueueSize = 1
    MaxFaults = 1
SPECIFICATION Spec
INVARIANT CacheAgreesWithTable
CHECK_DEADLOCK FALSE
