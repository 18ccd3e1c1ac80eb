CONSTANTS
    a = a  b = b  Nothing = Nothing
    Tickets <- FiveTickets
    DbHotel <- DbHotels
    OwnHotel <- OwnHotels
    Operator <- Operators
    TourId <- SomeWithout
    Day <- Days
    Country <- Countries
    Region <- Regions
    Town <- Towns
    Recommended <- TwoHotels
    Prices <- SomePrices
    FirstDay = 1
    LastDay = 5
    DateRanges <- MonthAndWeek
    ChunkDays = 1
    MaxChunks = 2
    NormalPerRecommended = 2
    PriceBuckets = 2
    MaxTowns = 1
    MaxPerDestination = 2
SPECIFICATION ResultsSpec
PROPERTY RegroupingIsIdempotent
