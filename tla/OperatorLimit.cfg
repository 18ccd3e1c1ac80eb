CONSTANTS
    r1 = r1  r2 = r2  r3 = r3
    kompas = kompas  funsun = funsun
    Requests <- ThreeRequests
    Operators <- TwoOperators
    Limit = 2
    StreamSamo = FALSE
SPECIFICATION FairSpec
INVARIANTS TokensAreOwed ExtraPagesUseAtMostHalf
PROPERTIES CallsReturn ImplementsBudget
