CONSTANTS
    c1 = c1  c2 = c2  c3 = c3
    dubai = dubai  antalya = antalya
    None = None
    Requests <- ThreeRequests
    Keys <- TwoKeys
    MaxTrouble = 1
SPECIFICATION FairSpec
INVARIANTS OneSearchPerKey AnswersBelongToTheSearch
PROPERTY FollowersReturn
CHECK_DEADLOCK FALSE
