CONSTANTS
    q1 = q1  q2 = q2  q3 = q3  q4 = q4
    Requests <- ThreeRequests
    LastDay = 1
    Limit = 2
    Budget = 1
    MaxFaults = 0
SPECIFICATION Spec
PROPERTY CalendarShareUntouched
CHECK_DEADLOCK FALSE
