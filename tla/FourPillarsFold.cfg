CONSTANTS
    Epoch <- MCEpoch
    Place <- MCPlace
    Births <- MCBirths
    Step <- MCStep
    BaseYear <- MCBaseYear
    Years = 4
    Jie <- MCJie
    NewYear <- MCNewYear
    Jitter <- MCJitter
    FirstYear = 1895
    LastYear = 1940
    Charts <- MCCharts
    Requests <- MCRequests
    Cycles = 3
SPECIFICATION BaziSpec
INVARIANT JieqiBoundMonths
CHECK_DEADLOCK FALSE
