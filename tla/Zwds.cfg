CONSTANTS
    FirstYear = 2033
    LastYear = 2034
    Epoch <- MCEpoch
    LastMoon <- MCLastMoon
    NewMoon <- MCNewMoon
    LastTerm <- MCLastTerm
    Term <- MCTerm
    Offsets <- MCOffsets
    Minutes <- MCMinutes
SPECIFICATION ZwdsSpec
INVARIANTS LeapRule ChartOK
PROPERTIES LunarDaysRunOn
CHECK_DEADLOCK FALSE
