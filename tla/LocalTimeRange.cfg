SPECIFICATION LunarSpec
CONSTANTS
    At = {6, 10}
    Offset <- Offsets
    Naive <- Walls
    Minute = 2
    MaxShift = 2
    MinTime <- Lowest
    MaxTime = 16
    Course <- MCCourse
    Angle <- MCAngle
    Slowest = 258
    Fastest = 351
    Circle = 360000
    Tolerance = 1
    Synodic = 1181
    Shortest = 800
    Longest = 1600
    MaxRounds = 15
    SupportedFrom = 0
    SupportedTo = 1300
    Instants <- MCInstants
INVARIANT OutOfRangeIs422
CHECK_DEADLOCK FALSE
