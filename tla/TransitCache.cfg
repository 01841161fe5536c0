SPECIFICATION Spec
CONSTANTS
    Thread = {t1, t2}
    Asked = {"now", "state", "timeline"}
    TicksPerHour = 2
    HoursPerDay = 2
    MaxClock = 2
    MaxDays = 2
    CacheSize = 1
    TimelineCacheSize = 1
INVARIANTS SnapshotsOK TimelineComplete NowAttestsLiveFiles
SYMMETRY Symmetry
