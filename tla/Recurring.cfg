SPECIFICATION FairSpec
CONSTANTS
    Schedules = {1, 2}
    Cron = {1}
    Interval = 2
    Minute = 2
    Calendar <- MCCalendar
    Fields <- MCFields
    Any = Any
    SearchLimit = 3
    MaxTime = 14
    MaxCancels = 2
    MaxRefused = 1
INVARIANTS
    TypeOK
    ScheduleGoesOn
    NextIsFirstMatch
PROPERTIES
    KeepsFiring
CHECK_DEADLOCK FALSE
