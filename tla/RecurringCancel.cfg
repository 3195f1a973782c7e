SPECIFICATION Spec
CONSTANTS
    Schedules = {1, 2}
    Cron = {1}
    Interval = 2
    Minute = 2
    Calendar <- MCCalendar
    Fields <- MCFields
    Any = Any
    SearchLimit = 3
    MaxTime = 11
    MaxCancels = 1
    MaxRefused = 0
INVARIANTS
    CancelStops
CHECK_DEADLOCK FALSE
