\* A change of offset while the market is closed.
SPECIFICATION Spec
CONSTANTS
    DayLength = 6
    Weekdays <- MCWeekdays
    Opens = 2
    Closes = 5
    Change = 12
    Before = 0
    After = 1
    Moments <- MCMoments
INVARIANTS TypeOK CountsOpenTime
CHECK_DEADLOCK FALSE
