\* A change of offset during the hours of an open day.
SPECIFICATION Spec
CONSTANTS
    DayLength = 6
    Weekdays <- MCWeekdays
    Opens = 2
    Closes = 5
    Change = 15
    Before = 0
    After = 1
    Moments <- MCMoments
INVARIANT CountsOpenTime
CHECK_DEADLOCK FALSE
