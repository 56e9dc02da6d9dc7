\* Every kind of trouble alone, and the loop hanging at any moment.
SPECIFICATION Spec
CONSTANTS
    BeatEvery = 6
    MaxAge = 24
    Interval = 6
    StartInterval = 1
    CheckTimeout = 1
    StartPeriod = 12
    Retries = 3
    Lag = 1
    MaxFailed = 4
    MaxSlow = 2
    ClockSteps <- MCClockSteps
    MaxTime = 66
INVARIANTS TypeOK HungIsSeen
PROPERTIES RunningStaysHealthy
