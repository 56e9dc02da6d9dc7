\* A wall clock that is stepped once, back or forward, or not at all.
SPECIFICATION FairSpec
CONSTANTS
    always = always
    hours = hours
    Series <- MCSeries
    Every <- MCEvery
    RunsAt <- MCRunsAt
    MaxRun = 4
    Lag = 1
    ClockSteps <- MCClockSteps
    MaxSteps = 1
    MaxTime = 16
INVARIANTS TypeOK DueInItsSlot BoundedSleep
PROPERTIES NoSlotMissed NoSlotRunTwice OpenSlotRuns KeepsRunning
CHECK_DEADLOCK FALSE
