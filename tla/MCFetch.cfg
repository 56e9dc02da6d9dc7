\* Every interleaving of answers, chunks, timers and a shutdown.
SPECIFICATION FairSpec
CONSTANTS
    RetryDelays <- MCRetryDelays
    AttemptTimeout = 3
    ClientTimeout = 2
    MaxBodyBytes = 2
    MaxChunk = 2
    Lag = 1
INVARIANTS TypeOK WithinBudget BodyIsWhole AsksNoMore
PROPERTIES CancelWins KeepsPromise Ends
CHECK_DEADLOCK FALSE
