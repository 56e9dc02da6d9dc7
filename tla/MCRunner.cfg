\* Two series, stops, kills, a token rotation, and requests that arrive late.
SPECIFICATION FairSpec
CONSTANTS
    mep = mep
    bitso = bitso
    Series = {mep, bitso}
    MaxRuns <- TwoAndOne
    MaxRestarts = 1
    Rotates = TRUE
INVARIANTS TypeOK LoggedIsHeld
PROPERTIES KeepsPromise StopIsFinal Stops NextRunComes
CHECK_DEADLOCK FALSE
