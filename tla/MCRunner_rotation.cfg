\* A token rotation and nothing else going wrong.
SPECIFICATION Spec
CONSTANTS
    mep = mep
    bitso = bitso
    Series = {mep}
    MaxRuns <- Three
    MaxRestarts = 1
    Rotates = TRUE
INVARIANTS LosesAtMostOne
CHECK_DEADLOCK FALSE
