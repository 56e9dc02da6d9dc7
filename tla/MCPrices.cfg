\* Every form of every value, with up to three observed pairs.
SPECIFICATION Spec
CONSTANTS
    Base = 3
    MaxDigits = 4
    MaxExponent = 2
    MinExponent = 4
    MaxDecimals = 2
    MaxWhole = 3
    PlausibleMin = 4
    PlausibleMax = 60
    Whole = 3
    MaxSamples = 3
INVARIANTS TypeOK CanonicalKeepsValue VerdictIsOfTheNumber EstimateIsFair
CHECK_DEADLOCK FALSE
