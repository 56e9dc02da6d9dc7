\* A source of a series with hours may also send the zero time.
SPECIFICATION Spec
CONSTANTS
    primary = primary
    fallback = fallback
    fetchedAt = fetchedAt
    Sources <- MCSources
    HoursChoices <- MCHours
    Values = {"good", "unpublishable", "implausible"}
    AsOfs <- MCAnyAsOfs
    FetchedAt = fetchedAt
    YearOne <- MCYearOne
    Every = 2
    MaxAge = 3
    ClockSkew = 1
    MaxFetch = 2
    MaxSend = 1
    StartTimes <- MCStartTimes
INVARIANT EveryAttemptLogged
CHECK_DEADLOCK FALSE
