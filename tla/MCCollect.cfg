\* Every way the sources of a run can answer, fail and take time.
SPECIFICATION Spec
CONSTANTS
    primary = primary
    fallback = fallback
    fetchedAt = fetchedAt
    Sources <- MCSources
    HoursChoices <- MCHours
    Values = {"good", "unpublishable", "implausible"}
    AsOfs <- MCAsOfs
    FetchedAt = fetchedAt
    YearOne <- MCYearOne
    Every = 2
    MaxAge = 3
    ClockSkew = 1
    MaxFetch = 2
    MaxSend = 1
    StartTimes <- MCStartTimes
INVARIANTS TypeOK FirstValidReading SentIsFresh EveryAttemptLogged
CHECK_DEADLOCK FALSE
