SPECIFICATION FairSpec
CONSTANTS
    None = None
    Launchd = launchd
    Users = {u1}
    LocalDate <- TwoDates
    AsOfs <- PresentOrPast
    Readiness <- OneOrTwoSources
    Settings = {"feed only", "both"}
    Feeds = {"missing", "f1"}
    Stale = 1
    Stuck = 0
    MaxTime = 2
    MaxEvents = 2
    MaxLasting = 2
CHECK_DEADLOCK FALSE
INVARIANTS
    IInv
    HealthyMeansCollected
    NoHammering
PROPERTIES
    FinishedIsFinal
    DayGetsOutcome
    ErasureIsResumed
