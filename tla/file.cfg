SPECIFICATION FairSpec
CONSTANTS
    e1 = e1
    e2 = e2
    Event <- MCEvent
    DayLength = 1
    DryRun = FALSE
    FreshStamps = TRUE
    MaxTime = 2
    Monotonic = TRUE
    MaxStarts = 2
    MaxHups = 1
    MaxTroubles = 1
INVARIANTS
    CleanStopLosesNothing
PROPERTIES
    KeepsCustody
    KeepsPromise
    BufferReachesDisk
