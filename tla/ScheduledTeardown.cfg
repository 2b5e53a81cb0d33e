SPECIFICATION Spec
CONSTANTS
    r1 = r1
    r2 = r2
    DayTicks = 5
    Days = 2
    NotifyAt = 3
    TeardownAt = 4
    TeardownTimes <- CronAndEarlier
    Delays <- ShortAndLong
    MaxExtensions = 2
    MaxCounter = 4
    AllowDisable = TRUE
    Requests <- TwoRequests
INVARIANTS
    TypeOK
    GrantedWithinLimit
PROPERTIES
    AcknowledgedDelayHolds
    DisabledIsRespected
    CountdownIsKept
