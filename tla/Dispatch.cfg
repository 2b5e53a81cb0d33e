SPECIFICATION Spec
CONSTANTS
    t1 = t1
    Tabs <- OneTab
    MaxRuns = 2
    MaxTime = 4
    Lag = 2
    Timeout = 1
    Skew = 1
    Grace = 2
    Ttl = 3
    CronAt = 2
    MaxFaults = 1
CONSTRAINT
    UntilListed
INVARIANTS
    TypeOK
    AtMostOneSpinUp
    TrackedDispatchIsShown
