SPECIFICATION FairSpec
CONSTANTS
    u1 = u1
    u2 = u2
    Users <- TwoUsers
    Nobody = Nobody
    Grace = 1
    JobAttempts = 2
    MaxNow = 3
    MaxPeriods = 2
    MaxFaults = 1
INVARIANTS
    TypeOK
    FirstPeriodHasJob
PROPERTIES
    StaleJobHarmless
    ExpiryEnforced
