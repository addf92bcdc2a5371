SPECIFICATION FairSpec
CONSTANTS
    u1 = u1
    u2 = u2
    Users <- OneUser
    Nobody = Nobody
    Grace = 1
    JobAttempts = 5
    MaxNow = 2
    MaxPeriods = 1
    MaxFaults = 5
PROPERTY ExpiryEnforcedAfterFailure
