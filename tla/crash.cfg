SPECIFICATION Spec
CONSTANTS
    u1 = u1
    u2 = u2
    u3 = u3
    h1 = h1
    h2 = h2
    h3 = h3
    Users <- TwoUsers
    Handlers <- TwoHandlers
    PromoteWorker = PromoteWorker
    ExpiryWorker = ExpiryWorker
    Nobody = Nobody
    Operations = {"join", "leave"}
    SlotChoices = {1}
    MaxSizeChoices = {0}
    GraceChoices = {1}
    JobAttempts = 5
    MaxNow = 1
    MaxRequests = 4
    MaxFaults = 0
INVARIANT ServerStaysUp
