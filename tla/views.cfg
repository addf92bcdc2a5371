SPECIFICATION Spec
CONSTANTS
    u1 = u1
    h1 = h1
    h2 = h2
    p1 = p1
    r1 = r1
    Users <- OneUser
    Handlers <- TwoHandlers
    Readers <- OneReader
    Promotions <- OnePromotion
    ExpiryWorker = ExpiryWorker
    Nobody = Nobody
    Operations = {"join", "leave", "remove", "complete", "markLate", "lateRejoin", "lateArrived", "update", "delete"}
    CachedKinds = {"queueStatus"}
    Slots = 1
    MaxCommits = 3
    MaxFaults = 1
SYMMETRY Handlers2
INVARIANTS
    TypeOK
    ToldCommitted
    InvalidationReachesFresh
    NothingUntold
