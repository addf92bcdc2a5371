SPECIFICATION Spec
CONSTANTS
    u1 = u1
    u2 = u2
    u3 = u3
    h1 = h1
    h2 = h2
    h3 = h3
    Users <- ThreeUsers
    Handlers <- TwoHandlers
    PromoteWorker = PromoteWorker
    ExpiryWorker = ExpiryWorker
    Nobody = Nobody
    Operations = {"join", "remove", "complete", "delete"}
    SlotChoices = {1}
    MaxSizeChoices = {0, 2}
    GraceChoices = {1}
    JobAttempts = 2
    MaxNow = 2
    MaxRequests = 5
    MaxFaults = 0
SYMMETRY ThreeTwo
INVARIANTS
    TypeOK
    ServingWithinSlots
    BoundedOverrun
    TransactionInv
PROPERTIES
    LifecycleSpec
    PromotionOrder
