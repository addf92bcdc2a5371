SPECIFICATION Spec
CONSTANTS
    c1 = c1
    c2 = c2
    h1 = h1
    h2 = h2
    Clients <- TwoClients
    Handlers <- TwoHandlers
    Nobody = Nobody
    TokenLife = 3
    RotateThreshold = 3600
    Instants = {0, 2, 4}
    MaxRequests = 4
    MaxFaults = 1
SYMMETRY TwoTwo
INVARIANTS
    TypeOK
    SessionKnown
