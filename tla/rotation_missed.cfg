SPECIFICATION Spec
CONSTANTS
    c1 = c1
    c2 = c2
    h1 = h1
    h2 = h2
    Clients <- TwoClients
    Handlers <- TwoHandlers
    Nobody = Nobody
    TokenLife = 336
    RotateThreshold = 2
    Instants = {0, 335}
    MaxRequests = 4
    MaxFaults = 0
SYMMETRY TwoTwo
PROPERTY RotatedWhenDue
