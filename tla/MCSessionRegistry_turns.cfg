SPECIFICATION RegistrySpec
CONSTANTS
    h1 = h1
    h2 = h2
    c1 = c1
    Hook = {h1, h2}
    Call = {c1}
    Nobody = nobody
    Gone = gone
    NoState = nostate
    MaxRequests = 3
    MaxCrash = 1
SYMMETRY HookSymmetry
CHECK_DEADLOCK FALSE

    
PROPERTIES
    CommitsAreAuthorized
    RotatedCapabilitiesStayDead
