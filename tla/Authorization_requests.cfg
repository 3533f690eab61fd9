SPECIFICATION FairSpec
CONSTANTS
    Request = {q1}
    Token = {"t1", "t2", "t3"}
    User = {"u1"}
    Establishment = {"e1", "e2"}
    Claims <- ThreeClaims
    Route <- ThreeRoutes
    None = None
    MaxVersion = 1
    MaxFaults = 1
INVARIANTS
    TypeOK
    RevokedIsRefused
    UnrevokedIsServed
    ActsWithinEstablishment
PROPERTIES
    RequestsEnd
