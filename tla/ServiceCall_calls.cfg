SPECIFICATION FairSpec
CONSTANTS
    Call = {c1, c2, c3}
    Broken = {c3}
    FailureThreshold = 2
    MaxHalfOpenReqs = 2
    MaxOutages = 2
INVARIANTS
    TypeOK
    ProbesAreFew
    OpenAdmitsNothing
    IsolationHasCause
PROPERTIES
    CircuitCloses
    UnavailabilityEnds
