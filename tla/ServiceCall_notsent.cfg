SPECIFICATION Spec
CONSTANTS
    Call = {c1, c2}
    Broken = {c1}
    FailureThreshold = 2
    MaxHalfOpenReqs = 1
    MaxOutages = 1
INVARIANTS
    OnlyDestinationOpens
