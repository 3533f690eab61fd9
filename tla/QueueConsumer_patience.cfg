SPECIFICATION Spec
CONSTANTS
    Consumer = {c1}
    Message = {m1}
    Bad = {}
    MaxMessages = 1
    VisibilityTimeout = 1
    RetryBase = 1
    RetryMax = 30
    MaxReceives = 5
    MaxFaults = 0
    MaxOutages = 1
    MaxDown = 31
INVARIANTS
    DocumentedPatience
