SPECIFICATION FairSpec
CONSTANTS
    Reader = {r1, r2}
    Writer = {w1}
    Enabled = TRUE
    MaxVersion = 2
    MaxGeneration = 3
    MaxFaults = 1
INVARIANTS
    TypeOK
    StaleOnlyByLapse
PROPERTIES
    StaleDoesNotLast
