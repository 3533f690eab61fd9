SPECIFICATION FairSpec
CONSTANTS
    Consumer = {c1}
    Message = {m1, m2}
    Bad = {m2}
    MaxMessages = 2
    VisibilityTimeout = 1
    RetryBase = 1
    RetryMax = 3
    MaxReceives = 3
    MaxFaults = 2
    MaxOutages = 1
    MaxDown = 3
INVARIANTS
    TypeOK
    DeletedWasHandled
    DuplicatesArePaidFor
    OutageIsOutlasted
PROPERTIES
    KeepsThePromise
    ShutdownEnds
    RefusedKeepsPace
