SPECIFICATION FairSpec
CONSTANTS
    Relay = {r1}
    Enabled = {r1}
    NEvents = 3
    Size <- ThreeSizes
    Poison = {1}
    BatchSize = 2
    MaxMessage = 4
    MaxBatch = 4
    MinBackoff = 1
    MaxBackoff = 3
    MaxFaults = 2
    AttemptCap = 1
INVARIANTS
    PublishedWasAccepted
    FailedIsUndeliverable
    SendIsWithinLimits
    DuplicatesArePaidFor
PROPERTIES
    AttemptsCountWaiting
    OutcomeIsFinal
    EveryEventSettles
    ShutdownEnds
    FailedIsReported
    KeepsThePromise
