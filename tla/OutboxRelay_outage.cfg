SPECIFICATION OutageSpec
CONSTANTS
    Relay = {r1}
    Enabled = {r1}
    NEvents = 3
    Size <- ThreeSizes
    Poison = {}
    BatchSize = 2
    MaxMessage = 4
    MaxBatch = 4
    MinBackoff = 1
    MaxBackoff = 3
    MaxFaults = 2
    AttemptCap = 1
PROPERTIES
    BacklogIsReported
