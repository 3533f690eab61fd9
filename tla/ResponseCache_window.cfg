SPECIFICATION Spec
CONSTANTS
    Reader = {r1, r2}
    Writer = {w1}
    Enabled = TRUE
    MaxVersion = 1
    MaxGeneration = 1
    MaxFaults = 0
INVARIANTS
    NoStaleAnswers
