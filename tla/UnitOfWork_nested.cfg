SPECIFICATION FairSpec
CONSTANTS
    Worker = {w1, w2}
    MaxDepth = 2
    w1 = w1
    w2 = w2
    Row = {1, 2, 3}
    RowsAt <- Rows
    MaxConns = 3
    MaxFaults = 1
    Nobody = Nobody
    Base = Base
INVARIANTS
    SuccessIsWhole
PROPERTIES
    UnitsAreAtomic
    EveryUnitEnds
