SPECIFICATION Spec
CONSTANTS
    ann = ann
    ben = ben
    p1 = p1
    p2 = p2
    none = none
    BPS_DENOMINATOR = 10000
    MAX_BPS = 100000
    INDEX_SCALE = 1
    MaxAmount = 200000
    U32 = 200000
    Borrowers <- MCBorrowers
    PoolIds <- MCPools
    MaxPositions = 3
    Haircut = 1500
    LiquidationCost = 500
    RateShock = 50
    ConcentrationAddon = 1000
    TargetCoverage = 12500
    Horizon = 30
    ClientPools = 2
    ClientPositions = 2
    OperationalBuffer = 1
    Claims = {1, 3, 4}
    Collaterals = {5}
    Distances = {0, 25}
    Liquidities = {0, 6, 18}
    Reserve = 1
    Absent = none
SYMMETRY Symmetry
CHECK_DEADLOCK FALSE
INVARIANTS
    SdkAgreesWithEngine
    SatisfiedMeansCovered
    HhiShowsLargestBorrower
