SPECIFICATION Spec
CONSTANTS
    p1 = p1
    p2 = p2
    interest = interest
    gold = gold
    ann = ann
    ben = ben
    none = none
    BPS_DENOMINATOR = 10
    MAX_BPS = 100
    INDEX_SCALE = 1
    MaxAmount = 2
    U32 = 128
    PoolIds <- MCPools
    Buckets <- MCBuckets
    Assets <- MCAssets
    Owners <- MCOwners
    Fees = {0, 1, 2}
    Absent = none
SYMMETRY Symmetry
INVARIANTS
    TypeOK
    NothingOverdrawn
    PendingCoversRoutes
