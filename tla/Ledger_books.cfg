SPECIFICATION Spec
CONSTANTS
    lp = lp
    bo = bo
    gold = gold
    p1 = p1
    p2 = p2
    none = none
    BPS_DENOMINATOR = 10
    MAX_BPS = 100
    INDEX_SCALE = 10
    MaxAmount = 100000
    U32 = 128
    ReserveFactor = 1
    MaxUtilization = 9
    Accounts <- MCAccounts
    PoolIds <- OnePool
    MaxLocks = 2
    CloseFee = 2
    DebtReserveFactor = 1
    LockGrace = 1
    Assets <- MCAssets
    PoolAsset <- MCPoolAsset
    RateModelOf <- CostlyRateModelOf
    AssetConfigs <- OneConfig
    Absent = none
    SweepDelay = 1
    MinSweepDelay = 1
    CollateralPenalty = 5
    MaxPrincipal = 50
    MinCollateral = 2
    MaxOpen = 2
    MinLockSpan = 1
    MaxLockSpan = 4
    SetupPools <- OnePool
    SetupBalance <- MCSetupBalance
    SetupLiquidity <- MCSetupLiquidity
    SetupAsset <- MCSetupAsset
    DepositAmounts <- NoInputs
    Principals = {10}
    Collaterals = {2}
    DueLimits = {40}
    Maturities = {3}
    Releases = {3, 6}
    Advances = {1}
    MaxEpoch = 6
    MaxPositions = 2
    MaxMinted = 44
INVARIANTS
    HoldsMatchCollateral
    PoolMatchesPositions
    CashConserved
    AuditBalanced
    LockBinding
    InterestFullyAccounted
    CheckpointsAgree
PROPERTIES
    VersionDetectsChange
    NoSweepUnderLock
    SweepAfterGrace
    ClosedIsFinal
    DebtNeverFallsOffBoundary
CHECK_DEADLOCK FALSE
