SPECIFICATION Spec
CONSTANTS
    lp = lp
    bo = bo
    gold = gold
    p1 = p1
    p2 = p2
    none = none
    BPS_DENOMINATOR = 10
    MAX_BPS = 100
    INDEX_SCALE = 10
    MaxAmount = 100000
    U32 = 128
    ReserveFactor = 1
    MaxUtilization = 9
    Accounts <- MCAccounts
    PoolIds <- OnePool
    MaxLocks = 0
    CloseFee = 2
    DebtReserveFactor = 1
    LockGrace = 1
    Assets <- MCAssets
    PoolAsset <- MCPoolAsset
    RateModelOf <- SteepRateModelOf
    AssetConfigs <- OneConfig
    Absent = none
    SweepDelay = 1
    MinSweepDelay = 1
    CollateralPenalty = 3
    MaxPrincipal = 50
    MinCollateral = 2
    MaxOpen = 2
    MinLockSpan = 1
    MaxLockSpan = 4
    SetupPools <- OnePool
    SetupBalance <- MCSetupBalance
    SetupLiquidity <- MCSetupLiquidity
    SetupAsset <- MCSetupAsset
    DepositAmounts <- NoInputs
    Principals = {16}
    Collaterals = {4}
    DueLimits = {40}
    Maturities = {2}
    Releases <- NoInputs
    Advances = {1}
    MaxEpoch = 4
    MaxPositions = 1
    MaxMinted = 44
INVARIANTS
    RatesFollowClock
CHECK_DEADLOCK FALSE
