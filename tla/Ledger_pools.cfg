SPECIFICATION FairSpec
CONSTANTS
    lp = lp
    bo = bo
    gold = gold
    p1 = p1
    p2 = p2
    none = none
    BPS_DENOMINATOR = 10
    MAX_BPS = 100
    INDEX_SCALE = 10
    MaxAmount = 320
    U32 = 128
    ReserveFactor = 1
    MaxUtilization = 9
    Accounts <- MCAccounts
    PoolIds <- TwoPools
    MaxLocks = 0
    CloseFee = 2
    DebtReserveFactor = 1
    LockGrace = 1
    Assets <- MCAssets
    PoolAsset <- MCPoolAsset
    RateModelOf <- SteepRateModelOf
    AssetConfigs <- TwoConfigs
    Absent = none
    SweepDelay = 1
    MinSweepDelay = 1
    CollateralPenalty = 3
    MaxPrincipal = 50
    MinCollateral = 2
    MaxOpen = 2
    MinLockSpan = 1
    MaxLockSpan = 4
    SetupPools <- OnePool
    SetupBalance <- EdgeBalance
    SetupLiquidity <- MCSetupLiquidity
    SetupAsset <- MCSetupAsset
    DepositAmounts = {298}
    Principals = {8, 12}
    Collaterals = {120}
    DueLimits = {160}
    Maturities = {1}
    Releases <- NoInputs
    Advances = {1, 2}
    MaxEpoch = 2
    MaxPositions = 2
    MaxMinted = 651
INVARIANTS
    TypeOK
    HeldWithinBalance
    UtilizationWithinLimit
    RatesFollowClockUnlessStalled
PROPERTIES
    AdvanceReturns
CHECK_DEADLOCK FALSE
