SPECIFICATION FairDesk
CONSTANTS
    BPS_DENOMINATOR = 10
    MAX_BPS = 100
    INDEX_SCALE = 1
    MaxAmount = 40
    U32 = 128
    Desks = {"clock", "oracle", "maintenance", "batches", "schedules", "lanes", "operators", "reports"}
    EpochSeconds = 4
    GenesisEpoch = 2
    LastEpoch = 6
    SecondsInputs = {0, 1, 3, 4, 6, 13}
    EpochInputs = {0, 1, 2, 3}
    Symbols = {"gold"}
    Prices = {1, 2}
    Bands <- MCBands
    PriceEpochs = {1, 2, 3, 5}
    MaxPublications = 3
    Subjects = {"pool"}
    PlanEpochs = {2, 4}
    MaxPlans = 2
    MaxPushes = 4
    BatchIds = {"b1"}
    Instructions = {"close", "expire"}
    SealEpochs = {0, 9}
    MaxInstructions = 2
    MaxTxs = 3
    U64 = 16
    Loans <- MCLoans
    InstalmentCounts = {0, 1, 2, 3, 4, 5, 7, 8}
    Routes = {"p1-p2"}
    LaneOperators = {"ann", "ben", "cid"}
    LaneOffers <- MCLaneOffers
    LaneAmounts = {0, 10, 11, 40}
    MaxLanes = 3
    OperatorIds = {"o1"}
    Controllers = {"ann"}
    ScoreStart = 4
    ScoreGain = 3
    ScoreLoss = 5
    ScoreCap = 8
    Permissions = {"Quote", "Sweep"}
    ServiceWindows <- MCServiceWindows
    Notionals = {1, 30}
    MaxWindows = 2
    MaxRecords = 3
    ReportIds = {"r1", "r2"}
    Buckets <- MCBuckets
    ViewOptions <- MCViews
    MaxViews = 2
    MaxReportCalls = 3
INVARIANTS
    CrossedConsecutive
    LastPublicationWins
    DoneAtMostOnce
    ExecutedAsSealed
    InstalmentsExact
    OffersStand
    ReportsAddUp
PROPERTIES
    ImplementsWallClock
    CallsReturn
    QuotesSettle
    ServedInTurn
    EveryPlanServed
    RegistryHonest
