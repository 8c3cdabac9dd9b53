\* Several occurrences, and envelopes submitted in any order and any number
\* of times.
SPECIFICATION PipelineSpec
CONSTANTS
    I128_MAX = 40000
    U64_MAX = 4
    TargetBps = {5000}
    BandBps = {1000}
    FloorBps = {0}
    MinTotals = {1}
    MaxCaps = {}
    MinFloors = {}
    Cooldowns = {0}
    ManualAmounts = {}
    ReserveIds = {3}
    UsdcReserveId = 3
    Treasuries = {t1}
    Statuses = {1}
    InitLiquid = {2}
    MaxTotal = 2
    MaxInterest = 1
    WriteDowns = {0}
    MaxStray = 0
    MaxBlnd = 0
    MaxTime = 1
    N = 1
    Weights = {1}
    Thresholds <- Unanimous
    HISTORY_CUTOFF = 1
    WEIGHT_MAX = 2
    MaxBatch = 2
    MAX_REFERENCE_BLOCK_AGE = 1
    PoolTopics = {"swap", "withdraw_liquidity"}
    MaxTriggers = 3
VIEW ButEvents
CHECK_DEADLOCK FALSE
INVARIANT
    PipelineTypeOK
PROPERTIES
    KeepsPromise
    MovesAreWarranted
