\* Two operators who come, sign and go while an occurrence waits to be acted
\* on.
SPECIFICATION PipelineSpec
CONSTANTS
    I128_MAX = 40000
    U64_MAX = 4
    TargetBps = {5000}
    BandBps = {1000}
    FloorBps = {0}
    MinTotals = {1}
    MaxCaps = {}
    MinFloors = {}
    Cooldowns = {0}
    ManualAmounts = {}
    ReserveIds = {3}
    UsdcReserveId = 3
    Treasuries = {t1}
    Statuses = {1}
    InitLiquid = {2}
    MaxTotal = 2
    MaxInterest = 0
    WriteDowns = {0}
    MaxStray = 0
    MaxBlnd = 0
    MaxTime = 2
    N = 2
    Weights = {1}
    Thresholds <- Unanimous
    HISTORY_CUTOFF = 1
    WEIGHT_MAX = 2
    MaxBatch = 2
    MAX_REFERENCE_BLOCK_AGE = 1
    PoolTopics = {"withdraw_liquidity"}
    MaxTriggers = 1
VIEW ButEvents
CHECK_DEADLOCK FALSE
INVARIANT
    LateQuorumCounts
PROPERTIES
    QuorumStood
    MovesAreWarranted
