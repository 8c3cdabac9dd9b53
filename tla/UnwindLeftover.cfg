\* The principal came home before the interest.
SPECIFICATION Spec
CONSTANTS
    I128_MAX = 1000000
    U64_MAX = 1000
    TargetBps = {5000}
    BandBps = {1000}
    FloorBps = {0}
    MinTotals = {1}
    MaxCaps = {}
    MinFloors = {}
    Cooldowns = {0}
    ManualAmounts <- ManualTries
    ReserveIds = {3}
    UsdcReserveId = 3
    Treasuries = {t1}
    Statuses = {1, 4}
    InitLiquid = {6}
    MaxTotal = 6
    MaxInterest = 2
    WriteDowns = {0, 1, 3}
    MaxStray = 1
    MaxBlnd = 1
    MaxTime = 0
INVARIANT
    UnwindDrains
