\* The admin moves the target below a floor that was valid.
SPECIFICATION Spec
CONSTANTS
    I128_MAX = 50000
    U64_MAX = 4
    TargetBps = {3000, 5000}
    BandBps = {300, 1000}
    FloorBps = {2600}
    MinTotals = {1}
    MaxCaps = {0, 1}
    MinFloors <- ScopeAmounts
    Cooldowns = {2, 9}
    ManualAmounts = {2}
    ReserveIds = {3}
    UsdcReserveId = 3
    Treasuries = {t1}
    Statuses = {1}
    InitLiquid = {6}
    MaxTotal = 6
    MaxInterest = 0
    WriteDowns = {}
    MaxStray = 0
    MaxBlnd = 0
    MaxTime = 3
INVARIANT
    FloorBelowLowerBand
