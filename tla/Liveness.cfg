\* Disturbances at any time, in any number: moves of one USDC or of any
\* amount, two seconds apart, until nothing is left to move.
SPECIFICATION LiveSpec
CONSTANTS
    I128_MAX = 1000000
    U64_MAX = 1000
    TargetBps = {3400}
    BandBps = {0}
    FloorBps = {2000}
    MinTotals = {2}
    MaxCaps = {1}
    MinFloors = {2}
    Cooldowns = {2}
    ManualAmounts = {2}
    ReserveIds = {3}
    UsdcReserveId = 3
    Treasuries = {t1}
    Statuses = {1, 4}
    InitLiquid = {3}
    MaxTotal = 3
    MaxInterest = 1
    WriteDowns = {0}
    MaxStray = 1
    MaxBlnd = 0
    MaxTime = 2
    MaxDue = 1
PROPERTIES
    Settles
