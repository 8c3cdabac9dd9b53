\* The decision: drift, band, cooldown, critical bypass and scope limits,
\* with the settings changed while money is in Blend.
SPECIFICATION Spec
CONSTANTS
    I128_MAX = 35000
    U64_MAX = 3
    TargetBps = {0, 7500}
    BandBps = {1000, 6000, 10000}
    FloorBps = {0, 2600}
    MinTotals = {1}
    MaxCaps = {0, 1}
    MinFloors <- ScopeAmounts
    Cooldowns = {2}
    ManualAmounts = {2}
    ReserveIds = {3}
    UsdcReserveId = 3
    Treasuries = {t1}
    Statuses = {1}
    InitLiquid = {4}
    MaxTotal = 4
    MaxInterest = 0
    WriteDowns = {0}
    MaxStray = 0
    MaxBlnd = 0
    MaxTime = 2
INVARIANTS
    TypeOK
    MovesAreFeasible
PROPERTIES
    CooldownProtects
    CooldownIsForMoves
    RebalanceConverges
    DecisionsFit
    PredictionIsClose
