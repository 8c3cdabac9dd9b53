\* A signature checked against today's weights, in a batch for the reference
\* ledger of yesterday.
SPECIFICATION Spec
CONSTANTS
    N = 2
    Weights = {0, 1, 2}
    Thresholds <- FractionTries
    HISTORY_CUTOFF = 1
    WEIGHT_MAX = 3
    MaxLedger = 2
    MaxBatch = 3
CHECK_DEADLOCK FALSE
INVARIANT
    PrevalidationHolds
