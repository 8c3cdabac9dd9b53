\* Signers added, re-weighted and removed in every order, with histories
\* pruned as early as they may be or later, and every batch of up to three
\* signatures against every reference ledger.
SPECIFICATION Spec
CONSTANTS
    N = 2
    Weights = {0, 1, 2}
    Thresholds <- FractionTries
    HISTORY_CUTOFF = 1
    WEIGHT_MAX = 3
    MaxLedger = 2
    MaxBatch = 3
CHECK_DEADLOCK FALSE
INVARIANTS
    TypeOK
    WindowIsFaithful
    PrunedFailsClosed
    RemovalNeverTraps
    ListIsComplete
    AcceptedIsQuorate
    CountNeverTraps
    EveryoneIsEnough
    CheckedSignatureNeverHurts
    QuorumsMeet
PROPERTY
    RefusalsAreFinal
