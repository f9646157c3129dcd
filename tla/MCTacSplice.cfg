CONSTANTS
    a = a
    b = b
    none = none
    Entity = {a, b}
    NoEntity = none
    EMPTY = EMPTY
    TOMBSTONE = TOMBSTONE
    Edges <- MCEdges
    Home <- MCHome
    OccHome <- MCOccHome
    Capacity = 2
    PROBE_MAX = 2
    OccSlots = 2
    OCC_PROBE_MAX = 1
    PerEntityCap = 1
    PER_ENTITY_CAP_MAX = 1
    BUDGET_NAMED = 1
    BudgetPerSource = 2
    SRC_OTHER = 4
    ETA_UNIT = 2
    ETA_STRONG = 4
    CorroborationMin = 2
    QuarantineMinW = 2
    FP_ONE = 4
    DecayNovel = 2
    DecayCorr = 3
    NoiseFloor = 1
    Reinforcements <- MCReinforcements
    Batches <- MCBatches
    MaxCrashes = 0
SPECIFICATION ReadSpec
INVARIANT NeverSpliced
