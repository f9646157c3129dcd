CONSTANTS
    NodeId = {me, a, b, c}
    Self = me
    WireState = {0, 1, 2, 3}
    MaxMembers = 2
    UpdateQueueSize = 2
    SuspicionMult = 1
    ProtocolPeriodMs = 1
    SuspectTimeoutMs = 1
    UINT32_MAX = 1
    HEALTH_MAX = 0
    SEL_CAP = 2
    StartTime = 1
    MaxTime = 2
    LastSuspicion = 2
    Retention = {1}
    Batch = {2}
    HealthDelta = {1}
SPECIFICATION ProbeSpec
SYMMETRY PeerSymmetry
INVARIANTS TypeOK CachesFresh IdentityUnique QueueAgrees ProbeGapBounded
PROPERTIES NoSilentDrop
