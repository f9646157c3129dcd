CONSTANTS
    NodeId = {me, a}
    Self = me
    WireState = {0, 1, 2, 3}
    MaxMembers = 1
    UpdateQueueSize = 2
    SuspicionMult = 1
    ProtocolPeriodMs = 1
    SuspectTimeoutMs = 0
    UINT32_MAX = 2
    HEALTH_MAX = 1
    SEL_CAP = 2
    StartTime = 1
    MaxTime = 4
    LastSuspicion = 2
    Retention = {1}
    Batch = {1}
    HealthDelta <- BothWays
SPECIFICATION FairSpec
INVARIANTS SuspicionTimed ExpiryComplete
PROPERTIES PrecedenceHeld RefutationWins SuspicionResolves
