CONSTANTS
    a = a
    b = b
    c = c
    NodeId = {a, b, c}
    WireState = {0, 1, 2, 3}
    MaxMembers = 1
    UpdateQueueSize = 2
    SuspicionMult = 1
    ProtocolPeriodMs = 1
    SuspectTimeoutMs = 1
    UINT32_MAX = 3
    HEALTH_MAX = 0
    SEL_CAP = 2
    KeepMs = 1
    PerMessage = 1
    ClockLimit = 2
    HostCalls = 3
SYMMETRY Peers
SPECIFICATION MeshSpec
INVARIANTS NoForgedIncarnation VerdictsFounded RefutationsEarned
PROPERTIES RefutationOutruns
