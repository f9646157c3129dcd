CONSTANTS
    e1 = e1
    e2 = e2
    writer = writer
    other = other
    reader = reader
    Entity = {e1, e2}
    NoEntity = NoEntity
    Hash <- MCHash
    TOMBSTONE = 3
    Capacity = 2
    PROBE_MAX = 2
    UINT32_MAX = 7
    UINT16_MAX = 3
    Delta = {5}
    FP_ONE = 4
    DecayFactor = 3
    NoiseFloor = 3
    Proc = {writer, other, reader}
    May <- Evicting
    MaxCalls <- OneTwoOne
    Mortal = {other}
    Reorder = TRUE
SPECIFICATION Spec
INVARIANTS TypeOK Reachable
PROPERTIES KeyDiscipline
