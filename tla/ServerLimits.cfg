CONSTANTS
    c1 = c1
    c2 = c2
    c3 = c3
    k1 = k1
    k2 = k2
    s1 = s1
    s2 = s2
    NoKey = NoKey
    Global = Global
    Overflow = Overflow
    Client <- Clients
    Key <- Keys
    Slot <- Slots
    Scope = {"world-activity"}
    Policy <- Policies
    MaxBuckets = 2
    PruneEvery = 3
    Ttl = 2
    MaxCooldown = 1
    MaxEntries = 1
    MaxTime = 5
SPECIFICATION Spec
SYMMETRY Symmetry
INVARIANTS
    TypeOK
    KeyspaceBounded
    PendingIsLive
PROPERTIES
    NoRequestStorm
