SPECIFICATION FairSpec
CONSTANTS
    r1 = r1
    r2 = r2
    a1 = a1
    a2 = a2
    b1 = b1
    q1 = q1
    k1 = k1
    k2 = k2
    Registries = {r1, r2}
    Callers = {a1, a2, b1}
    Closers = {q1}
    Nobody = Nobody
    Shutdown = Shutdown
    Keys = {k1, k2}
    Ambient = Ambient
    RegistryOf <- CallsOn
    KeyOf <- CallsFor
INVARIANTS
    TypeOK
    OneRuntimePerKey
    HandedOutIsOpen
    OwnNamespace
    NothingLeftOpen
PROPERTIES
    GetsEnd
    ShutdownEnds
CHECK_DEADLOCK FALSE
