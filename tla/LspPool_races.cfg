\* One slot, two servers in a row: two query threads, the monitor and
\* a teardown.
SPECIFICATION Spec
CONSTANTS
    Languages = {rust}
    SlowStart = {}
    Clients = {c1, c2}
    Monitor = monitor
    Closer = closer
    Teardowns = {"shutdown"}
    WedgedAfter = 2
    MaxGeneration = 3
SYMMETRY ClientSymmetry
INVARIANTS
    TypeOK
    GuardsCounted
    NoServerLost
    RetiresOnlyItsOwn
PROPERTIES
    BusyServerKept
