\* One query thread, fair threads, two servers in a row.
SPECIFICATION FairSpec
CONSTANTS
    Languages = {rust}
    SlowStart = {}
    Clients = {c1}
    Monitor = monitor
    Closer = closer
    Teardowns = {"shutdown", "exit"}
    WedgedAfter = 2
    MaxGeneration = 3
PROPERTIES
    TeardownReturns
    IdleServerReclaimed
