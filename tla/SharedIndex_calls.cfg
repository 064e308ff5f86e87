SPECIFICATION FairSpec
CONSTANTS
    a = a
    b = b
    Nobody = Nobody
    Sessions = {a, b}
    Loners = {}
    Odd = {}
    Unbindable = {}
    Mortal = {a}
    Callers = {b}
    MaxHandovers = 1
INVARIANT TypeOK
PROPERTIES CallReturns SomeoneServes
CHECK_DEADLOCK FALSE
