SPECIFICATION Spec
CONSTANTS
    a = a
    b = b
    c = c
    d = d
    Nobody = Nobody
    Sessions = {a, b, c, d}
    Loners = {d}
    Odd = {b}
    Unbindable = {c}
    Mortal = {a}
    Callers = {}
    MaxHandovers = 1
INVARIANTS ServesUnderLock 
CHECK_DEADLOCK FALSE
