SPECIFICATION StartSpec
CONSTANTS
    Sources = {f}
    Configs = {m}
    f = f
    m = m
    Contents = {v, p, h, u}
    v = v
    h = h
    u = u
    p = p
    Absent = Absent
    None = None
    First = v
    Huge = {h}
    Unparsable = {u}
    Partial = {p}
    Ahead = {f}
    Holds = {"write", "read"}
    MaxRetries = 1
    MaxEdits = 2
    MaxTimeouts = 2
    MaxBuilds = 2
INVARIANT PartialIsIndexed
CHECK_DEADLOCK FALSE
