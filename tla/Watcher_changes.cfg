SPECIFICATION FairRecentSpec
CONSTANTS
    Files = {f, g}
    f = f
    g = g
    Contents = {v, w}
    v = v
    w = w
    Absent = Absent
    Unread = Unread
    Rules = Rules
    Hidable = {g}
    Unwatched = {g}
    StormPaths = 1
    VerifyPolling = FALSE
    MaxEdits = 2
INVARIANTS TypeOK NoChangeForgotten StampsTell 
PROPERTIES  Settles
CHECK_DEADLOCK FALSE
