\* One file and a fair schedule.
SPECIFICATION FairSpec
CONSTANTS
    Files = {f}
    Contents = {v, w, bad}
    Absent = Absent
    Panics = {bad}
    Queries = {q}
    Returning = {}
    RebuildWhileBuilding = FALSE
    MaxEdits = 2
INVARIANTS TypeOK 
 
CHECK_DEADLOCK FALSE
