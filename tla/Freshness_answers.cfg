SPECIFICATION Spec
CONSTANTS
    Files = {f, g}
    f = f
    g = g
    Queries = {p, q}
    p = p
    q = q
    MaxInline = 1
    Prompt = TRUE
    TornReads = FALSE
    MaxEdits = 2
SYMMETRY Symmetry
INVARIANTS TypeOK 
CHECK_DEADLOCK FALSE
