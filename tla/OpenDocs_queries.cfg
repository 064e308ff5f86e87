SPECIFICATION DocsFairSpec
CONSTANTS
    f1 = f1
    f2 = f2
    Files = {f1, f2}
    NoFile = NoFile
    p = p
    q = q
    Queries = {p, q}
    MaxOpen = 1
    MaxEdits = 2
INVARIANTS DocsTypeOK   AnswersCurrent
PROPERTY BuffersSettle
CHECK_DEADLOCK FALSE
