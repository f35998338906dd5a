SPECIFICATION Spec
CONSTANTS
    c1 = c1  c2 = c2  p1 = p1  p2 = p2
    Clients = {c1, c2}
    Paths = {p1}
    NoPath = NoPath
    None = None
    MaxEdits = 1
    MaxLockouts = 0
    MaxOps = 2
    MaxGen = 0
    MaxLists = 2
    Scenarios <- MCAlignment
PROPERTIES CommitAligned
CHECK_DEADLOCK FALSE
