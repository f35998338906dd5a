SPECIFICATION Spec
CONSTANTS
    t1 = t1  t2 = t2  t3 = t3  s1 = s1  s2 = s2
    Tasks = {t1, t2}
    Kinds = {"connect", "disconnect", "auto", "discover"}
    Systems = {s1, s2}
    None = None
    Readers = {"scenes"}
    MaxFlaps = 1
SYMMETRY Symmetry
INVARIANTS QuietIsConsistent
PROPERTIES SupersededChangesNothing RememberedWasConnected ImplementsConnections
CHECK_DEADLOCK FALSE
