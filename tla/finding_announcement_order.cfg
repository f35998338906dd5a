SPECIFICATION Spec
CONSTANTS
    t1 = t1  t2 = t2  t3 = t3  s1 = s1  s2 = s2
    Tasks = {t1, t2}
    Kinds = {"connect", "disconnect"}
    Systems = {s1}
    None = None
    Readers = {"scenes"}
    MaxFlaps = 0
INVARIANTS ScenesEndsCurrent
CHECK_DEADLOCK FALSE
