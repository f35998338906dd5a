SPECIFICATION FairSpec
CONSTANTS
    c1 = c1  c2 = c2  c3 = c3  v1 = v1  v2 = v2
    Callers = {c1, c2}
    Versions = {v1, v2}
    None = None
    MaxToggles = 2
    MaxAuto = 1

PROPERTIES PlansFollowChannel EveryRequestAnswered PolicyChecked
CHECK_DEADLOCK FALSE
