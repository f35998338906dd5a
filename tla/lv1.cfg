SPECIFICATION FairSpec
CONSTANTS
    g = g  b = b  s1 = s1  f = f  f2 = f2
    Commands = {g, b, s1, f, f2}
    KindOf <- MCKindOf
    QueueCapacity = 1
    MaxSession = 2
    MaxScene = 2
    Scenarios <- MCScenarios
    None = None
INVARIANTS MirrorOfSession FlushTruth
CHECK_DEADLOCK FALSE
PROPERTIES CommandAnswered ActorEnds
