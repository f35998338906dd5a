SPECIFICATION Spec
CONSTANTS
    r1 = r1  r2 = r2  r3 = r3  g1 = g1  g2 = g2  st = st  rp = rp
    s1 = s1  s2 = s2  NoReq = NoReq
    Requests = {r1, r2, r3, g1, g2, st, rp}
    CueRequests = {g1, g2}
    StoreRequests = {st}
    ReplaceRequests = {rp}
    Scenes = {s1, s2}
    SceneOf <- MCSceneOf
    Capacity = 2
    LateCapacity = 2
    MaxGen = 3
    Budgets <- MCSafety
INVARIANTS
    LockoutDrainsIntent
    LateEchoSuppressed
    NoLostCaller
PROPERTIES
    NoCrossGenerationRecall
    NoRecallAcrossReplacement
    ImplementsFifo
CHECK_DEADLOCK FALSE
