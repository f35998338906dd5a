SPECIFICATION Spec
CONSTANTS
    r1 = r1  r2 = r2  r3 = r3  g1 = g1  g2 = g2  st = st  rp = rp
    s1 = s1  s2 = s2  NoReq = NoReq
    Requests = {r1, r2}
    CueRequests = {}
    StoreRequests = {}
    ReplaceRequests = {}
    Scenes = {s1, s2}
    SceneOf <- MCSceneOf
    Capacity = 2
    LateCapacity = 1
    MaxGen = 3
    Budgets <- MCGenerations
INVARIANTS
    NoLostCaller
    IntentProvenance
PROPERTIES
    NoCrossGenerationRecall
    ImplementsFifo
CHECK_DEADLOCK FALSE
