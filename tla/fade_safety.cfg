SPECIFICATION Spec
CONSTANTS
    a = a  b = b  r = r  z = z  w = w  NoCmd = NoCmd
    Commands = {a, b, r, z, w}
    OwnedCommands = {r, z, w}
    ZeroCommands = {z}
    WaitCommands = {w}
    OverrideCommands = {a}
    SceneOf <- MCSceneOf
    TargetsOf <- MCTargetsOf
    Keys <- MCKeys
    ChannelOf <- MCChannelOf
    ParamOf <- MCParamOf
    PingsRequired = 2
    Confirmations = 2
    Timeout = 2
    MaxTime = 2
    MaxPing = 2
    Budgets <- MCSafety
INVARIANTS Frozen TargetsDriven WaiterHeld
PROPERTIES ReleaseProof QueuedFactsFirst ImplementsContract
CHECK_DEADLOCK FALSE
