SPECIFICATION Spec
CONSTANTS
    a = a  b = b  r = r  z = z  w = w  NoCmd = NoCmd
    Commands = {a, z}
    OwnedCommands = {z}
    ZeroCommands = {z}
    WaitCommands = {}
    OverrideCommands = {}
    SceneOf <- MCSceneOf
    TargetsOf <- MCTargetsOf
    Keys <- MCKeys
    ChannelOf <- MCChannelOf
    ParamOf <- MCParamOf
    PingsRequired = 2
    Confirmations = 2
    Timeout = 2
    MaxTime = 2
    MaxPing = 2
    Budgets <- MCDeadlines
CHECK_DEADLOCK FALSE
PROPERTIES TimeoutMeansDeadline
