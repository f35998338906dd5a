SPECIFICATION FairSpec
CONSTANTS
    a = a  b = b  r = r  z = z  w = w  NoCmd = NoCmd
    Commands = {a, w}
    OwnedCommands = {w}
    ZeroCommands = {}
    WaitCommands = {w}
    OverrideCommands = {}
    SceneOf <- MCSceneOf
    TargetsOf <- MCTargetsOf
    Keys <- MCKeys
    ChannelOf <- MCChannelOf
    ParamOf <- MCParamOf
    PingsRequired = 2
    Confirmations = 2
    Timeout = 2
    MaxTime = 2
    MaxPing = 2
    Budgets <- MCProgress
CHECK_DEADLOCK FALSE
PROPERTIES CommandAnswered BarrierEnds EveryFadeEnds
