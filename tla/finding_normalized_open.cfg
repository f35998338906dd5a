SPECIFICATION FairGuardSpec
CONSTANTS
    ui = ui  net = net  p1 = p1  p2 = p2
    Clients = {ui, net}
    Lane = ui
    Paths = {p1}
    NoPath = NoPath
    None = None
    MaxEdits = 0
    MaxLockouts = 0
    MaxOps = 2
    MaxGen = 0
    MaxLists = 0
    Scenarios <- MCNormalized
    Actions = {"open", "new"}
    MaxSubmits = 0
    MaxRequests = 2
    MaxJobs = 6
PROPERTIES GuardedCommitIsClean
CHECK_DEADLOCK FALSE
