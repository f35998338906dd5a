SPECIFICATION FairGuardSpec
CONSTANTS
    ui = ui  net = net  p1 = p1  p2 = p2
    Clients = {ui, net}
    Lane = ui
    Paths = {p1}
    NoPath = NoPath
    None = None
    MaxEdits = 1
    MaxLockouts = 1
    MaxOps = 6
    MaxGen = 0
    MaxLists = 1
    Scenarios <- MCGuard
    Actions = {"new", "open", "quit", "restart"}
    MaxSubmits = 1
    MaxRequests = 1
    MaxJobs = 18
PROPERTIES NoUnsavedLoss GuardResolves EveryJobFinishes
CHECK_DEADLOCK FALSE
