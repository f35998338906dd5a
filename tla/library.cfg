SPECIFICATION Spec
CONSTANTS
    Names = {1, 2, 3}
    MaxScenes = 3
    MaxInbox = 2
    Scenarios <- MCScenarios
INVARIANTS ReadyIsCurrent ConfigFollowsScene CueConfined
PROPERTIES GoTruth
CHECK_DEADLOCK FALSE
