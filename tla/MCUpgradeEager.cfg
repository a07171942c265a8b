SPECIFICATION FairSpec
CONSTANTS
    N = 1
    MaxApprovals = 2
    MaxCommands = 3
    MaxCrashes = 1
    MaxCuts = 0
    MaxFailures = 1
INVARIANTS ApprovalIsBound
PROPERTIES EveryCommandEnds
CHECK_DEADLOCK FALSE
