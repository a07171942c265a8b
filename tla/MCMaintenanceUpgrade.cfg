SPECIFICATION UpgradeSpec
CONSTANTS
    N = 2
    MaxApprovals = 2
    MaxCommands = 3
    MaxCrashes = 1
    MaxCuts = 1
    MaxFailures = 1
INVARIANTS FilesStayForWrites OnlyWholeWorldsAreReleased
PROPERTIES ImplementsLedger
CHECK_DEADLOCK FALSE
