SPECIFICATION Spec
CHECK_DEADLOCK FALSE
CONSTANTS
    MaxVersion = 2
    MaxFaults = 2
    MaxCrashes = 1
    MaxEdits = 1
    MaxEvents = 3
INVARIANTS RecordedPackageSurvives FailureChangesNothing DisabledStaysDisabled
PROPERTIES LocksHold
