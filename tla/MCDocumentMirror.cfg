SPECIFICATION Spec
CONSTANTS
    MaxWrites = 4
    MaxFaults = 2
INVARIANTS MirrorConverges BrowsersSawTheMirror
PROPERTIES SeedsUndoNothing
CHECK_DEADLOCK FALSE
