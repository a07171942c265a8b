SPECIFICATION FairSpec
CONSTANTS
    w1 = w1
    w2 = w2
    None = None
    Worlds = {w1, w2}
    MaxEvents = 3
INVARIANTS MonitoringNeverStops
PROPERTIES ThePastDecidesNothing SettlesWithFoundry
CHECK_DEADLOCK FALSE
