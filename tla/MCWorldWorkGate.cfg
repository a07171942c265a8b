SPECIFICATION GateSpec
CONSTANTS
    k1 = k1
    k2 = k2
    w1 = w1
    w2 = w2
    d1 = d1
    d2 = d2
    Keys = {k1, k2}
    Works = {w1, w2}
    Drains = {d1, d2}
    MaxGeneration = 6
INVARIANTS DrainedMeansQuiet
PROPERTIES StaleScopesSendNothing
