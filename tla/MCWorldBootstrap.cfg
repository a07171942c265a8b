SPECIFICATION FairSpec
CONSTANTS
    w1 = w1
    w2 = w2
    None = None
    Worlds = {w1, w2}
    MaxFaults = 4
    MaxSetting = 2
INVARIANTS ServedMirrorIsCurrent PreparedMatchesContext FailureStaysGated
PROPERTIES RecoveryReplaysChanges EventuallyServes
