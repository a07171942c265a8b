SPECIFICATION Spec
CONSTANTS
    p1 = p1
    p2 = p2
    p3 = p3
    p4 = p4
    world = world
    spells = spells
    dice = dice
    Procs = {p1, p2, p3, p4}
    Locks = {world, spells, dice}
    Job <- MCJob
    Key <- MCKey
    None = None
SYMMETRY Symmetry
INVARIANTS MutualExclusion StuckOnlyByDeath
PROPERTIES ImplementsLease
CHECK_DEADLOCK FALSE
