SPECIFICATION FairSpec
CONSTANTS
    s1 = s1
    s2 = s2
    u1 = u1
    w1 = w1
    w2 = w2
    Null = Null
    Sessions = {s1, s2}
    Users = {u1}
    Owner <- CommonOwner
    Worlds = {w1, w2}
    MaxEvents = 4
INVARIANTS PurgeIsFinal SuspensionIsQuiet DeletedUsersAreGone LoggedOutStaysOut RolesAreReconciled
CHECK_DEADLOCK FALSE
PROPERTIES RestoresEnd
