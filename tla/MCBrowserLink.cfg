SPECIFICATION FairSpec
CONSTANTS
    MaxLogins = 2
    MaxEvents = 3
INVARIANTS ReadyShowsTheWorld NothingOutlivesItsSession
PROPERTIES LinkSettles
CHECK_DEADLOCK FALSE
