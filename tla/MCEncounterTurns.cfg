SPECIFICATION TurnSpec
CONSTANTS
    N = 3
    Npcs <- MCNpcs
    MaxScore = 2
    MaxRound = 2
    MaxEvents = 1
INVARIANTS CommandsKeepTheTurn
PROPERTIES RoundIsComplete PauseHolds
CHECK_DEADLOCK FALSE
