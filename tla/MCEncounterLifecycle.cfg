SPECIFICATION Spec
CONSTANTS
    E = 2
    Labels = {l1, l2}
    Copies = {c1, c2}
    Requests = {r1, r2}
    MaxFaults = 2
SYMMETRY Symmetry
INVARIANTS NothingOutlivesTheCombat DeletionIsNeverForgotten NamesStayUnique
CHECK_DEADLOCK FALSE
