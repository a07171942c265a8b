---------------------------- MODULE MCWorldLease -----------------------------
EXTENDS WorldLease, TLC

CONSTANTS p1, p2, p3, p4, world, spells, dice

\* Three processes of one job, the later ones its restarts, and another
\* installation that upgrades another module of the same world.
MCJob == [p \in Procs |-> IF p = p4 THEN "B" ELSE "A"]
MCKey == [p \in Procs |-> <<world, IF p = p4 THEN dice ELSE spells>>]

Symmetry == Permutations({p1, p2, p3})
=============================================================================
