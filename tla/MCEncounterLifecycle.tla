------------------------ MODULE MCEncounterLifecycle ------------------------
EXTENDS EncounterLifecycle, TLC
Symmetry == Permutations(Requests) \union Permutations(Labels) \union Permutations(Copies)
=============================================================================
