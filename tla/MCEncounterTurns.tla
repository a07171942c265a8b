-------------------------- MODULE MCEncounterTurns --------------------------
EXTENDS EncounterTurns
MCNpcs == {1}
=============================================================================
