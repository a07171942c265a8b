--------------------------- MODULE UpgradeLedger ---------------------------
(***************************************************************************)
(* What a reviewed upgrade promises of the world it migrates, whatever     *)
(* happens to the process: a write is declared before Foundry can have it, *)
(* players come back either to the whole upgrade or to a world nothing was *)
(* declared for, and a declaration is never taken back.                    *)
(***************************************************************************)
CONSTANT Operations   \* the approved operations

VARIABLES
    declared,  \* the operations Foundry may have, by Core's durable records
    applied,   \* the operations Foundry has
    verdict    \* "none": maintenance; "done", "undone": released to players

vars == <<declared, applied, verdict>>

Init == declared = {} /\ applied = {} /\ verdict = "none"

Declare(S) ==
    /\ verdict = "none"
    /\ declared' = declared \cup S
    /\ UNCHANGED <<applied, verdict>>

Apply(o) ==
    /\ o \in declared
    /\ applied' = applied \cup {o}
    /\ UNCHANGED <<declared, verdict>>

Finish ==
    /\ verdict = "none" /\ applied = Operations
    /\ verdict' = "done"
    /\ UNCHANGED <<declared, applied>>

Undo ==
    /\ verdict = "none" /\ declared = {}
    /\ verdict' = "undone"
    /\ UNCHANGED <<declared, applied>>

\* A release is taken back before players are served: a late failure asks for recovery.
Withdraw ==
    /\ verdict # "none"
    /\ verdict' = "none"
    /\ UNCHANGED <<declared, applied>>

Next ==
    \/ \E S \in SUBSET Operations : Declare(S)
    \/ \E o \in Operations : Apply(o)
    \/ Finish \/ Undo \/ Withdraw

Spec == Init /\ [][Next]_vars
=============================================================================
