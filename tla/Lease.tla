-------------------------------- MODULE Lease --------------------------------
(***************************************************************************)
(* What a lease on a directory promises.  Each lock has at most one        *)
(* holder.  A process takes a free lock, or one whose holder has died      *)
(* working on the same job; it gives back its own locks and no other.      *)
(***************************************************************************)
CONSTANTS
    Procs,          \* the processes of every installation that shares the directory
    Locks,          \* one per world and one per module
    Job,            \* the job each process works on
    None            \* no holder

VARIABLES
    holder,         \* who holds each lock
    alive           \* the processes that have not died

vars == <<holder, alive>>

TypeOK ==
    /\ holder \in [Locks -> Procs \cup {None}]
    /\ alive \in SUBSET Procs

Init ==
    /\ holder = [l \in Locks |-> None]
    /\ alive = Procs

Inherits(p, q) == q \in Procs \ alive /\ Job[q] = Job[p]

Take(p, l) ==
    /\ p \in alive
    /\ holder[l] = None \/ Inherits(p, holder[l])
    /\ holder' = [holder EXCEPT ![l] = p]
    /\ UNCHANGED alive

Drop(p, l) ==
    /\ p \in alive
    /\ holder[l] = p
    /\ holder' = [holder EXCEPT ![l] = None]
    /\ UNCHANGED alive

Die(p) ==
    /\ p \in alive
    /\ alive' = alive \ {p}
    /\ UNCHANGED holder

Next == \E p \in Procs : Die(p) \/ \E l \in Locks : Take(p, l) \/ Drop(p, l)

Spec == Init /\ [][Next]_vars
=============================================================================
