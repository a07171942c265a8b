----------------------------- MODULE WorldLease ------------------------------
(***************************************************************************)
(* The lease an upgrade holds on its world and its module: UpgradeJournal  *)
(* acquire, acquireLock, assertLease and release (migrations/              *)
(* UpgradeJournal.ts).  The locks are directories of a file system that    *)
(* several installations share, so nothing but the order of mkdir, rename, *)
(* unlink and rmdir keeps their processes apart.  The lease of the Core    *)
(* and of its manager on a data directory (core/world/MaintenanceMode.ts)  *)
(* takes and gives back one such lock the same way.                        *)
(*                                                                         *)
(* A lock is a directory with an owner.json in it.  Its owner is written   *)
(* after the directory is made and removed before it, so a process that    *)
(* dies in between leaves a lock without an owner, for good.  A lock whose *)
(* owner died is taken over under a second directory, <lock>.recovery.     *)
(* The host and the job of an owner are one value here (Job): a job is     *)
(* known to one host only.  A file system that fails is left out.          *)
(***************************************************************************)
EXTENDS Naturals

CONSTANTS
    Procs,          \* the processes of every installation that shares the directory
    Locks,          \* one per world and one per module
    Job,            \* the job each process works on
    Key,            \* the locks of a job in the order they are acquired: world, module
    None            \* no owner.json

ASSUME LeaseAssumption ==
    /\ None \notin Procs
    /\ Key \in [Procs -> [1..2 -> Locks]]
    /\ \A p \in Procs : Key[p][1] # Key[p][2]

VARIABLES
    dir,            \* the locks whose directory exists
    owner,          \* the owner.json of each lock
    recovery,       \* the locks whose .recovery directory exists
    alive,          \* the processes that have not died
    pc,             \* the system call each process makes next; a dead one stays where it died
    at,             \* the key acquire or release is at
    upto            \* the last key the loop that gives locks back will reach

disk == <<dir, owner, recovery>>
procs == <<pc, at, upto>>
vars == <<disk, alive, procs>>

Recovering == {"read", "replace", "close", "closeFailed"}
Steps == {"idle", "mkdir", "write", "recover", "held", "unlink", "rmdir"} \cup Recovering

Lock(p) == Key[p][at[p]]

Init ==
    /\ dir = {} /\ recovery = {}
    /\ owner = [l \in Locks |-> None]
    /\ alive = Procs
    /\ pc = [p \in Procs |-> "idle"]
    /\ at = [p \in Procs |-> 1]
    /\ upto = [p \in Procs |-> 0]

Goto(p, step) == pc' = [pc EXCEPT ![p] = step]

\* acquire begins with the lock of the world.
Acquire(p) ==
    /\ pc[p] = "idle"
    /\ Goto(p, "mkdir")
    /\ at' = [at EXCEPT ![p] = 1]
    /\ UNCHANGED <<disk, alive, upto>>

\* A lock is acquired: the loop goes on to the next, or the lease is held.
Acquired(p) ==
    /\ at' = [at EXCEPT ![p] = 2]
    /\ IF at[p] = 2 THEN Goto(p, "held") ELSE Goto(p, "mkdir")
    /\ UNCHANGED upto

\* Gives back the locks from the first to the n-th.
GiveBack(p, n) ==
    /\ upto' = [upto EXCEPT ![p] = n]
    /\ at' = [at EXCEPT ![p] = 1]
    /\ IF n = 0 THEN Goto(p, "idle") ELSE Goto(p, "unlink")

\* acquireLock threw: acquire gives back what it had acquired before.
Refused(p) == GiveBack(p, at[p] - 1)

MakeLock(p) ==
    /\ pc[p] = "mkdir"
    /\ dir' = dir \cup {Lock(p)}
    /\ IF Lock(p) \in dir THEN Goto(p, "recover") ELSE Goto(p, "write")
    /\ UNCHANGED <<owner, recovery, alive, at, upto>>

WriteOwner(p) ==
    /\ pc[p] = "write"
    /\ owner' = [owner EXCEPT ![Lock(p)] = p]
    /\ Acquired(p)
    /\ UNCHANGED <<dir, recovery, alive>>

\* Fault: a recovery directory that is already there stops nobody.
MakeAnyRecovery(p) ==
    /\ pc[p] = "recover"
    /\ recovery' = recovery \cup {Lock(p)}
    /\ Goto(p, "read")
    /\ UNCHANGED <<dir, owner, alive, at, upto>>

\* "Serialize restart takeover": a second process that finds the directory gives up.
MakeRecovery(p) ==
    /\ pc[p] = "recover"
    /\ recovery' = recovery \cup {Lock(p)}
    /\ IF Lock(p) \in recovery THEN Refused(p)
                               ELSE Goto(p, "read") /\ UNCHANGED <<at, upto>>
    /\ UNCHANGED <<dir, owner, alive>>

\* Fault: any dead owner is replaced, whatever it was working on.
InheritsAny(p, q) == q \in Procs \ alive

\* Only the dead owner of the same job, on the same host, is replaced.
Inherits(p, q) == q \in Procs \ alive /\ Job[q] = Job[p]

ReadOwner(p) ==
    /\ pc[p] = "read"
    /\ Goto(p, IF Inherits(p, owner[Lock(p)]) THEN "replace" ELSE "closeFailed")
    /\ UNCHANGED <<disk, alive, at, upto>>

ReplaceOwner(p) ==
    /\ pc[p] = "replace"
    /\ owner' = [owner EXCEPT ![Lock(p)] = p]
    /\ Goto(p, "close")
    /\ UNCHANGED <<dir, recovery, alive, at, upto>>

\* Fault: the refusal skips the removal of the recovery directory.
RemoveOnSuccess(p) ==
    /\ pc[p] \in {"close", "closeFailed"}
    /\ recovery' = IF pc[p] = "close" THEN recovery \ {Lock(p)} ELSE recovery
    /\ IF pc[p] = "close" THEN Acquired(p) ELSE Refused(p)
    /\ UNCHANGED <<dir, owner, alive>>

\* The finally of the takeover, after a success and after a refusal.
RemoveRecovery(p) ==
    /\ pc[p] \in {"close", "closeFailed"}
    /\ recovery' = recovery \ {Lock(p)}
    /\ IF pc[p] = "close" THEN Acquired(p) ELSE Refused(p)
    /\ UNCHANGED <<dir, owner, alive>>

\* assertLease: both owner.json still carry the token of this process.
AssertLease(p) == \A k \in 1..2 : owner[Key[p][k]] = p

Release(p) ==
    /\ pc[p] = "held"
    /\ AssertLease(p)
    /\ GiveBack(p, 2)
    /\ UNCHANGED <<disk, alive>>

Unlink(p) ==
    /\ pc[p] = "unlink"
    /\ owner' = [owner EXCEPT ![Lock(p)] = None]
    /\ Goto(p, "rmdir")
    /\ UNCHANGED <<dir, recovery, alive, at, upto>>

Rmdir(p) ==
    /\ pc[p] = "rmdir"
    /\ dir' = dir \ {Lock(p)}
    /\ IF at[p] = upto[p] THEN Goto(p, "idle") /\ UNCHANGED at
                          ELSE Goto(p, "unlink") /\ at' = [at EXCEPT ![p] = 2]
    /\ UNCHANGED <<owner, recovery, alive, upto>>

Die(p) ==
    /\ p \in alive
    /\ alive' = alive \ {p}
    /\ UNCHANGED <<disk, procs>>

Call(p) ==
    /\ p \in alive
    /\ \/ Acquire(p) \/ MakeLock(p) \/ WriteOwner(p)
       \/ MakeRecovery(p) \/ ReadOwner(p) \/ ReplaceOwner(p) \/ RemoveRecovery(p)
       \/ Release(p) \/ Unlink(p) \/ Rmdir(p)

Next == \E p \in Procs : Call(p) \/ Die(p)

Spec == Init /\ [][Next]_vars

-----------------------------------------------------------------------------
(* Properties.                                                             *)

TypeOK ==
    /\ dir \in SUBSET Locks
    /\ owner \in [Locks -> Procs \cup {None}]
    /\ recovery \in SUBSET Locks
    /\ alive \in SUBSET Procs
    /\ pc \in [Procs -> Steps]
    /\ at \in [Procs -> 1..2]
    /\ upto \in [Procs -> 0..2]

\* Two live processes between acquire and release share neither a world nor
\* a module, and each is the owner assertLease looks for before every send.
MutualExclusion ==
    \A p \in alive : pc[p] = "held" =>
        /\ AssertLease(p)
        /\ \A q \in alive \ {p} : pc[q] = "held" => \A j, k \in 1..2 : Key[p][j] # Key[q][k]

\* A lock nobody can take, one without an owner or one under a takeover, has
\* a process at work on it or is where a process died: no sequence of refused,
\* abandoned or completed calls leaves one behind, so what
\* docs/MODULE_MIGRATIONS.md sends to operator review is a death and only that.
StuckOnlyByDeath ==
    /\ \A l \in dir : owner[l] = None =>
          \E p \in Procs : Lock(p) = l /\ pc[p] \in {"write", "rmdir"}
    /\ \A l \in recovery : \E p \in Procs : Lock(p) = l /\ pc[p] \in Recovering

\* The directories implement Lease: owner.json names the holder.
Abstract == INSTANCE Lease WITH holder <- owner

ImplementsLease == Abstract!Spec
=============================================================================
