-------------------------- MODULE MaintenanceProofs --------------------------
(***************************************************************************)
(* Maintenance: the lease between processes, and the upgrade under it.     *)
(*                                                                         *)
(* The safety of the lease and its refinement of Lease, for every set of   *)
(* processes and locks, every assignment of jobs and every pair of keys.   *)
(* A live process owns exactly the locks its place in the loop says        *)
(* (OwnsItsLocks).  What protects an owner.json that is missing is the     *)
(* directory around it (BareLocks), and what protects one that is being    *)
(* replaced is the recovery directory (Takeovers): while a process is      *)
(* between reading and replacing, the owner it read stays dead and stays   *)
(* the owner.                                                              *)
(*                                                                         *)
(* The binding of a published job, for every number of operations,         *)
(* approvals, commands, crashes, cut connections and connections.  Records *)
(* are read in one call to the journal and written in a later one, so what *)
(* the work, the poll and the cancellation hold while they wait has to fit *)
(* what the others have saved since (UpWork, UpPoll, UpCancel): the        *)
(* journal's line decides who saves first (UpLine), and the poll's mode    *)
(* may be older than an approval on its way only as long as the poll is    *)
(* ahead of it.                                                            *)
(*                                                                         *)
(* The promise of UpgradeLedger, for administrators who wait for the poll  *)
(* and processes that connect at most once (WholeInv).  A job on the disk  *)
(* or in a coroutine's hand tells where the files are and what Foundry may *)
(* have (MetaFits, Sound); what the work holds fits the place it has       *)
(* reached (Placed), what the poll and the cancellation will write back    *)
(* agrees with the disk (Agrees); and whatever may release the world finds *)
(* it whole (Releases).  A save cut short lands within these bounds        *)
(* (CutShort).                                                             *)
(***************************************************************************)
EXTENDS WorldLease, MaintenanceUpgrade, FiniteSetTheorems, TLAPS

-----------------------------------------------------------------------------
(* The lease *)

Bare == {"write", "rmdir"}

\* The keys, by index, a process owns at its place in acquire or release.
Owned(p) ==
    CASE pc[p] = "idle" -> {}
      [] pc[p] = "held" -> 1..2
      [] pc[p] = "close" -> 1..at[p]
      [] pc[p] = "unlink" -> at[p]..upto[p]
      [] pc[p] = "rmdir" -> (at[p] + 1)..upto[p]
      [] OTHER -> 1..(at[p] - 1)

OwnsItsLocks == \A p \in alive : \A k \in 1..2 : k \in Owned(p) => owner[Key[p][k]] = p

OwnerHasDirectory == \A l \in Locks : owner[l] # None => l \in dir

BareLocks ==
    \A p \in Procs : pc[p] \in Bare =>
        /\ Lock(p) \in dir
        /\ owner[Lock(p)] = None
        /\ \A q \in Procs \ {p} : pc[q] \in Bare => Lock(q) # Lock(p)

Takeovers ==
    \A p \in Procs : pc[p] \in Recovering =>
        /\ Lock(p) \in recovery
        /\ pc[p] = "replace" => Inherits(p, owner[Lock(p)])
        /\ \A q \in Procs \ {p} : pc[q] \in Recovering => Lock(q) # Lock(p)

GivingBack == \A p \in Procs : pc[p] \in {"unlink", "rmdir"} => at[p] <= upto[p]

IInv ==
    /\ TypeOK
    /\ OwnsItsLocks
    /\ OwnerHasDirectory
    /\ BareLocks
    /\ Takeovers
    /\ GivingBack
    /\ StuckOnlyByDeath

-----------------------------------------------------------------------------
\* A process is at one of the locks.
LEMMA LockType ==
    ASSUME TypeOK, NEW p \in Procs
    PROVE  Lock(p) \in Locks
BY LeaseAssumption DEF TypeOK, Lock

\* The initial state satisfies the invariant.
LEMMA InitIInv == Init => IInv
<1> SUFFICES ASSUME Init PROVE IInv
  OBVIOUS
<1>1. TypeOK
  BY DEF Init, TypeOK, Steps
<1>2. OwnsItsLocks
  BY DEF Init, OwnsItsLocks, Owned
<1>3. OwnerHasDirectory /\ BareLocks /\ Takeovers /\ GivingBack /\ StuckOnlyByDeath
  BY DEF Init, OwnerHasDirectory, BareLocks, Takeovers, GivingBack, StuckOnlyByDeath, Bare, Recovering
<1> QED
  BY <1>1, <1>2, <1>3 DEF IInv

\* A process that begins, or is refused, or completes a lock, moves no file.
LEMMA AcquireStep ==
    ASSUME IInv, NEW p \in alive, Acquire(p)
    PROVE  IInv'
<1> USE DEF IInv
<1>1. p \in Procs
  BY DEF TypeOK
<1>2. TypeOK'
  BY <1>1 DEF Acquire, Goto, disk, TypeOK, Steps
<1>3. OwnsItsLocks'
  BY <1>1 DEF Acquire, Goto, disk, TypeOK, OwnsItsLocks, Owned
<1>4. OwnerHasDirectory' /\ GivingBack'
  BY <1>1 DEF Acquire, Goto, disk, TypeOK, OwnerHasDirectory, GivingBack
<1>5. BareLocks' /\ Takeovers'
  BY <1>1 DEF Acquire, Goto, disk, TypeOK, BareLocks, Takeovers, Bare, Recovering, Lock, Inherits
<1>6. StuckOnlyByDeath'
  BY <1>1 DEF Acquire, Goto, disk, TypeOK, StuckOnlyByDeath, Recovering, Lock
<1> QED
  BY <1>2, <1>3, <1>4, <1>5, <1>6

\* mkdir tells one process that the lock is its own to fill.
LEMMA MakeLockStep ==
    ASSUME IInv, NEW p \in alive, MakeLock(p)
    PROVE  IInv'
<1> USE DEF IInv
<1>1. p \in Procs /\ Lock(p) \in Locks /\ Lock(p)' = Lock(p)
  BY LockType DEF TypeOK, MakeLock, Lock
<1>2. TypeOK'
  BY <1>1 DEF MakeLock, Goto, TypeOK, Steps
<1>3. OwnsItsLocks'
  BY <1>1 DEF MakeLock, Goto, TypeOK, OwnsItsLocks, Owned
<1>4. OwnerHasDirectory' /\ GivingBack'
  BY <1>1 DEF MakeLock, Goto, TypeOK, OwnerHasDirectory, GivingBack
<1>5. BareLocks'
  BY <1>1 DEF MakeLock, Goto, TypeOK, BareLocks, OwnerHasDirectory, Bare, Lock
<1>6. Takeovers'
  BY <1>1 DEF MakeLock, Goto, TypeOK, Takeovers, Recovering, Lock, Inherits
<1>7. StuckOnlyByDeath'
  BY <1>1 DEF MakeLock, Goto, TypeOK, StuckOnlyByDeath, Recovering, Lock
<1> QED
  BY <1>2, <1>3, <1>4, <1>5, <1>6, <1>7

\* The first owner of a lock replaces no other: the directory was empty.
LEMMA WriteOwnerStep ==
    ASSUME IInv, NEW p \in alive, WriteOwner(p)
    PROVE  IInv' /\ owner[Lock(p)] = None
<1> USE DEF IInv
<1>1. p \in Procs /\ Lock(p) \in Locks
  BY LockType DEF TypeOK
<1>2. Lock(p) \in dir /\ owner[Lock(p)] = None
  BY <1>1 DEF WriteOwner, BareLocks, Bare
<1>3. TypeOK'
  BY <1>1 DEF WriteOwner, Acquired, Goto, TypeOK, Steps
<1>4. OwnsItsLocks'
  <2> SUFFICES ASSUME NEW q \in alive, NEW k \in 1..2, k \in Owned(q)'
               PROVE  owner'[Key[q][k]] = q
    BY DEF WriteOwner, OwnsItsLocks
  <2>1. CASE q = p
    BY <2>1, <1>1, LeaseAssumption DEF WriteOwner, Acquired, Goto, TypeOK, OwnsItsLocks, Owned, Lock
  <2>2. CASE q # p
    <3>1. q \in Procs /\ Key[q][k] \in Locks /\ q # None
      BY LeaseAssumption DEF TypeOK
    <3>2. pc'[q] = pc[q] /\ at'[q] = at[q] /\ upto'[q] = upto[q]
      BY <2>2, <3>1, <1>1 DEF WriteOwner, Acquired, Goto, TypeOK
    <3>3. k \in Owned(q)
      BY <3>2 DEF Owned
    <3>4. owner[Key[q][k]] = q
      BY <3>3 DEF OwnsItsLocks
    <3> QED
      BY <3>1, <3>4, <1>2 DEF WriteOwner, TypeOK
  <2> QED
    BY <2>1, <2>2
<1>5. OwnerHasDirectory' /\ GivingBack'
  BY <1>1, <1>2 DEF WriteOwner, Acquired, Goto, TypeOK, OwnerHasDirectory, GivingBack
<1>6. BareLocks'
  BY <1>1, <1>2, LockType DEF WriteOwner, Acquired, Goto, TypeOK, BareLocks, Bare, Lock
<1>7. Takeovers'
  <2> SUFFICES ASSUME NEW q \in Procs, pc'[q] \in Recovering
               PROVE  /\ Lock(q)' \in recovery'
                      /\ pc'[q] = "replace" => Inherits(q, owner[Lock(q)])'
                      /\ \A r \in Procs \ {q} : pc'[r] \in Recovering => Lock(r)' # Lock(q)'
    BY DEF Takeovers
  <2>1. q # p /\ pc[q] \in Recovering /\ Lock(q)' = Lock(q) /\ Lock(q) \in Locks
    BY <1>1, LockType DEF WriteOwner, Acquired, Goto, TypeOK, Recovering, Lock
  <2>2. pc[q] = "replace" => Lock(q) # Lock(p)
    BY <2>1, <1>2, LeaseAssumption DEF Takeovers, Inherits
  <2>3. Lock(q)' \in recovery' /\ (pc'[q] = "replace" => Inherits(q, owner[Lock(q)])')
    BY <1>1, <2>1, <2>2 DEF WriteOwner, Acquired, Goto, TypeOK, Takeovers, Inherits
  <2>4. \A r \in Procs \ {q} : pc'[r] \in Recovering => Lock(r)' # Lock(q)'
    BY <1>1, <2>1 DEF WriteOwner, Acquired, Goto, TypeOK, Takeovers, Recovering, Lock
  <2> QED
    BY <2>3, <2>4
<1>8. StuckOnlyByDeath'
  <2>1. \A q \in Procs \ {p} : pc'[q] = pc[q] /\ Lock(q)' = Lock(q)
    BY <1>1 DEF WriteOwner, Acquired, Goto, TypeOK, Lock
  <2>2. \A l \in dir' : owner'[l] = None => l # Lock(p) /\ l \in dir /\ owner[l] = None
    BY <1>1, LeaseAssumption DEF WriteOwner, TypeOK
  <2>3. \A l \in dir' : owner'[l] = None => \E q \in Procs : Lock(q)' = l /\ pc'[q] \in {"write", "rmdir"}
    BY <2>1, <2>2 DEF StuckOnlyByDeath
  <2>4. \A l \in recovery' : \E q \in Procs : Lock(q)' = l /\ pc'[q] \in Recovering
    BY <2>1 DEF WriteOwner, StuckOnlyByDeath, Recovering
  <2> QED
    BY <2>3, <2>4 DEF StuckOnlyByDeath
<1> QED
  BY <1>2, <1>3, <1>4, <1>5, <1>6, <1>7, <1>8

\* A step of p moves no other process.
LEMMA Others ==
    ASSUME TypeOK, NEW p \in alive, Call(p)
    PROVE  \A q \in Procs \ {p} : /\ pc'[q] = pc[q]
                                  /\ Lock(q)' = Lock(q)
                                  /\ Owned(q)' = Owned(q)
<1> SUFFICES ASSUME NEW q \in Procs \ {p}
             PROVE  pc'[q] = pc[q] /\ at'[q] = at[q] /\ upto'[q] = upto[q]
  BY DEF Lock, Owned
<1> USE DEF TypeOK, Goto, Acquired, Refused, GiveBack
<1>1. CASE Acquire(p) \/ MakeLock(p) \/ WriteOwner(p)
  BY <1>1 DEF Acquire, MakeLock, WriteOwner
<1>2. CASE MakeRecovery(p) \/ ReadOwner(p) \/ ReplaceOwner(p) \/ RemoveRecovery(p)
  BY <1>2 DEF MakeRecovery, ReadOwner, ReplaceOwner, RemoveRecovery
<1>3. CASE Release(p) \/ Unlink(p) \/ Rmdir(p)
  BY <1>3 DEF Release, Unlink, Rmdir
<1> QED
  BY <1>1, <1>2, <1>3 DEF Call

\* A refusal gives back what p owns, the locks before the one it is at.
LEMMA MakeRecoveryStep ==
    ASSUME IInv, NEW p \in alive, MakeRecovery(p)
    PROVE  IInv'
<1> USE DEF IInv
<1>1. p \in Procs /\ Lock(p) \in Locks
  BY LockType DEF TypeOK
<1>2. TypeOK'
  BY <1>1 DEF MakeRecovery, Refused, GiveBack, Goto, TypeOK, Steps, Recovering
<1>3. \A q \in Procs \ {p} : pc'[q] = pc[q] /\ Lock(q)' = Lock(q) /\ Owned(q)' = Owned(q)
  BY Others DEF Call
<1>4. OwnsItsLocks'
  <2>1. \A k \in 1..2 : k \in Owned(p)' => k \in Owned(p)
    BY <1>1 DEF MakeRecovery, Refused, GiveBack, Goto, TypeOK, Owned
  <2> QED
    BY <2>1, <1>3, <1>1 DEF MakeRecovery, OwnsItsLocks, TypeOK
<1>5. OwnerHasDirectory' /\ GivingBack'
  BY <1>1 DEF MakeRecovery, Refused, GiveBack, Goto, TypeOK, OwnerHasDirectory, GivingBack
<1>6. pc[p] = "recover" /\ pc'[p] \in {"read", "idle", "unlink"}
  BY <1>1 DEF MakeRecovery, Refused, GiveBack, Goto, TypeOK
<1>7. pc'[p] = "read" => Lock(p) \notin recovery /\ Lock(p)' = Lock(p)
  BY <1>1 DEF MakeRecovery, Refused, GiveBack, Goto, TypeOK, Lock
<1>8. BareLocks'
  BY <1>3, <1>6 DEF MakeRecovery, BareLocks, Bare
<1>9. Takeovers'
  BY <1>3, <1>6, <1>7 DEF MakeRecovery, Takeovers, Recovering, Inherits
<1>10. StuckOnlyByDeath'
  <2>1. \A l \in dir : owner[l] = None => \E q \in Procs \ {p} : Lock(q) = l /\ pc[q] \in {"write", "rmdir"}
    BY <1>6 DEF StuckOnlyByDeath
  <2>2. \A l \in recovery : \E q \in Procs \ {p} : Lock(q) = l /\ pc[q] \in Recovering
    BY <1>6 DEF StuckOnlyByDeath, Recovering
  <2>3. Lock(p) \notin recovery => Lock(p)' = Lock(p) /\ pc'[p] \in Recovering
    BY <1>1 DEF MakeRecovery, Goto, TypeOK, Lock, Recovering
  <2> QED
    BY <2>1, <2>2, <2>3, <1>1, <1>3 DEF MakeRecovery, StuckOnlyByDeath, Recovering
<1> QED
  BY <1>2, <1>4, <1>5, <1>8, <1>9, <1>10

\* What is read under the recovery directory is the owner that will be replaced.
LEMMA ReadOwnerStep ==
    ASSUME IInv, NEW p \in alive, ReadOwner(p)
    PROVE  IInv'
<1> USE DEF IInv
<1>1. p \in Procs /\ Lock(p) \in Locks
  BY LockType DEF TypeOK
<1>2. TypeOK'
  BY <1>1 DEF ReadOwner, Goto, disk, TypeOK, Steps, Recovering
<1>3. \A q \in Procs \ {p} : pc'[q] = pc[q] /\ Lock(q)' = Lock(q) /\ Owned(q)' = Owned(q)
  BY Others DEF Call
<1>4. /\ pc[p] = "read" /\ pc'[p] \in {"replace", "closeFailed"} /\ Lock(p)' = Lock(p)
      /\ pc'[p] = "replace" => Inherits(p, owner[Lock(p)])
  BY <1>1 DEF ReadOwner, Goto, TypeOK, Lock
<1>5. OwnsItsLocks'
  <2>1. \A k \in 1..2 : k \in Owned(p)' => k \in Owned(p)
    BY <1>1, <1>4 DEF ReadOwner, Owned
  <2> QED
    BY <2>1, <1>3, <1>1 DEF ReadOwner, disk, OwnsItsLocks, TypeOK
<1>6. OwnerHasDirectory' /\ GivingBack'
  BY <1>3, <1>4 DEF ReadOwner, disk, OwnerHasDirectory, GivingBack
<1>7. BareLocks'
  BY <1>3, <1>4 DEF ReadOwner, disk, BareLocks, Bare
<1>8. Takeovers'
  BY <1>3, <1>4 DEF ReadOwner, disk, Takeovers, Recovering, Inherits
<1>9. StuckOnlyByDeath'
  BY <1>3, <1>4 DEF ReadOwner, disk, StuckOnlyByDeath, Recovering
<1> QED
  BY <1>2, <1>5, <1>6, <1>7, <1>8, <1>9

\* The owner that is replaced is dead and worked on the same job.
LEMMA ReplaceOwnerStep ==
    ASSUME IInv, NEW p \in alive, ReplaceOwner(p)
    PROVE  IInv' /\ Inherits(p, owner[Lock(p)])
<1> USE DEF IInv
<1>1. p \in Procs /\ Lock(p) \in Locks
  BY LockType DEF TypeOK
<1>2. Inherits(p, owner[Lock(p)]) /\ owner[Lock(p)] # None /\ Lock(p) \in dir
  BY <1>1, LeaseAssumption DEF ReplaceOwner, Takeovers, Recovering, Inherits, OwnerHasDirectory
<1>3. TypeOK'
  BY <1>1 DEF ReplaceOwner, Goto, TypeOK, Steps, Recovering
<1>4. \A q \in Procs \ {p} : pc'[q] = pc[q] /\ Lock(q)' = Lock(q) /\ Owned(q)' = Owned(q)
  BY Others DEF Call
<1>5. pc[p] = "replace" /\ pc'[p] = "close" /\ Lock(p)' = Lock(p) /\ at' = at
  BY <1>1 DEF ReplaceOwner, Goto, TypeOK, Lock
<1>6. OwnsItsLocks'
  <2> SUFFICES ASSUME NEW q \in alive, NEW k \in 1..2, k \in Owned(q)'
               PROVE  owner'[Key[q][k]] = q
    BY DEF ReplaceOwner, OwnsItsLocks
  <2>1. CASE q = p
    BY <2>1, <1>1, <1>5, LeaseAssumption DEF ReplaceOwner, TypeOK, OwnsItsLocks, Owned, Lock
  <2>2. CASE q # p
    <3>1. q \in Procs /\ Key[q][k] \in Locks
      BY LeaseAssumption DEF TypeOK
    <3>2. owner[Key[q][k]] = q
      BY <2>2, <3>1, <1>4 DEF OwnsItsLocks
    <3> QED
      BY <3>1, <3>2, <1>2 DEF ReplaceOwner, TypeOK, Inherits
  <2> QED
    BY <2>1, <2>2
<1>7. OwnerHasDirectory' /\ GivingBack'
  BY <1>2, <1>4, <1>5 DEF ReplaceOwner, TypeOK, OwnerHasDirectory, GivingBack
<1>8. BareLocks'
  BY <1>1, <1>2, <1>4, <1>5, LockType DEF ReplaceOwner, TypeOK, BareLocks, Bare
<1>9. Takeovers'
  BY <1>1, <1>4, <1>5, LockType DEF ReplaceOwner, TypeOK, Takeovers, Recovering, Inherits
<1>10. StuckOnlyByDeath'
  BY <1>1, <1>4, <1>5, LeaseAssumption DEF ReplaceOwner, TypeOK, StuckOnlyByDeath, Recovering
<1> QED
  BY <1>2, <1>3, <1>6, <1>7, <1>8, <1>9, <1>10

\* The finally removes the recovery directory after a success and after a refusal.
LEMMA RemoveRecoveryStep ==
    ASSUME IInv, NEW p \in alive, RemoveRecovery(p)
    PROVE  IInv'
<1> USE DEF IInv
<1>1. p \in Procs /\ Lock(p) \in Locks
  BY LockType DEF TypeOK
<1>2. TypeOK'
  BY <1>1 DEF RemoveRecovery, Acquired, Refused, GiveBack, Goto, TypeOK, Steps, Recovering
<1>3. \A q \in Procs \ {p} : pc'[q] = pc[q] /\ Lock(q)' = Lock(q) /\ Owned(q)' = Owned(q)
  BY Others DEF Call
<1>4. pc[p] \in {"close", "closeFailed"} /\ pc'[p] \in {"mkdir", "held", "idle", "unlink"}
  BY <1>1 DEF RemoveRecovery, Acquired, Refused, GiveBack, Goto, TypeOK
<1>5. OwnsItsLocks'
  <2>1. \A k \in 1..2 : k \in Owned(p)' => k \in Owned(p)
    BY <1>1 DEF RemoveRecovery, Acquired, Refused, GiveBack, Goto, TypeOK, Owned
  <2> QED
    BY <2>1, <1>3, <1>1 DEF RemoveRecovery, OwnsItsLocks, TypeOK
<1>6. OwnerHasDirectory' /\ GivingBack'
  BY <1>1 DEF RemoveRecovery, Acquired, Refused, GiveBack, Goto, TypeOK, OwnerHasDirectory, GivingBack
<1>7. BareLocks'
  BY <1>3, <1>4 DEF RemoveRecovery, BareLocks, Bare
<1>8. Takeovers'
  <2>1. \A q \in Procs \ {p} : pc[q] \in Recovering => Lock(q) \in recovery \ {Lock(p)}
    BY <1>1, <1>4 DEF Takeovers, Recovering
  <2>2. pc'[p] \notin Recovering
    BY <1>4 DEF Recovering
  <2> QED
    BY <2>1, <2>2, <1>3 DEF RemoveRecovery, Takeovers, Inherits
<1>9. StuckOnlyByDeath'
  <2>1. \A l \in dir : owner[l] = None => \E q \in Procs \ {p} : Lock(q) = l /\ pc[q] \in {"write", "rmdir"}
    BY <1>4 DEF StuckOnlyByDeath
  <2>2. \A l \in recovery \ {Lock(p)} : \E q \in Procs \ {p} : Lock(q) = l /\ pc[q] \in Recovering
    BY DEF StuckOnlyByDeath
  <2> QED
    BY <2>1, <2>2, <1>3 DEF RemoveRecovery, StuckOnlyByDeath
<1> QED
  BY <1>2, <1>5, <1>6, <1>7, <1>8, <1>9

\* release begins with every lock it will give back still its own.
LEMMA ReleaseStep ==
    ASSUME IInv, NEW p \in alive, Release(p)
    PROVE  IInv'
<1> USE DEF IInv
<1>1. p \in Procs
  BY DEF TypeOK
<1>2. TypeOK'
  BY <1>1 DEF Release, GiveBack, Goto, disk, TypeOK, Steps
<1>3. \A q \in Procs \ {p} : pc'[q] = pc[q] /\ Lock(q)' = Lock(q) /\ Owned(q)' = Owned(q)
  BY Others DEF Call
<1>4. pc[p] = "held" /\ pc'[p] = "unlink" /\ at'[p] = 1 /\ upto'[p] = 2
  BY <1>1 DEF Release, GiveBack, Goto, TypeOK
<1>5. OwnsItsLocks'
  BY <1>1, <1>3, <1>4 DEF Release, AssertLease, disk, OwnsItsLocks, TypeOK
<1>6. OwnerHasDirectory' /\ GivingBack'
  BY <1>1 DEF Release, GiveBack, Goto, disk, TypeOK, OwnerHasDirectory, GivingBack
<1>7. BareLocks' /\ Takeovers' /\ StuckOnlyByDeath'
  BY <1>3, <1>4 DEF Release, disk, BareLocks, Bare, Takeovers, Recovering, Inherits, StuckOnlyByDeath
<1> QED
  BY <1>2, <1>5, <1>6, <1>7

\* Only the owner removes its owner.json, and nobody is replacing a live owner.
LEMMA UnlinkStep ==
    ASSUME IInv, NEW p \in alive, Unlink(p)
    PROVE  IInv' /\ owner[Lock(p)] = p
<1> USE DEF IInv
<1>1. p \in Procs /\ Lock(p) \in Locks
  BY LockType DEF TypeOK
<1>2. owner[Lock(p)] = p /\ Lock(p) \in dir
  BY <1>1, LeaseAssumption DEF Unlink, TypeOK, OwnsItsLocks, Owned, GivingBack, OwnerHasDirectory, Lock
<1>3. TypeOK'
  BY <1>1 DEF Unlink, Goto, TypeOK, Steps
<1>4. \A q \in Procs \ {p} : pc'[q] = pc[q] /\ Lock(q)' = Lock(q) /\ Owned(q)' = Owned(q)
  BY Others DEF Call
<1>5. pc[p] = "unlink" /\ pc'[p] = "rmdir" /\ Lock(p)' = Lock(p)
  BY <1>1 DEF Unlink, Goto, TypeOK, Lock
<1>6. OwnsItsLocks'
  <2> SUFFICES ASSUME NEW q \in alive, NEW k \in 1..2, k \in Owned(q)'
               PROVE  owner'[Key[q][k]] = q
    BY DEF Unlink, OwnsItsLocks
  <2>1. q \in Procs /\ Key[q][k] \in Locks
    BY LeaseAssumption DEF TypeOK
  <2>2. k \in Owned(q) /\ (q = p => k # at[p])
    BY <2>1, <1>1, <1>4, <1>5 DEF Unlink, TypeOK, Owned
  <2>3. owner[Key[q][k]] = q
    BY <2>2 DEF OwnsItsLocks
  <2>4. Key[q][k] # Lock(p)
    BY <2>1, <2>2, <2>3, <1>1, <1>2, LeaseAssumption DEF Lock, TypeOK
  <2> QED
    BY <2>1, <2>3, <2>4 DEF Unlink, TypeOK
<1>7. OwnerHasDirectory' /\ GivingBack'
  BY <1>1, <1>2, <1>4, <1>5 DEF Unlink, Goto, TypeOK, OwnerHasDirectory, GivingBack
<1>8. BareLocks'
  BY <1>1, <1>2, <1>4, <1>5, LeaseAssumption, LockType DEF Unlink, TypeOK, BareLocks, Bare
<1>9. Takeovers'
  <2>1. \A q \in Procs \ {p} : pc[q] = "replace" => Lock(q) # Lock(p)
    BY <1>2 DEF Takeovers, Recovering, Inherits
  <2> QED
    BY <2>1, <1>1, <1>4, <1>5, LockType DEF Unlink, TypeOK, Takeovers, Recovering, Inherits
<1>10. StuckOnlyByDeath'
  BY <1>1, <1>4, <1>5 DEF Unlink, TypeOK, StuckOnlyByDeath, Recovering
<1> QED
  BY <1>2, <1>3, <1>6, <1>7, <1>8, <1>9, <1>10

\* The directory that goes had no owner.
LEMMA RmdirStep ==
    ASSUME IInv, NEW p \in alive, Rmdir(p)
    PROVE  IInv'
<1> USE DEF IInv
<1>1. p \in Procs /\ Lock(p) \in Locks
  BY LockType DEF TypeOK
<1>2. owner[Lock(p)] = None /\ \A q \in Procs \ {p} : pc[q] \in Bare => Lock(q) # Lock(p)
  BY <1>1 DEF Rmdir, BareLocks, Bare
<1>3. TypeOK'
  BY <1>1 DEF Rmdir, Goto, TypeOK, Steps
<1>4. \A q \in Procs \ {p} : pc'[q] = pc[q] /\ Lock(q)' = Lock(q) /\ Owned(q)' = Owned(q)
  BY Others DEF Call
<1>5. pc[p] = "rmdir" /\ pc'[p] \in {"idle", "unlink"}
  BY <1>1 DEF Rmdir, Goto, TypeOK
<1>6. OwnsItsLocks'
  <2>1. \A k \in 1..2 : k \in Owned(p)' => k \in Owned(p)
    BY <1>1 DEF Rmdir, Goto, TypeOK, Owned, GivingBack
  <2> QED
    BY <2>1, <1>1, <1>4 DEF Rmdir, OwnsItsLocks, TypeOK
<1>7. OwnerHasDirectory' /\ GivingBack'
  BY <1>1, <1>2 DEF Rmdir, Goto, TypeOK, OwnerHasDirectory, GivingBack
<1>8. BareLocks'
  BY <1>2, <1>4, <1>5 DEF Rmdir, BareLocks, Bare
<1>9. Takeovers'
  BY <1>4, <1>5 DEF Rmdir, Takeovers, Recovering, Inherits
<1>10. StuckOnlyByDeath'
  BY <1>4, <1>5 DEF Rmdir, StuckOnlyByDeath, Recovering
<1> QED
  BY <1>3, <1>6, <1>7, <1>8, <1>9, <1>10

\* A death leaves every file as it is, and adds to the owners that may be replaced.
LEMMA DieStep ==
    ASSUME IInv, NEW p \in Procs, Die(p)
    PROVE  IInv'
<1> USE DEF IInv, Die, disk, procs
<1>1. TypeOK' /\ OwnsItsLocks' /\ OwnerHasDirectory' /\ GivingBack'
  BY DEF TypeOK, OwnsItsLocks, Owned, OwnerHasDirectory, GivingBack
<1>2. BareLocks' /\ Takeovers' /\ StuckOnlyByDeath'
  BY DEF BareLocks, Takeovers, StuckOnlyByDeath, Lock, Inherits
<1> QED
  BY <1>1, <1>2

\* Every step preserves the invariant.
LEMMA NextIInv == IInv /\ [Next]_vars => IInv'
<1> SUFFICES ASSUME IInv, [Next]_vars PROVE IInv'
  OBVIOUS
<1>1. CASE UNCHANGED vars
  BY <1>1 DEF vars, disk, procs, IInv, TypeOK, OwnsItsLocks, Owned, OwnerHasDirectory,
              BareLocks, Takeovers, GivingBack, StuckOnlyByDeath, Lock, Inherits
<1>2. ASSUME NEW p \in Procs, Call(p) PROVE IInv'
  BY <1>2, AcquireStep, MakeLockStep, WriteOwnerStep, MakeRecoveryStep, ReadOwnerStep,
     ReplaceOwnerStep, RemoveRecoveryStep, ReleaseStep, UnlinkStep, RmdirStep DEF Call
<1>3. ASSUME NEW p \in Procs, Die(p) PROVE IInv'
  BY <1>3, DieStep
<1> QED
  BY <1>1, <1>2, <1>3 DEF Next

-----------------------------------------------------------------------------
\* The invariant holds throughout.
LEMMA Invariance == Spec => []IInv
BY InitIInv, NextIInv, PTL DEF Spec

\* The variables keep their types.
THEOREM TypeCorrect == Spec => []TypeOK
<1>1. IInv => TypeOK
  BY DEF IInv
<1> QED
  BY <1>1, Invariance, PTL

\* UpgradeJournal.acquire: whatever the order of their system calls and
\* wherever the others died, two live processes never hold leases that share a
\* world or a module, and a holder passes assertLease.
THEOREM Exclusion == Spec => []MutualExclusion
<1>1. ASSUME IInv PROVE MutualExclusion
  <2> SUFFICES ASSUME NEW p \in alive, pc[p] = "held"
               PROVE  /\ AssertLease(p)
                      /\ \A q \in alive \ {p} : pc[q] = "held" =>
                            \A j, k \in 1..2 : Key[p][j] # Key[q][k]
    BY DEF MutualExclusion
  <2>1. \A q \in alive : pc[q] = "held" => AssertLease(q)
    BY <1>1 DEF IInv, OwnsItsLocks, Owned, AssertLease
  <2> QED
    BY <2>1 DEF AssertLease
<1> QED
  BY <1>1, Invariance, PTL

\* UpgradeJournal.acquireLock: a lock that can be neither acquired nor taken
\* over is one some process is at work on or died at.
THEOREM OnlyDeathsStick == Spec => []StuckOnlyByDeath
<1>1. IInv => StuckOnlyByDeath
  BY DEF IInv
<1> QED
  BY <1>1, Invariance, PTL

\* The directories implement the lease: an owner.json appears in a free lock
\* or replaces that of a dead process of the same job, and its owner alone
\* removes it.
THEOREM Refinement == Spec => ImplementsLease
<1> USE DEF Abstract!vars, vars, disk, procs
<1>1. Init => Abstract!Init
  BY DEF Init, Abstract!Init
<1>2. ASSUME IInv, [Next]_vars PROVE [Abstract!Next]_(Abstract!vars)
  <2>1. CASE UNCHANGED vars
    BY <2>1
  <2>2. ASSUME NEW p \in Procs, Die(p) PROVE Abstract!Next
    BY <2>2 DEF Die, Abstract!Next, Abstract!Die
  <2>3. ASSUME NEW p \in Procs, Call(p) PROVE [Abstract!Next]_(Abstract!vars)
    <3> USE <2>3 DEF Call
    <3>1. p \in alive /\ Lock(p) \in Locks
      BY <1>2, LockType DEF IInv
    <3>2. CASE WriteOwner(p)
      BY <3>1, <3>2, <1>2, WriteOwnerStep DEF WriteOwner, Abstract!Next, Abstract!Take
    <3>3. CASE ReplaceOwner(p)
      BY <3>1, <3>3, <1>2, ReplaceOwnerStep
      DEF ReplaceOwner, Inherits, Abstract!Next, Abstract!Take, Abstract!Inherits
    <3>4. CASE Unlink(p)
      BY <3>1, <3>4, <1>2, UnlinkStep DEF Unlink, Abstract!Next, Abstract!Drop
    <3>5. CASE Acquire(p) \/ MakeLock(p) \/ MakeRecovery(p) \/ ReadOwner(p)
                  \/ RemoveRecovery(p) \/ Release(p) \/ Rmdir(p)
      BY <3>5 DEF Acquire, MakeLock, MakeRecovery, ReadOwner, RemoveRecovery, Release, Rmdir
    <3> QED
      BY <3>2, <3>3, <3>4, <3>5
  <2> QED
    BY <1>2, <2>1, <2>2, <2>3 DEF Next
<1> QED
  BY <1>1, <1>2, Invariance, PTL DEF Spec, ImplementsLease, Abstract!Spec

-----------------------------------------------------------------------------
(* The upgrade: types *)

Jobs == [meta : Metas, out : Receipts]
Leases == [token : Nat, pid : Nat]
Ledgers == [1..MaxApprovals -> Receipts]
Durables ==
    [mode : Modes, job : Metas, receipts : Ledgers, torn : BOOLEAN, lease : Leases, issued : Nat,
     target : {"old", "gone", "new"}, registry : {"old", "new"}]

\* The work after its job was published.
Executing ==
    {"ap_snapshot", "ap_install", "ap_intent", "ap_retained", "ap_promoted", "ap_registered", "ap_restart",
     "ra_snapshot", "ra_save", "rs_save", "r_job", "r_loop", "r_lease", "r_restart", "r_migrating", "r_intent",
     "r_confirm", "r_verifying", "r_completed", "r_snapshot", "r_source", "r_send", "r_readback", "r_check",
     "e_read", "e_save", "f_read", "f_save", "ex_done"}
Reviewing == {"pl_read", "pl_preview", "pl_save", "ap_read", "ap_save", "ap_recover", "ra_read", "rs_read"}
WorkPcs   == {"idle", "w_reconcile"} \cup Reviewing \cup Executing
PollPcs   == {"idle", "p_reconcile", "p_connect", "p_seed", "p_lease", "p_job", "p_save", "p_kick"}
Undoing   == {"c_job", "c_lease", "c_fread", "c_fsave", "c_fence", "c_cancelled"}
CancelPcs == {"idle", "c_wait", "c_reconcile", "c_preview"} \cup Undoing
Pcs       == WorkPcs \cup PollPcs \cup CancelPcs

Locals ==
    [pc : Pcs, op : {"none", "plan", "approve", "resume"}, mode : Modes, job : Jobs, fresh : BOOLEAN,
     left : SUBSET Ops, batch : SUBSET Ops, sig : BOOLEAN, refused : BOOLEAN]
Processes ==
    [up : {"entering", "maintenance", "normal", "down"}, pid : Nat, connected : BOOLEAN, authority : BOOLEAN,
     configured : BOOLEAN, polled : BOOLEAN, retried : BOOLEAN, aborted : BOOLEAN, restarting : BOOLEAN]
Worlds == [applied : SUBSET Ops, flying : SUBSET Ops]

-----------------------------------------------------------------------------
(* The upgrade: what the durable records say after an operation on them *)

\* The records d and e differ in what no approval depends on.
SameApproval(d, e) ==
    /\ e.mode.bound = d.mode.bound /\ e.mode.intent = d.mode.intent
    /\ e.job.phase = "none" <=> d.job.phase = "none"

\* Another stage.
LEMMA StageFacts ==
    ASSUME NEW d \in Durables, NEW s \in Stages
    PROVE  Stage(d, s) \in Durables /\ SameApproval(d, Stage(d, s)) /\ Stage(d, s).job = d.job
           /\ Stage(d, s).mode.token = d.mode.token /\ Stage(d, s).mode.drained = d.mode.drained
           /\ Stage(d, s).mode.stage = s /\ Stage(d, s).lease = d.lease
<1> DEFINE m == [d.mode EXCEPT !.stage = s]
<1>1. m \in Modes /\ m.bound = d.mode.bound /\ m.intent = d.mode.intent /\ m.token = d.mode.token
      /\ m.drained = d.mode.drained /\ m.stage = s
  BY DEF Durables, Modes
<1>2. Stage(d, s) = [d EXCEPT !.mode = m]
  BY DEF Stage, Durables
<1> HIDE DEF m
<1> QED
  BY <1>1, <1>2 DEF Durables, SameApproval

\* The mode as it was read, with another stage.
LEMMA StageOfFacts ==
    ASSUME NEW d \in Durables, NEW m \in Modes, NEW s \in Stages
    PROVE  LET e == StageOf(d, m, s)
           IN e \in Durables /\ e.mode.bound = m.bound /\ e.mode.intent = m.intent /\ e.job = d.job
              /\ e.lease = d.lease
<1> DEFINE n == [m EXCEPT !.stage = s]
<1>1. n \in Modes /\ n.bound = m.bound /\ n.intent = m.intent
  BY DEF Modes
<1>2. StageOf(d, m, s) = [d EXCEPT !.mode = n]
  BY DEF StageOf
<1> HIDE DEF n
<1> QED
  BY <1>1, <1>2 DEF Durables

\* Recovery is a stage.
LEMMA RecoveryFacts ==
    ASSUME NEW d \in Durables
    PROVE  LET e == RecoveryRequired(d)
           IN e \in Durables /\ SameApproval(d, e) /\ e.job = d.job /\ e.lease = d.lease
BY StageFacts DEF RecoveryRequired, Stages

\* The receipts of a job, and the job.
LEMMA SaveFacts ==
    ASSUME NEW d \in Durables, NEW j \in Jobs
    PROVE  /\ SaveReceipts(d, j) \in Durables /\ Save(d, j) \in Durables
           /\ SaveReceipts(d, j).job = d.job /\ Save(d, j).job = j.meta
           /\ SaveReceipts(d, j).mode = d.mode /\ Save(d, j).mode = d.mode
           /\ SaveReceipts(d, j).lease = d.lease /\ Save(d, j).lease = d.lease
<1> DEFINE a == j.meta.approval
           f == [o \in Ops |-> IF j.out[o] = "none" THEN d.receipts[a][o] ELSE j.out[o]]
           r == [d.receipts EXCEPT ![a] = f]
<1>1. a \in 1..MaxApprovals /\ j.out \in Receipts /\ d.receipts \in Ledgers /\ j.meta \in Metas
  BY DEF Jobs, Metas, Durables
<1>2. f \in Receipts
  BY <1>1 DEF Receipts, Ledgers
<1>3. SaveReceipts(d, j) = [d EXCEPT !.receipts = r]
  BY DEF SaveReceipts, Durables
<1> HIDE DEF f
<1>4. r \in Ledgers
  BY <1>1, <1>2 DEF Ledgers
<1> HIDE DEF a, r
<1>5. /\ SaveReceipts(d, j) \in Durables /\ SaveReceipts(d, j).job = d.job
      /\ SaveReceipts(d, j).mode = d.mode /\ SaveReceipts(d, j).lease = d.lease
  BY <1>3, <1>4 DEF Durables
<1>6. Save(d, j) = [SaveReceipts(d, j) EXCEPT !.job = j.meta]
  BY DEF Save
<1> QED
  BY <1>1, <1>5, <1>6 DEF Durables

\* The job as the disk has it.
LEMMA ReadJobFacts ==
    ASSUME NEW d \in Durables
    PROVE  ReadJob(d) \in Jobs /\ ReadJob(d).meta = d.job
BY DEF ReadJob, Durables, Ledgers, Metas, Jobs

\* What a save cut short leaves is at most the job.
LEMMA LandingFacts ==
    ASSUME NEW d \in Durables, NEW j \in Jobs, NEW e \in Landings(d, j)
    PROVE  e \in Durables /\ e.mode = d.mode /\ e.lease = d.lease /\ e.job \in {d.job, j.meta}
<1> DEFINE a == SaveReceipts(d, j)
           b == Save(d, j)
           t == [d EXCEPT !.torn = TRUE]
<1>1. t \in Durables /\ t.mode = d.mode /\ t.lease = d.lease /\ t.job = d.job
  BY DEF Durables
<1>2. /\ a \in Durables /\ a.mode = d.mode /\ a.lease = d.lease /\ a.job = d.job
      /\ b \in Durables /\ b.mode = d.mode /\ b.lease = d.lease /\ b.job = j.meta
  BY SaveFacts
<1>3. e \in {d, a, b, t}
  BY DEF Landings
<1> HIDE DEF a, b, t
<1> QED
  BY <1>1, <1>2, <1>3

\* Leases change nothing else, but for the mode that records a takeover.
LEMMA LeaseFacts ==
    ASSUME NEW d \in Durables, proc \in Processes
    PROVE  /\ TakeLease(d) \in Durables /\ DropLease(d) \in Durables /\ ModeLease(d) \in Durables
           /\ TakeLease(d).mode = d.mode /\ DropLease(d).mode = d.mode
           /\ TakeLease(d).job = d.job /\ DropLease(d).job = d.job /\ ModeLease(d).job = d.job
           /\ ModeLease(d).mode.bound = d.mode.bound /\ ModeLease(d).mode.intent = d.mode.intent
           /\ ModeLease(d).mode.preview = d.mode.preview
           /\ ModeLease(d).lease.token # 0 /\ ModeLease(d).lease.pid = proc.pid
           /\ TakeLease(d).issued \in Nat
<1> DEFINE l == [token |-> d.issued + 1, pid |-> proc.pid]
<1>1. l \in Leases /\ l.token # 0 /\ l.pid = proc.pid /\ NoLease \in Leases /\ d.issued + 1 \in Nat
  BY DEF Leases, Durables, Processes, NoLease
<1>2. TakeLease(d) = [d EXCEPT !.issued = d.issued + 1, !.lease = l]
  BY DEF TakeLease, Durables
<1> HIDE DEF l
<1>3. /\ TakeLease(d) \in Durables /\ TakeLease(d).mode = d.mode /\ TakeLease(d).job = d.job
      /\ TakeLease(d).issued \in Nat /\ TakeLease(d).lease = l
  BY <1>1, <1>2 DEF Durables
<1>4. DropLease(d) \in Durables /\ DropLease(d).mode = d.mode /\ DropLease(d).job = d.job
  BY <1>1 DEF Durables, DropLease
<1>5. CASE Held(d, d.mode.token)
  <2>1. ModeLease(d) = d
    BY <1>5 DEF ModeLease
  <2> QED
    BY <1>3, <1>4, <1>5, <2>1 DEF Held
<1>6. CASE ~Held(d, d.mode.token)
  <2> DEFINE m == [TakeLease(d).mode EXCEPT !.token = TakeLease(d).issued]
  <2>1. m \in Modes /\ m.bound = d.mode.bound /\ m.intent = d.mode.intent /\ m.preview = d.mode.preview
    BY <1>3 DEF Durables, Modes
  <2>2. ModeLease(d) = [TakeLease(d) EXCEPT !.mode = m]
    BY <1>3, <1>6 DEF ModeLease, Durables
  <2> HIDE DEF m
  <2>3. ModeLease(d) \in Durables /\ ModeLease(d).mode = m /\ ModeLease(d).job = d.job /\ ModeLease(d).lease = l
    BY <1>3, <2>1, <2>2 DEF Durables
  <2> QED
    BY <1>1, <1>3, <1>4, <2>1, <2>3
<1> QED
  BY <1>5, <1>6

\* A settled approval is bound to its job or forgotten.
LEMMA SettledFacts ==
    ASSUME NEW d \in Durables
    PROVE  LET e == Settled(d)
           IN e \in Durables /\ e.job = d.job /\ e.lease = d.lease /\ ~e.mode.intent
              /\ (e.mode.bound <=> d.job.phase # "none") /\ e.mode.drained = d.mode.drained
<1> DEFINE m == [d.mode EXCEPT !.intent = FALSE, !.bound = d.job.phase # "none"]
<1>1. m \in Modes /\ ~m.intent /\ (m.bound <=> d.job.phase # "none") /\ m.drained = d.mode.drained
  BY DEF Durables, Modes
<1>2. Settled(d) = [d EXCEPT !.mode = m]
  BY DEF Settled, Durables
<1> HIDE DEF m
<1> QED
  BY <1>1, <1>2 DEF Durables
-----------------------------------------------------------------------------
(* The upgrade: the line before the journal *)

Waits(q, w) == \E i \in 1..Len(q) : q[i] = w
Ahead(q, v, w) == \E i, j \in 1..Len(q) : i < j /\ q[i] = v /\ q[j] = w
Line(q) == q \in Seq(Coroutines) /\ \A i, j \in 1..Len(q) : q[i] = q[j] => i = j
\* Who is served leaves.
Rest(q, s) == IF q # <<>> /\ Head(q) \in s THEN Tail(q) ELSE q

\* Who is ahead of another waits, and so does the other; the head is behind nobody.
LEMMA LineOrder ==
    ASSUME NEW q, Line(q), NEW v, NEW w, Ahead(q, v, w)
    PROVE  Waits(q, v) /\ Waits(q, w) /\ q # <<>> /\ Head(q) # w /\ ~Ahead(q, w, v)
<1>1. PICK i, j \in 1..Len(q) : i < j /\ q[i] = v /\ q[j] = w
  BY DEF Ahead
<1>2. q # <<>> /\ Head(q) = q[1] /\ Len(q) \in Nat /\ 1 \in 1..Len(q)
  BY <1>1 DEF Line
<1>3. Head(q) # w
  BY <1>1, <1>2 DEF Line
<1>4. ~Ahead(q, w, v)
  BY <1>1 DEF Line, Ahead
<1> QED
  BY <1>1, <1>2, <1>3, <1>4 DEF Waits

\* Nobody is lost when the head leaves, and the others keep their order.
LEMMA LineShrinks ==
    ASSUME NEW q, Line(q), NEW s \in SUBSET Coroutines, \A v \in s : Waits(q, v) => Head(q) = v
    PROVE  LET r == Rest(q, s)
           IN /\ Line(r)
              /\ \A u \in Coroutines : Waits(r, u) <=> Waits(q, u) /\ u \notin s
              /\ \A u, v \in Coroutines \ s : Ahead(q, u, v) => Ahead(r, u, v)
<1>1. CASE q # <<>> /\ Head(q) \in s
  <2> DEFINE r == Tail(q)
  <2>1. Rest(q, s) = r
    BY <1>1 DEF Rest
  <2>2. r \in Seq(Coroutines) /\ Len(r) = Len(q) - 1 /\ Len(q) \in Nat /\ Len(q) >= 1 /\ Head(q) = q[1]
    BY <1>1 DEF Line
  <2>3. \A i \in 1..Len(r) : r[i] = q[i + 1]
    BY <1>1 DEF Line
  <2> HIDE DEF r
  <2>4. \A i \in 1..Len(r) : i + 1 \in 1..Len(q)
    BY <2>2
  <2>5. \A i \in 1..Len(q) : i # 1 => i - 1 \in 1..Len(r) /\ r[i - 1] = q[i]
    BY <2>2, <2>3
  <2>6. Line(r)
    <3>1. \A i, j \in 1..Len(r) : r[i] = r[j] => i = j
      <4> TAKE i, j \in 1..Len(r)
      <4>1. r[i] = q[i + 1] /\ r[j] = q[j + 1] /\ i + 1 \in 1..Len(q) /\ j + 1 \in 1..Len(q)
        BY <2>3, <2>4
      <4>2. q[i + 1] = q[j + 1] => i + 1 = j + 1
        BY <4>1 DEF Line
      <4> QED
        BY <4>1, <4>2, <2>2
    <3> QED
      BY <3>1, <2>2 DEF Line
  <2>7. ASSUME NEW u \in Coroutines PROVE Waits(r, u) <=> Waits(q, u) /\ u \notin s
    <3>1. ASSUME Waits(r, u) PROVE Waits(q, u) /\ u \notin s
      <4>1. PICK i \in 1..Len(r) : r[i] = u
        BY <3>1 DEF Waits
      <4>2. i + 1 \in 1..Len(q) /\ q[i + 1] = u
        BY <4>1, <2>3, <2>4
      <4>3. Waits(q, u)
        BY <4>2 DEF Waits
      <4>4. Head(q) # u
        BY <4>1, <4>2, <2>2 DEF Line
      <4> QED
        BY <4>3, <4>4
    <3>2. ASSUME Waits(q, u), u \notin s PROVE Waits(r, u)
      <4>1. PICK i \in 1..Len(q) : q[i] = u
        BY <3>2 DEF Waits
      <4>2. i # 1
        BY <4>1, <3>2, <1>1, <2>2
      <4> QED
        BY <4>1, <4>2, <2>5 DEF Waits
    <3> QED
      BY <3>1, <3>2
  <2>8. ASSUME NEW u \in Coroutines \ s, NEW v \in Coroutines \ s, Ahead(q, u, v) PROVE Ahead(r, u, v)
    <3>1. PICK i, j \in 1..Len(q) : i < j /\ q[i] = u /\ q[j] = v
      BY <2>8 DEF Ahead
    <3>2. i # 1 /\ j # 1
      BY <3>1, <1>1, <2>2, <2>8
    <3>3. i - 1 \in 1..Len(r) /\ j - 1 \in 1..Len(r) /\ r[i - 1] = u /\ r[j - 1] = v /\ i - 1 < j - 1
      BY <3>1, <3>2, <2>5
    <3> QED
      BY <3>3 DEF Ahead
  <2> QED
    BY <2>1, <2>6, <2>7, <2>8
<1>2. CASE ~(q # <<>> /\ Head(q) \in s)
  <2>1. Rest(q, s) = q
    BY <1>2 DEF Rest
  <2>2. ASSUME NEW u \in Coroutines, Waits(q, u) PROVE u \notin s
    <3>1. q # <<>>
      BY <2>2 DEF Waits
    <3> QED
      BY <3>1, <1>2, <2>2
  <2> QED
    BY <2>1, <2>2
<1> QED
  BY <1>1, <1>2

\* One who did not wait joins the end.
LEMMA LineGrows ==
    ASSUME NEW r, Line(r), NEW w \in Coroutines, ~Waits(r, w)
    PROVE  LET t == Append(r, w)
           IN /\ Line(t)
              /\ \A u \in Coroutines : Waits(t, u) <=> Waits(r, u) \/ u = w
              /\ \A u, v \in Coroutines : Ahead(r, u, v) => Ahead(t, u, v)
              /\ \A u \in Coroutines : Waits(r, u) => Ahead(t, u, w)
<1> DEFINE t == Append(r, w)
<1>1. t \in Seq(Coroutines) /\ Len(t) = Len(r) + 1 /\ Len(r) \in Nat /\ t[Len(r) + 1] = w
      /\ \A i \in 1..Len(r) : t[i] = r[i]
  BY DEF Line
<1> HIDE DEF t
<1>2. \A i \in 1..Len(t) : i = Len(r) + 1 \/ i \in 1..Len(r)
  BY <1>1
<1>3. \A i \in 1..Len(r) : i \in 1..Len(t) /\ i < Len(r) + 1 /\ r[i] # w
  BY <1>1 DEF Waits
<1>4. Len(r) + 1 \in 1..Len(t)
  BY <1>1
<1>5. Line(t)
  BY <1>1, <1>2, <1>3 DEF Line
<1>6. ASSUME NEW u \in Coroutines PROVE Waits(t, u) <=> Waits(r, u) \/ u = w
  BY <1>1, <1>2, <1>3, <1>4 DEF Waits
<1>7. ASSUME NEW u, NEW v, Ahead(r, u, v) PROVE Ahead(t, u, v)
  BY <1>1, <1>3, <1>7 DEF Ahead
<1>8. ASSUME NEW u, Waits(r, u) PROVE Ahead(t, u, w)
  BY <1>1, <1>3, <1>4, <1>8 DEF Ahead, Waits
<1> QED
  BY <1>5, <1>6, <1>7, <1>8 DEF t
-----------------------------------------------------------------------------
(* The upgrade: the inductive invariant *)

Named(m)     == m.bound \/ m.intent
Published(d) == d.job.phase # "none"

UpTypes == durable \in Durables /\ world \in Worlds /\ co \in [Coroutines -> Locals] /\ proc \in Processes

UpLine == Line(queue) /\ \A w \in Coroutines : co[w].pc \in JournalPcs <=> Waits(queue, w)

\* A published job is named by the mode or by an intent, and only a published job is named.
Records(d) == (Published(d) => Named(d.mode)) /\ (d.mode.bound => Published(d))
UpBound    == Records(durable) /\ \A w \in Coroutines : co[w].mode.bound => Published(durable)

\* What the work waits for tells what it published before, and while it publishes the mode holds the intent
\* and this process the lease.
WorkFits(d, l, pid) ==
    /\ l.pc \in WorkPcs
    /\ l.pc \in Executing \cup {"ra_read", "rs_read"} => Published(d)
    /\ l.pc \in {"rs_read", "rs_save"} => l.mode.bound
    /\ l.pc = "pl_read" /\ Published(d) => Named(l.mode)
    /\ l.pc = "ap_save" => d.mode.intent /\ d.lease.token # 0 /\ d.lease.pid = pid
    /\ l.pc = "ra_snapshot" => l.job.meta.approval # MaxApprovals
    /\ l.pc \in {"r_loop", "r_source"} => l.left # {}
UpWork == WorkFits(durable, co["work"], proc.pid)

\* The mode the poll saves with the lease it takes over is not older than the intent of the job published since.
UpPoll ==
    /\ co["poll"].pc \in PollPcs
    /\ co["poll"].pc \in {"p_job", "p_save"} => Published(durable)
    /\ co["poll"].pc = "p_lease" /\ (Published(durable) \/ co["work"].pc = "ap_save")
          => Named(co["poll"].mode) \/ Ahead(queue, "poll", "work")
    /\ co["poll"].pc = "p_lease" /\ Published(durable) /\ co["work"].pc # "ap_save" => Named(co["poll"].mode)
    /\ co["poll"].pc = "p_reconcile" /\ co["work"].pc = "ap_save" => Ahead(queue, "work", "poll")
    /\ co["poll"].pc = "p_reconcile" /\ co["work"].pc = "ap_read"
          => durable.mode.intent \/ Ahead(queue, "poll", "work")

\* Cancellation reads the mode after the work has ended.
UpCancel ==
    /\ co["cancel"].pc \in CancelPcs
    /\ co["cancel"].pc \notin {"idle", "c_wait"} => co["work"].pc = "idle"
    /\ co["cancel"].pc \in Undoing => Published(durable) /\ co["cancel"].mode.bound
    /\ co["cancel"].pc = "c_preview" /\ Published(durable) => Named(co["cancel"].mode)

\* Every copy of the job on its way to the disk is a published one.
Carrying  == SavePcs \cup {"r_source", "r_send", "r_readback"}
CopyOk(l) == l.pc \in Carrying => l.job.meta.phase # "none"
UpCopies  == \A w \in Coroutines : CopyOk(co[w])

UpDown == proc.up = "down" => \A w \in Coroutines : co[w].pc = "idle"

UpInv == UpTypes /\ UpLine /\ UpBound /\ UpWork /\ UpPoll /\ UpCancel /\ UpCopies /\ UpDown

-----------------------------------------------------------------------------
(* The upgrade: one turn *)

\* What the invariant sees of a coroutine.
Alike(k, l) == k.pc = l.pc /\ k.mode = l.mode /\ k.job = l.job /\ k.left = l.left

\* The coroutines of a turn leave the head of the line, and at most one of them joins its end.
LEMMA Turned ==
    ASSUME UpInv, NEW d \in Durables, NEW cs \in [Coroutines -> Locals], NEW s \in SUBSET Coroutines,
           NEW v \in Coroutines,
           \A u \in s : u = v \/ cs[u].pc \notin JournalPcs,
           \A u \in s : Waits(queue, u) => Head(queue) = u,
           \A u \in Coroutines \ s : cs[u].pc = co[u].pc,
           Turn(d, cs, s)
    PROVE  /\ durable' = d
           /\ co' \in [Coroutines -> Locals]
           /\ \A u \in Coroutines : Alike(co'[u], cs[u])
           /\ UpLine'
           /\ \A u, w \in Coroutines \ s : Ahead(queue, u, w) => Ahead(queue', u, w)
           /\ v \in s /\ cs[v].pc \in JournalPcs
                 => \A u \in Coroutines \ s : Waits(queue, u) => Ahead(queue', u, v)
<1> DEFINE calling == {w \in s : cs[w].pc \in JournalPcs}
           signal == cs["work"].pc # "idle"
           r == Rest(queue, s)
<1>1. /\ durable' = d
      /\ co' = [w \in Coroutines |-> IF w \in calling THEN [cs[w] EXCEPT !.sig = signal /\ w = "poll", !.refused = FALSE] ELSE cs[w]]
      /\ queue' = IF calling = {} THEN r ELSE Append(r, CHOOSE w \in calling : TRUE)
  BY DEF Turn, Rest
<1>2. signal \in BOOLEAN
  OBVIOUS
<1> HIDE DEF signal
<1>3. ASSUME NEW u \in Coroutines PROVE co'[u] \in Locals /\ Alike(co'[u], cs[u])
  <2>1. cs[u] \in Locals
    OBVIOUS
  <2>2. CASE u \in calling
    <3>1. co'[u] = [cs[u] EXCEPT !.sig = signal /\ u = "poll", !.refused = FALSE]
      BY <1>1, <2>2
    <3> QED
      BY <3>1, <2>1, <1>2 DEF Locals, Alike
  <2>3. CASE u \notin calling
    BY <1>1, <2>1, <2>3 DEF Alike
  <2> QED
    BY <2>2, <2>3
<1>4. co' \in [Coroutines -> Locals]
  BY <1>1, <1>3
<1>5. /\ Line(r)
      /\ \A u \in Coroutines : Waits(r, u) <=> Waits(queue, u) /\ u \notin s
      /\ \A u, w \in Coroutines \ s : Ahead(queue, u, w) => Ahead(r, u, w)
  BY LineShrinks DEF UpInv, UpLine
<1>6. \A u \in Coroutines : co'[u].pc = cs[u].pc
  BY <1>3 DEF Alike
<1>7. \A u \in Coroutines \ s : cs[u].pc \in JournalPcs <=> Waits(queue, u)
  BY DEF UpInv, UpLine
<1> HIDE DEF r
<1>8. CASE calling = {}
  <2>1. queue' = r
    BY <1>1, <1>8
  <2>2. \A u \in s : cs[u].pc \notin JournalPcs
    BY <1>8
  <2>3. UpLine'
    BY <2>1, <2>2, <1>5, <1>6, <1>7 DEF UpLine
  <2> QED
    BY <1>1, <1>3, <1>4, <1>5, <2>1, <2>2, <2>3
<1>9. CASE calling # {}
  <2>1. calling = {v} /\ v \in s /\ cs[v].pc \in JournalPcs
    BY <1>9
  <2>2. (CHOOSE w \in calling : TRUE) = v
    BY <2>1
  <2>3. queue' = Append(r, v)
    BY <1>1, <1>9, <2>2
  <2>4. ~Waits(r, v)
    BY <1>5, <2>1
  <2>5. /\ Line(queue')
        /\ \A u \in Coroutines : Waits(queue', u) <=> Waits(r, u) \/ u = v
        /\ \A u, w \in Coroutines : Ahead(r, u, w) => Ahead(queue', u, w)
        /\ \A u \in Coroutines : Waits(r, u) => Ahead(queue', u, v)
    BY <2>3, <2>4, <1>5, LineGrows
  <2>6. ASSUME NEW u \in Coroutines PROVE co'[u].pc \in JournalPcs <=> Waits(queue', u)
    <3>1. CASE u \in s
      BY <3>1, <2>1, <2>5, <1>5, <1>6
    <3>2. CASE u \notin s
      BY <3>2, <2>1, <2>5, <1>5, <1>6, <1>7
    <3> QED
      BY <3>1, <3>2
  <2>7. UpLine'
    BY <2>5, <2>6 DEF UpLine
  <2> QED
    BY <1>1, <1>3, <1>4, <1>5, <2>5, <2>7
<1> QED
  BY <1>8, <1>9

\* The records of a step: nothing is unpublished, and only the approval publishes.
Kept(d) ==
    /\ d \in Durables /\ Records(d)
    /\ Published(durable) => Published(d)
    /\ Published(d) => Published(durable) \/ co["work"].pc = "ap_save"
Leaves(w) == Waits(queue, w) => Head(queue) = w
\* The process of a step that neither starts nor ends one.
SameProcess == world' \in Worlds /\ proc' \in Processes /\ proc'.pid = proc.pid /\ proc'.up = proc.up /\ proc.up # "down"

\* A step of the work.
LEMMA WorkMoves ==
    ASSUME UpInv, SameProcess, NEW d, Kept(d), NEW l \in Locals, CopyOk(l), WorkFits(d, l, proc.pid),
           l.mode.bound => Published(d),
           l.pc = "ap_save" => co["poll"].pc # "p_reconcile",
           co["work"].pc # "idle" \/ co["cancel"].pc \in {"idle", "c_wait"},
           Leaves("work"),
           Turn(d, [co EXCEPT !["work"] = l], {"work"})
    PROVE  UpInv'
<1> DEFINE cs == [co EXCEPT !["work"] = l]
<1>1. cs \in [Coroutines -> Locals] /\ cs["work"] = l /\ cs["poll"] = co["poll"] /\ cs["cancel"] = co["cancel"]
      /\ (\A u \in Coroutines \ {"work"} : cs[u] = co[u])
  BY DEF UpInv, UpTypes, Coroutines
<1>2. Turn(d, cs, {"work"}) /\ d \in Durables
  BY DEF Kept
<1> HIDE DEF cs
<1>3. /\ durable' = d /\ co' \in [Coroutines -> Locals] /\ \A u \in Coroutines : Alike(co'[u], cs[u])
      /\ UpLine'
      /\ \A u, w \in Coroutines \ {"work"} : Ahead(queue, u, w) => Ahead(queue', u, w)
      /\ l.pc \in JournalPcs => \A u \in Coroutines \ {"work"} : Waits(queue, u) => Ahead(queue', u, "work")
  <2>1. "work" \in Coroutines /\ {"work"} \in SUBSET Coroutines
    BY DEF Coroutines
  <2>2. \A u \in {"work"} : Waits(queue, u) => Head(queue) = u
    BY DEF Leaves
  <2>3. \A u \in {"work"} : u = "work" \/ cs[u].pc \notin JournalPcs
    OBVIOUS
  <2>4. \A u \in Coroutines \ {"work"} : cs[u].pc = co[u].pc
    BY <1>1
  <2> QED
    BY <1>1, <1>2, <2>1, <2>2, <2>3, <2>4, Turned
<1>4. Alike(co'["work"], l) /\ Alike(co'["poll"], co["poll"]) /\ Alike(co'["cancel"], co["cancel"])
  BY <1>1, <1>3 DEF Coroutines
<1>5. UpTypes'
  BY <1>2, <1>3 DEF UpTypes, SameProcess
<1>6. UpBound'
  <2>1. \A w \in Coroutines : co'[w].mode.bound => Published(d)
    BY <1>4 DEF UpInv, UpBound, Kept, Alike, Coroutines
  <2> QED
    BY <2>1, <1>3 DEF UpBound, Kept
<1>7. UpWork'
  BY <1>3, <1>4 DEF UpWork, WorkFits, Alike, SameProcess
<1>8. co["work"].pc = "ap_save" => Waits(queue, "work") /\ ~Ahead(queue, "poll", "work")
  <2>1. HAVE co["work"].pc = "ap_save"
  <2>2. Waits(queue, "work") /\ Line(queue)
    BY <2>1 DEF UpInv, UpLine, JournalPcs, SavePcs, Coroutines
  <2> QED
    BY <2>2, LineOrder DEF Leaves
<1>9. co["work"].pc = "ap_read" => ~Ahead(queue, "poll", "work")
  <2>1. HAVE co["work"].pc = "ap_read"
  <2>2. Waits(queue, "work") /\ Line(queue)
    BY <2>1 DEF UpInv, UpLine, JournalPcs, SavePcs, Coroutines
  <2> QED
    BY <2>2, LineOrder DEF Leaves
<1>10. UpPoll'
  <2>1. co["poll"].pc \in {"p_lease", "p_reconcile"} /\ l.pc \in {"ap_save", "ap_read"} => Ahead(queue', "poll", "work")
    <3>1. co["poll"].pc \in {"p_lease", "p_reconcile"} => Waits(queue, "poll")
      BY DEF UpInv, UpLine, JournalPcs, SavePcs, Coroutines
    <3>2. l.pc \in {"ap_save", "ap_read"} => l.pc \in JournalPcs
      BY DEF JournalPcs, SavePcs
    <3> QED
      BY <3>1, <3>2, <1>3 DEF Coroutines
  <2>2. co["poll"].pc = "p_lease" /\ Published(d) => Named(co["poll"].mode)
    BY <1>8 DEF UpInv, UpPoll, Kept
  <2>3. co["poll"].pc \in {"p_job", "p_save"} => Published(d)
    BY DEF UpInv, UpPoll, Kept
  <2>4. co["poll"].pc \in PollPcs
    BY DEF UpInv, UpPoll
  <2>5. co'["poll"].pc = co["poll"].pc /\ co'["poll"].mode = co["poll"].mode /\ co'["work"].pc = l.pc
    BY <1>4 DEF Alike
  <2> QED
    BY <1>3, <2>1, <2>2, <2>3, <2>4, <2>5 DEF UpPoll
<1>11. UpCancel'
  <2>1. co["cancel"].pc \in CancelPcs
    BY DEF UpInv, UpCancel
  <2>2. co["cancel"].pc \in {"idle", "c_wait"}
    BY DEF UpInv, UpCancel
  <2>3. co'["cancel"].pc = co["cancel"].pc
    BY <1>4 DEF Alike
  <2> QED
    BY <2>1, <2>2, <2>3 DEF UpCancel, Undoing
<1>12. UpCopies'
  BY <1>4 DEF UpInv, UpCopies, CopyOk, Alike, Coroutines
<1>13. UpDown'
  BY DEF UpDown, SameProcess
<1> QED
  BY <1>3, <1>5, <1>6, <1>7, <1>10, <1>11, <1>12, <1>13 DEF UpInv

\* A step of the poll: it publishes nothing, and leaves the work its intent and its lease.
LEMMA PollMoves ==
    ASSUME UpInv, SameProcess, NEW d \in Durables, Records(d), Published(d) <=> Published(durable),
           co["work"].pc = "ap_save" => d.mode.intent /\ d.lease = durable.lease,
           NEW cs \in [Coroutines -> Locals], Alike(cs["work"], co["work"]), Alike(cs["cancel"], co["cancel"]),
           CopyOk(cs["poll"]), cs["poll"].mode.bound => Published(d),
           cs["poll"].pc \in PollPcs,
           cs["poll"].pc \in {"p_job", "p_save"} => Published(d),
           cs["poll"].pc = "p_lease" /\ (Published(d) \/ co["work"].pc = "ap_save") => Named(cs["poll"].mode),
           cs["poll"].pc = "p_reconcile" => d.mode.intent,
           Leaves("poll"),
           Turn(d, cs, {"poll"})
    PROVE  UpInv'
<1> DEFINE l == cs["poll"]
<1> HIDE DEF l
<1>1. \A u \in Coroutines \ {"poll"} : Alike(cs[u], co[u])
  BY DEF Coroutines
<1>2. /\ durable' = d /\ co' \in [Coroutines -> Locals] /\ \A u \in Coroutines : Alike(co'[u], cs[u])
      /\ UpLine'
      /\ l.pc \in JournalPcs => \A u \in Coroutines \ {"poll"} : Waits(queue, u) => Ahead(queue', u, "poll")
  <2>1. "poll" \in Coroutines /\ {"poll"} \in SUBSET Coroutines
    BY DEF Coroutines
  <2>2. \A u \in {"poll"} : Waits(queue, u) => Head(queue) = u
    BY DEF Leaves
  <2>3. \A u \in {"poll"} : u = "poll" \/ cs[u].pc \notin JournalPcs
    OBVIOUS
  <2>4. \A u \in Coroutines \ {"poll"} : cs[u].pc = co[u].pc
    BY <1>1 DEF Alike
  <2> QED
    BY <1>1, <2>1, <2>2, <2>3, <2>4, Turned DEF l
<1>3. Alike(co'["work"], co["work"]) /\ Alike(co'["poll"], l) /\ Alike(co'["cancel"], co["cancel"])
  BY <1>2 DEF Coroutines, Alike, l
<1>4. UpTypes'
  BY <1>2 DEF UpTypes, SameProcess
<1>5. UpBound'
  <2>1. \A w \in Coroutines : co'[w].mode.bound => Published(d)
    BY <1>3 DEF UpInv, UpBound, Alike, Coroutines, l
  <2> QED
    BY <2>1, <1>2 DEF UpBound
<1>6. UpWork'
  <2>1. WorkFits(durable, co["work"], proc.pid)
    BY DEF UpInv, UpWork
  <2>2. WorkFits(d, co["work"], proc.pid)
    BY <2>1 DEF WorkFits
  <2>3. proc'.pid = proc.pid
    BY DEF SameProcess
  <2> QED
    BY <2>2, <2>3, <1>2, <1>3 DEF UpWork, WorkFits, Alike
<1>7. UpPoll'
  <2>1. co'["poll"].pc = l.pc /\ co'["poll"].mode = l.mode /\ co'["work"].pc = co["work"].pc
    BY <1>3 DEF Alike
  <2>2. l.pc = "p_reconcile" /\ co["work"].pc = "ap_save" => Ahead(queue', "work", "poll")
    BY <1>2 DEF UpInv, UpLine, JournalPcs, SavePcs, Coroutines
  <2>3. /\ l.pc \in PollPcs
        /\ l.pc \in {"p_job", "p_save"} => Published(d)
        /\ l.pc = "p_lease" /\ (Published(d) \/ co["work"].pc = "ap_save") => Named(l.mode)
        /\ l.pc = "p_reconcile" => d.mode.intent
    BY DEF l
  <2> QED
    BY <1>2, <2>1, <2>2, <2>3 DEF UpPoll
<1>8. UpCancel'
  <2>1. /\ co'["cancel"].pc = co["cancel"].pc /\ co'["cancel"].mode = co["cancel"].mode
        /\ co'["work"].pc = co["work"].pc
    BY <1>3 DEF Alike
  <2>2. UpCancel
    BY DEF UpInv
  <2> QED
    BY <1>2, <2>1, <2>2 DEF UpCancel
<1>9. UpCopies'
  BY <1>3 DEF UpInv, UpCopies, CopyOk, Alike, Coroutines, l
<1>10. UpDown'
  BY DEF UpDown, SameProcess
<1> QED
  BY <1>2, <1>4, <1>5, <1>6, <1>7, <1>8, <1>9, <1>10 DEF UpInv

\* A step of the cancellation.
LEMMA CancelMoves ==
    ASSUME UpInv, SameProcess, NEW d, Kept(d),
           co["work"].pc = "ap_save" => d.mode.intent /\ d.lease = durable.lease,
           co["work"].pc = "idle" \/ d.mode.intent = durable.mode.intent,
           NEW l \in Locals, CopyOk(l), l.mode.bound => Published(d),
           l.pc \in CancelPcs,
           l.pc \notin {"idle", "c_wait"} => co["work"].pc = "idle",
           l.pc \in Undoing => Published(d) /\ l.mode.bound,
           l.pc = "c_preview" /\ Published(d) => Named(l.mode),
           Leaves("cancel"),
           Turn(d, [co EXCEPT !["cancel"] = l], {"cancel"})
    PROVE  UpInv'
<1> DEFINE cs == [co EXCEPT !["cancel"] = l]
<1>1. cs \in [Coroutines -> Locals] /\ cs["cancel"] = l /\ cs["poll"] = co["poll"] /\ cs["work"] = co["work"]
      /\ (\A u \in Coroutines \ {"cancel"} : cs[u] = co[u])
  BY DEF UpInv, UpTypes, Coroutines
<1>2. Turn(d, cs, {"cancel"}) /\ d \in Durables
  BY DEF Kept
<1> HIDE DEF cs
<1>3. /\ durable' = d /\ co' \in [Coroutines -> Locals] /\ \A u \in Coroutines : Alike(co'[u], cs[u])
      /\ UpLine'
      /\ \A u, w \in Coroutines \ {"cancel"} : Ahead(queue, u, w) => Ahead(queue', u, w)
  <2>1. "cancel" \in Coroutines /\ {"cancel"} \in SUBSET Coroutines
    BY DEF Coroutines
  <2>2. \A u \in {"cancel"} : Waits(queue, u) => Head(queue) = u
    BY DEF Leaves
  <2>3. \A u \in {"cancel"} : u = "cancel" \/ cs[u].pc \notin JournalPcs
    OBVIOUS
  <2>4. \A u \in Coroutines \ {"cancel"} : cs[u].pc = co[u].pc
    BY <1>1
  <2> QED
    BY <1>1, <1>2, <2>1, <2>2, <2>3, <2>4, Turned
<1>4. Alike(co'["cancel"], l) /\ Alike(co'["poll"], co["poll"]) /\ Alike(co'["work"], co["work"])
  BY <1>1, <1>3 DEF Coroutines
<1>5. UpTypes'
  BY <1>2, <1>3 DEF UpTypes, SameProcess
<1>6. UpBound'
  <2>1. \A w \in Coroutines : co'[w].mode.bound => Published(d)
    BY <1>4 DEF UpInv, UpBound, Kept, Alike, Coroutines
  <2> QED
    BY <2>1, <1>3 DEF UpBound, Kept
<1>7. UpWork'
  <2>1. WorkFits(durable, co["work"], proc.pid)
    BY DEF UpInv, UpWork
  <2>2. WorkFits(d, co["work"], proc.pid)
    BY <2>1 DEF WorkFits, Kept
  <2>3. proc'.pid = proc.pid
    BY DEF SameProcess
  <2> QED
    BY <2>2, <2>3, <1>3, <1>4 DEF UpWork, WorkFits, Alike
<1>8. UpPoll'
  <2>1. co'["poll"].pc = co["poll"].pc /\ co'["poll"].mode = co["poll"].mode /\ co'["work"].pc = co["work"].pc
    BY <1>4 DEF Alike
  <2>2. /\ Ahead(queue, "poll", "work") => Ahead(queue', "poll", "work")
        /\ Ahead(queue, "work", "poll") => Ahead(queue', "work", "poll")
    BY <1>3 DEF Coroutines
  <2>3. UpPoll
    BY DEF UpInv
  <2> QED
    BY <1>3, <2>1, <2>2, <2>3 DEF UpPoll, Kept
<1>9. UpCancel'
  <2>1. co'["cancel"].pc = l.pc /\ co'["cancel"].mode = l.mode /\ co'["work"].pc = co["work"].pc
    BY <1>4 DEF Alike
  <2> QED
    BY <1>3, <2>1 DEF UpCancel
<1>10. UpCopies'
  BY <1>4 DEF UpInv, UpCopies, CopyOk, Alike, Coroutines
<1>11. UpDown'
  BY DEF UpDown, SameProcess
<1> QED
  BY <1>3, <1>5, <1>6, <1>7, <1>8, <1>9, <1>10, <1>11 DEF UpInv

\* The poll hands over to the work.
LEMMA Kicked ==
    ASSUME UpInv, SameProcess, NEW d \in Durables, Records(d), Published(durable) => Published(d),
           NEW a \in Locals, a.pc = "idle", ~a.mode.bound,
           NEW l \in Locals, CopyOk(l), WorkFits(d, l, proc.pid), l.mode.bound => Published(d),
           co["work"].pc = "idle", co["cancel"].pc = "idle",
           Leaves("poll"),
           Turn(d, [co EXCEPT !["poll"] = a, !["work"] = l], {"poll", "work"})
    PROVE  UpInv'
<1> DEFINE cs == [co EXCEPT !["poll"] = a, !["work"] = l]
<1>1. cs \in [Coroutines -> Locals] /\ cs["work"] = l /\ cs["poll"] = a /\ cs["cancel"] = co["cancel"]
      /\ (\A u \in Coroutines \ {"poll", "work"} : cs[u] = co[u])
  BY DEF UpInv, UpTypes, Coroutines
<1>2. Turn(d, cs, {"poll", "work"})
  OBVIOUS
<1> HIDE DEF cs
<1>3. /\ durable' = d /\ co' \in [Coroutines -> Locals] /\ \A u \in Coroutines : Alike(co'[u], cs[u])
      /\ UpLine'
  <2>1. "work" \in Coroutines /\ {"poll", "work"} \in SUBSET Coroutines
    BY DEF Coroutines
  <2>2. \A u \in {"poll", "work"} : Waits(queue, u) => Head(queue) = u
    BY DEF Leaves, UpInv, UpLine, JournalPcs, SavePcs, Coroutines
  <2>3. \A u \in {"poll", "work"} : u = "work" \/ cs[u].pc \notin JournalPcs
    BY <1>1 DEF JournalPcs, SavePcs
  <2>4. \A u \in Coroutines \ {"poll", "work"} : cs[u].pc = co[u].pc
    BY <1>1
  <2> QED
    BY <1>1, <1>2, <2>1, <2>2, <2>3, <2>4, Turned
<1>4. Alike(co'["work"], l) /\ Alike(co'["poll"], a) /\ Alike(co'["cancel"], co["cancel"])
  BY <1>1, <1>3 DEF Coroutines
<1>5. UpTypes'
  BY <1>3 DEF UpTypes, SameProcess
<1>6. UpBound'
  <2>1. \A w \in Coroutines : co'[w].mode.bound => Published(d)
    BY <1>4 DEF UpInv, UpBound, Alike, Coroutines
  <2> QED
    BY <2>1, <1>3 DEF UpBound
<1>7. UpWork'
  BY <1>3, <1>4 DEF UpWork, WorkFits, Alike, SameProcess
<1>8. co'["poll"].pc = "idle" /\ co'["cancel"].pc = "idle"
  BY <1>4 DEF Alike
<1>9. UpPoll'
  BY <1>8 DEF UpPoll, PollPcs
<1>10. UpCancel'
  BY <1>8 DEF UpCancel, CancelPcs, Undoing
<1>11. UpCopies'
  BY <1>4, <1>8 DEF UpInv, UpCopies, CopyOk, Alike, Coroutines, Carrying, SavePcs
<1>12. UpDown'
  BY DEF UpDown, SameProcess
<1> QED
  BY <1>3, <1>5, <1>6, <1>7, <1>9, <1>10, <1>11, <1>12 DEF UpInv

-----------------------------------------------------------------------------
(* The upgrade: jobs and locals *)

\* What a job becomes.
LEMMA JobFacts ==
    ASSUME NEW j \in Jobs
    PROVE  /\ \A p \in Phases : Phase(j, p) \in Jobs /\ Phase(j, p).meta.phase = p
           /\ \A t \in Transitions : Transition(j, t) \in Jobs /\ Transition(j, t).meta.phase = j.meta.phase
           /\ \A b \in SUBSET Ops, s \in Outcomes :
                 Mark(j, b, s) \in Jobs /\ Mark(j, b, s).meta = j.meta
           /\ \A b \in SUBSET Ops : Intents(j, b) \in Jobs /\ Intents(j, b).meta.phase = j.meta.phase
           /\ \A t \in Nat : [j EXCEPT !.meta.token = t] \in Jobs /\ [j EXCEPT !.meta.token = t].meta.phase = j.meta.phase
                             /\ [j EXCEPT !.meta.token = t].meta.approval = j.meta.approval
<1>1. j.meta \in Metas /\ j.out \in Receipts /\ j = [meta |-> j.meta, out |-> j.out]
  BY DEF Jobs
<1>2. ASSUME NEW m \in Metas PROVE [j EXCEPT !.meta = m] \in Jobs /\ [j EXCEPT !.meta = m].meta = m
  BY <1>2 DEF Jobs
<1>3. ASSUME NEW p \in Phases PROVE Phase(j, p) \in Jobs /\ Phase(j, p).meta.phase = p
  <2> DEFINE m == [j.meta EXCEPT !.phase = p]
  <2>1. m \in Metas /\ m.phase = p
    BY <1>1 DEF Metas
  <2>2. Phase(j, p) = [j EXCEPT !.meta = m]
    BY DEF Phase
  <2> QED
    BY <1>2, <2>1, <2>2
<1>4. ASSUME NEW t \in Transitions PROVE Transition(j, t) \in Jobs /\ Transition(j, t).meta.phase = j.meta.phase
  <2> DEFINE m == [j.meta EXCEPT !.transition = t]
  <2>1. m \in Metas /\ m.phase = j.meta.phase
    BY <1>1 DEF Metas
  <2>2. Transition(j, t) = [j EXCEPT !.meta = m]
    BY DEF Transition
  <2> QED
    BY <1>2, <2>1, <2>2
<1>5. ASSUME NEW b \in SUBSET Ops, NEW s \in Outcomes PROVE Mark(j, b, s) \in Jobs /\ Mark(j, b, s).meta = j.meta
  <2> DEFINE f == [o \in Ops |-> IF o \in b THEN s ELSE j.out[o]]
  <2>1. f \in Receipts
    BY <1>1, <1>5 DEF Receipts
  <2>2. Mark(j, b, s) = [j EXCEPT !.out = f]
    BY DEF Mark, Jobs
  <2> HIDE DEF f
  <2> QED
    BY <2>1, <2>2 DEF Jobs
<1>6. ASSUME NEW b \in SUBSET Ops PROVE Intents(j, b) \in Jobs /\ Intents(j, b).meta.phase = j.meta.phase
  <2> DEFINE k == Mark(j, b, "intent")
             m == [k.meta EXCEPT !.possibleWrite = TRUE]
  <2>1. k \in Jobs /\ k.meta = j.meta
    BY <1>5, <1>6 DEF Outcomes
  <2>2. Intents(j, b) = [k EXCEPT !.meta = m]
    BY DEF Intents
  <2> HIDE DEF k
  <2>3. m \in Metas /\ m.phase = j.meta.phase
    BY <1>1, <2>1 DEF Metas
  <2> HIDE DEF m
  <2> QED
    BY <2>1, <2>2, <2>3 DEF Jobs
<1>7. ASSUME NEW t \in Nat
      PROVE  [j EXCEPT !.meta.token = t] \in Jobs /\ [j EXCEPT !.meta.token = t].meta.phase = j.meta.phase
             /\ [j EXCEPT !.meta.token = t].meta.approval = j.meta.approval
  <2> DEFINE m == [j.meta EXCEPT !.token = t]
  <2>1. m \in Metas /\ m.phase = j.meta.phase /\ m.approval = j.meta.approval
    BY <1>1 DEF Metas
  <2>2. [j EXCEPT !.meta.token = t] = [j EXCEPT !.meta = m]
    OBVIOUS
  <2> QED
    BY <1>2, <2>1, <2>2
<1> QED
  BY <1>3, <1>4, <1>5, <1>6, <1>7

\* The empty records.
LEMMA EmptyFacts ==
    /\ NoOutcome \in Receipts /\ NoMeta \in Metas /\ NoJob \in Jobs
    /\ \A b \in BOOLEAN : EnteredMode(b) \in Modes /\ ~EnteredMode(b).bound /\ ~EnteredMode(b).intent
<1>1. 1 \in 1..MaxApprovals
  BY BoundsAreNats
<1>2. NoOutcome \in Receipts
  BY DEF NoOutcome, Receipts, Outcomes
<1>3. NoMeta \in Metas
  BY <1>1 DEF NoMeta, Metas, Phases, Transitions
<1>4. NoJob \in Jobs
  BY <1>2, <1>3 DEF NoJob, Jobs
<1>5. \A b \in BOOLEAN : EnteredMode(b) \in Modes /\ ~EnteredMode(b).bound /\ ~EnteredMode(b).intent
  BY DEF EnteredMode, Modes, Stages
<1> QED
  BY <1>2, <1>3, <1>4, <1>5

\* A coroutine that has nothing to do, or waits for its first answer.
LEMMA IdleFacts ==
    ASSUME NEW m \in Modes, NEW place \in Pcs
    PROVE  LET l == [Idle(m) EXCEPT !.pc = place]
           IN l \in Locals /\ l.pc = place /\ l.mode = m /\ l.job = NoJob /\ l.left = {}
              /\ Idle(m) \in Locals /\ Idle(m).pc = "idle" /\ Idle(m).mode = m
<1> DEFINE l == [Idle(m) EXCEPT !.pc = place]
<1>1. NoJob \in Jobs
  BY EmptyFacts
<1>2. Idle(m) \in Locals /\ Idle(m).pc = "idle" /\ Idle(m).mode = m /\ Idle(m).job = NoJob /\ Idle(m).left = {}
  BY <1>1 DEF Idle, Locals, Pcs, WorkPcs
<1>3. l \in Locals /\ l.pc = place /\ l.mode = m /\ l.job = NoJob /\ l.left = {}
  BY <1>2 DEF Locals
<1> QED
  BY <1>2, <1>3

\* A coroutine that only just left its place holds nothing.
LEMMA AsleepFacts ==
    ASSUME NEW place \in Pcs
    PROVE  LET l == [Asleep EXCEPT !.pc = place]
           IN l \in Locals /\ l.pc = place /\ ~l.mode.bound /\ l.left = {}
              /\ Asleep \in Locals /\ Asleep.pc = "idle" /\ ~Asleep.mode.bound
BY IdleFacts, EmptyFacts DEF Asleep

\* A coroutine that goes on with a job.
LEMMA LocalFacts ==
    ASSUME NEW k \in Locals, NEW place \in Pcs, NEW j \in Jobs
    PROVE  LET l == [k EXCEPT !.pc = place, !.job = j]
           IN l \in Locals /\ l.pc = place /\ l.job = j /\ l.mode = k.mode /\ l.left = k.left
BY DEF Locals

-----------------------------------------------------------------------------
(* The upgrade: steps of the work *)

\* Who steps is at the head of the line or not in it, and the process is up.
LEMMA Stepping ==
    ASSUME UpInv, NEW w \in Coroutines
    PROVE  /\ \A place : Served(w, place) => Leaves(w) /\ co[w].pc = place
           /\ Rejected(w) => Leaves(w) /\ co[w].pc \in JournalPcs /\ Waits(queue, w)
           /\ co[w].pc \notin JournalPcs => Leaves(w)
           /\ co[w].pc # "idle" => proc.up # "down"
<1>1. \A place : Served(w, place) => Leaves(w) /\ co[w].pc = place
  BY DEF Served, Leaves
<1>2. Rejected(w) => Leaves(w) /\ co[w].pc \in JournalPcs /\ Waits(queue, w)
  <2>1. HAVE Rejected(w)
  <2>2. queue \in Seq(Coroutines) /\ queue # <<>> /\ Head(queue) = w
    BY <2>1 DEF UpInv, UpLine, Line, Rejected
  <2>3. 1 \in 1..Len(queue) /\ queue[1] = w
    BY <2>2
  <2>4. Waits(queue, w)
    BY <2>3 DEF Waits
  <2> QED
    BY <2>2, <2>4 DEF UpInv, UpLine, Leaves
<1>3. co[w].pc \notin JournalPcs => Leaves(w)
  BY DEF UpInv, UpLine, Leaves
<1>4. co[w].pc # "idle" => proc.up # "down"
  BY DEF UpInv, UpDown
<1> QED
  BY <1>1, <1>2, <1>3, <1>4

Tame(d) == d \in Durables /\ SameApproval(durable, d)

\* Records that leave the approval alone may be the records of any step.
LEMMA TameIsKept ==
    ASSUME UpInv, NEW d, Tame(d)
    PROVE  Kept(d)
BY DEF Tame, SameApproval, Kept, UpInv, UpBound, Records, Published, Named

\* The records before the step leave the approval alone, and so does what is done on top of such records.
LEMMA TameFacts ==
    ASSUME UpInv
    PROVE  /\ Tame(durable)
           /\ \A d, e : Tame(d) /\ e \in Durables /\ SameApproval(d, e) => Tame(e)
           /\ \A d : Tame(d) => (Published(d) <=> Published(durable))
<1>1. durable \in Durables
  BY DEF UpInv, UpTypes
<1>2. SameApproval(durable, durable)
  BY DEF SameApproval
<1>3. \A d, e : Tame(d) /\ e \in Durables /\ SameApproval(d, e) => Tame(e)
  BY DEF SameApproval, Tame
<1>4. \A d : Tame(d) => (Published(d) <=> Published(durable))
  BY DEF Tame, SameApproval, Published
<1> QED
  BY <1>1, <1>2, <1>3, <1>4 DEF Tame

\* Files are moved without touching the records.
LEMMA FileFacts ==
    ASSUME NEW d \in Durables
    PROVE  /\ \A t \in {"old", "gone", "new"} :
                 [d EXCEPT !.target = t] \in Durables /\ SameApproval(d, [d EXCEPT !.target = t])
           /\ \A r \in {"old", "new"} :
                 [d EXCEPT !.registry = r] \in Durables /\ SameApproval(d, [d EXCEPT !.registry = r])
<1>1. ASSUME NEW t \in {"old", "gone", "new"}
      PROVE  [d EXCEPT !.target = t] \in Durables /\ SameApproval(d, [d EXCEPT !.target = t])
  BY DEF Durables, SameApproval
<1>2. ASSUME NEW r \in {"old", "new"}
      PROVE  [d EXCEPT !.registry = r] \in Durables /\ SameApproval(d, [d EXCEPT !.registry = r])
  BY DEF Durables, SameApproval
<1> QED
  BY <1>1, <1>2

\* The work's copy, and its mode.
LEMMA WorkTypes ==
    ASSUME UpInv
    PROVE  /\ durable \in Durables /\ durable.mode \in Modes /\ durable.job \in Metas
           /\ proc \in Processes /\ world \in Worlds
           /\ \A w \in Coroutines : co[w] \in Locals /\ co[w].job \in Jobs /\ co[w].mode \in Modes
                                    /\ (co[w].mode.bound => Published(durable))
                                    /\ (co[w].pc \in Carrying => co[w].job.meta.phase # "none")
           /\ "work" \in Coroutines /\ "poll" \in Coroutines /\ "cancel" \in Coroutines
           /\ Wj \in Jobs /\ co["work"].left \subseteq Ops /\ co["work"].batch \subseteq Ops
<1>1. \A w \in Coroutines : co[w] \in Locals
  BY DEF UpInv, UpTypes
<1>2. \A w \in Coroutines : co[w].job \in Jobs /\ co[w].mode \in Modes /\ co[w].left \subseteq Ops /\ co[w].batch \subseteq Ops
  BY <1>1 DEF Locals
<1>3. "work" \in Coroutines /\ "poll" \in Coroutines /\ "cancel" \in Coroutines
  BY DEF Coroutines
<1>4. durable \in Durables /\ proc \in Processes /\ world \in Worlds
  BY DEF UpInv, UpTypes
<1>5. durable.mode \in Modes /\ durable.job \in Metas
  BY <1>4 DEF Durables
<1>6. \A w \in Coroutines : (co[w].mode.bound => Published(durable)) /\ (co[w].pc \in Carrying => co[w].job.meta.phase # "none")
  BY DEF UpInv, UpBound, UpCopies, CopyOk
<1> QED
  BY <1>1, <1>2, <1>3, <1>4, <1>5, <1>6 DEF Wj

\* The work goes on with a job, or waits for the network with one.
GoesOn(l, place, j, left) == l \in Locals /\ l.pc = place /\ l.job = j /\ l.mode = co["work"].mode /\ l.left = left

\* Every way the work goes on keeps its mode.
LEMMA ToFacts ==
    ASSUME UpInv, NEW place \in Pcs, NEW j \in Jobs
    PROVE  /\ GoesOn(To(place, j), place, j, co["work"].left)
           /\ GoesOn(Snapshot(place, j), place, j, co["work"].left)
           /\ \A b \in SUBSET Ops : GoesOn([To(place, j) EXCEPT !.left = b], place, j, b)
           /\ \A b \in SUBSET Ops : GoesOn([To(place, j) EXCEPT !.batch = b], place, j, co["work"].left)
<1> DEFINE f == proc.authority /\ proc.configured
<1>1. co["work"] \in Locals /\ {} \in SUBSET Ops
  BY WorkTypes
<1>2. f \in BOOLEAN
  OBVIOUS
<1>3. Snapshot(place, j) = [co["work"] EXCEPT !.pc = place, !.job = j, !.fresh = f]
  BY DEF Snapshot
<1> HIDE DEF f
<1>4. GoesOn(To(place, j), place, j, co["work"].left)
  BY <1>1 DEF To, GoesOn, Locals
<1>5. GoesOn(Snapshot(place, j), place, j, co["work"].left)
  BY <1>1, <1>2, <1>3 DEF GoesOn, Locals
<1>6. ASSUME NEW b \in SUBSET Ops PROVE GoesOn([To(place, j) EXCEPT !.left = b], place, j, b)
  BY <1>1 DEF To, GoesOn, Locals
<1>7. ASSUME NEW b \in SUBSET Ops PROVE GoesOn([To(place, j) EXCEPT !.batch = b], place, j, co["work"].left)
  BY <1>1 DEF To, GoesOn, Locals
<1> QED
  BY <1>4, <1>5, <1>6, <1>7

\* A step of the work that publishes nothing it did not read keeps the invariant.
LEMMA StepFits ==
    ASSUME UpInv, co["work"].pc # "idle", Leaves("work"), NEW d, Kept(d), NEW l \in Locals, CopyOk(l),
           WorkFits(d, l, proc.pid), l.mode.bound => Published(d),
           l.pc = "ap_save" => co["poll"].pc # "p_reconcile",
           Step(d, l)
    PROVE  UpInv'
<1>1. SameProcess
  BY Stepping DEF Step, SameProcess, UpInv, UpTypes, Coroutines
<1>2. Turn(d, [co EXCEPT !["work"] = l], {"work"})
  BY DEF Step
<1> QED
  BY <1>1, <1>2, WorkMoves

\* The work ends: in recovery, or otherwise.
LEMMA WorkEnds ==
    ASSUME UpInv, SameProcess, co["work"].pc # "idle", Leaves("work"), NEW d, Kept(d),
           Turn(d, [co EXCEPT !["work"] = Asleep], {"work"})
    PROVE  UpInv'
<1>1. Asleep \in Locals /\ Asleep.pc = "idle" /\ ~Asleep.mode.bound
  BY AsleepFacts DEF Pcs, WorkPcs
<1>2. CopyOk(Asleep)
  BY <1>1 DEF CopyOk, Carrying, SavePcs
<1>3. WorkFits(d, Asleep, proc.pid)
  BY <1>1 DEF WorkFits, WorkPcs, Executing
<1> QED
  BY <1>1, <1>2, <1>3, WorkMoves

\* Work that fails before its job was published ends, and the invariant holds.
LEMMA WorkFailsFits ==
    ASSUME UpInv, co["work"].pc # "idle", Leaves("work"), NEW d, Kept(d), WorkFails(d)
    PROVE  UpInv'
<1>1. SameProcess
  <2>1. proc \in Processes /\ proc' = [proc EXCEPT !.aborted = FALSE] /\ world' = world /\ world \in Worlds
    BY DEF UpInv, UpTypes, WorkFails
  <2>2. proc' \in Processes /\ proc'.pid = proc.pid /\ proc'.up = proc.up
    BY <2>1 DEF Processes
  <2> QED
    BY <2>1, <2>2, Stepping DEF SameProcess, Coroutines
<1>2. Kept(RecoveryRequired(d))
  <2>1. RecoveryRequired(d) \in Durables /\ SameApproval(d, RecoveryRequired(d))
    BY RecoveryFacts DEF Kept
  <2> QED
    BY <2>1 DEF Kept, SameApproval, Records, Published, Named
<1>3. Turn(RecoveryRequired(d), [co EXCEPT !["work"] = Asleep], {"work"})
  BY DEF WorkFails
<1> QED
  BY <1>1, <1>2, <1>3, WorkEnds

\* A step while a published job is executed.
LEMMA ExecStep ==
    ASSUME UpInv, co["work"].pc \in Executing \cup {"ra_read", "rs_read"}, Leaves("work"), NEW d, Tame(d),
           NEW l \in Locals, l.pc \in Executing, CopyOk(l), l.mode = co["work"].mode,
           l.pc = "rs_save" => l.mode.bound,
           l.pc = "ra_snapshot" => l.job.meta.approval # MaxApprovals,
           l.pc \in {"r_loop", "r_source"} => l.left # {},
           Step(d, l)
    PROVE  UpInv'
<1>1. Published(durable) /\ co["work"].pc # "idle"
  BY DEF UpInv, UpWork, WorkFits, Executing
<1>2. Published(d) /\ Kept(d)
  BY <1>1, TameIsKept, TameFacts
<1>3. WorkFits(d, l, proc.pid)
  BY <1>2 DEF WorkFits, WorkPcs, Executing
<1>4. l.pc # "ap_save"
  BY DEF Executing
<1> QED
  BY <1>1, <1>2, <1>3, <1>4, StepFits

\* Work that fails with its job published goes to record the failure.
LEMMA FailFits ==
    ASSUME UpInv, co["work"].pc \in Executing, Leaves("work"), NEW d, Tame(d), Fail(d)
    PROVE  UpInv'
<1>1. co["work"].pc # "idle" /\ Kept(d)
  BY TameIsKept DEF Executing
<1>2. CASE WorkFails(d)
  BY <1>1, <1>2, WorkFailsFits
<1>3. CASE Step(d, To("f_read", Wj))
  <2> DEFINE l == To("f_read", Wj)
  <2>0. "f_read" \in Pcs /\ Wj \in Jobs
    BY WorkTypes DEF Pcs, WorkPcs, Executing
  <2>1. l \in Locals /\ l.pc = "f_read" /\ l.mode = co["work"].mode
    BY <2>0, ToFacts DEF GoesOn
  <2>2. CopyOk(l) /\ l.pc \in Executing
    BY <2>1 DEF CopyOk, Carrying, SavePcs, Executing
  <2> HIDE DEF l
  <2> QED
    BY <1>3, <2>1, <2>2, ExecStep DEF l
<1> QED
  BY <1>2, <1>3 DEF Fail

\* What a command starts with.
Starts(d, e, l) ==
    /\ e \in Durables /\ SameApproval(d, e)
    /\ l \in Locals /\ CopyOk(l) /\ WorkFits(e, l, proc.pid) /\ (l.mode.bound => Published(e)) /\ l.pc # "ap_save"
WorkOps == {"none", "plan", "approve", "resume"}
Openings == {"w_reconcile", "pl_read", "ap_read", "ra_read", "rs_read"}

\* What a command starts is work that has read the mode.
LEMMA StartedFacts ==
    ASSUME NEW d \in Durables, Records(d), NEW op \in WorkOps, NEW place \in Openings,
           place \in {"ra_read", "rs_read"} => d.mode.bound
    PROVE  Starts(d, Started(op, d, place).d, Started(op, d, place).w)
<1> DEFINE l == [Asleep EXCEPT !.op = op, !.pc = place, !.mode = d.mode]
<1>1. Started(op, d, place).d = d /\ Started(op, d, place).w = l
  BY DEF Started
<1>2. Asleep \in Locals /\ d.mode \in Modes
  BY AsleepFacts DEF Pcs, WorkPcs, Durables
<1>3. l \in Locals /\ l.pc = place /\ l.mode = d.mode
  BY <1>2 DEF Locals, Pcs, WorkPcs, Reviewing, Openings, WorkOps
<1> HIDE DEF l
<1>4. CopyOk(l) /\ l.pc # "ap_save"
  BY <1>3 DEF CopyOk, Carrying, SavePcs, Openings
<1>5. WorkFits(d, l, proc.pid)
  BY <1>3 DEF WorkFits, Records, Named, WorkPcs, Reviewing, Executing, Openings
<1>6. SameApproval(d, d)
  BY DEF SameApproval
<1> QED
  BY <1>1, <1>3, <1>4, <1>5, <1>6 DEF Starts, Records

\* A refused command leaves the records and the work alone.
LEMMA RefusalFacts ==
    ASSUME NEW d \in Durables
    PROVE  Starts(d, Refusal(d).d, Refusal(d).w)
<1>1. Asleep \in Locals /\ Asleep.pc = "idle" /\ ~Asleep.mode.bound
  BY AsleepFacts DEF Pcs, WorkPcs
<1>2. CopyOk(Asleep) /\ WorkFits(RecoveryRequired(d), Asleep, proc.pid)
  BY <1>1 DEF CopyOk, Carrying, SavePcs, WorkFits, WorkPcs, Executing
<1>3. Refusal(d).d = RecoveryRequired(d) /\ Refusal(d).w = Asleep
  BY DEF Refusal
<1> QED
  BY <1>1, <1>2, <1>3, RecoveryFacts DEF Starts

\* A command that begins an operation starts work the invariant allows.
LEMMA BeginFits ==
    ASSUME NEW d \in Durables, Records(d), NEW op \in WorkOps
    PROVE  Starts(d, Begin(op, d).d, Begin(op, d).w)
<1> DEFINE e == Stage(d, "executing")
           b == Begin(op, d)
<1>1. e \in Durables /\ SameApproval(d, e)
  BY StageFacts DEF Stages
<1>2. Records(e)
  BY <1>1 DEF Records, SameApproval, Published, Named
<1>3. \/ b = Refusal(d)
      \/ b = Started(op, d, "pl_read")
      \/ b = Started(op, e, "ra_read") /\ d.mode.bound
      \/ b = Started(op, e, "ap_read")
      \/ b = Started(op, d, "rs_read") /\ d.mode.bound
  BY DEF Begin
<1> HIDE DEF e, b
<1>4. CASE b = Refusal(d)
  BY <1>4, RefusalFacts DEF b
<1>5. CASE b = Started(op, d, "pl_read")
  BY <1>5, StartedFacts DEF b, Openings
<1>6. CASE b = Started(op, e, "ra_read") /\ d.mode.bound
  <2>1. e.mode.bound
    BY <1>1, <1>6 DEF SameApproval
  <2>2. Starts(e, b.d, b.w)
    BY <1>1, <1>2, <1>6, <2>1, StartedFacts DEF Openings
  <2> QED
    BY <2>2, <1>1 DEF Starts, SameApproval, b
<1>7. CASE b = Started(op, e, "ap_read")
  <2>1. Starts(e, b.d, b.w)
    BY <1>1, <1>2, <1>7, StartedFacts DEF Openings
  <2> QED
    BY <2>1, <1>1 DEF Starts, SameApproval, b
<1>8. CASE b = Started(op, d, "rs_read") /\ d.mode.bound
  BY <1>8, StartedFacts DEF b, Openings
<1> QED
  BY <1>3, <1>4, <1>5, <1>6, <1>7, <1>8

\* A command that finds an intent starts work that reconciles it first.
LEMMA WorkingFits ==
    ASSUME NEW d \in Durables, Records(d), NEW op \in WorkOps
    PROVE  Starts(d, Working(op, d).d, Working(op, d).w)
<1>1. CASE d.mode.intent
  BY <1>1, StartedFacts DEF Working, Openings
<1>2. CASE ~d.mode.intent
  BY <1>2, BeginFits DEF Working
<1> QED
  BY <1>1, <1>2

-----------------------------------------------------------------------------
(* The upgrade: commands and the review *)

\* command: plan, approve and resume start the work.
LEMMA CommandStep ==
    ASSUME UpInv, NEW op \in {"plan", "approve", "resume"}, Command(op)
    PROVE  UpInv'
<1> DEFINE d == Working(op, durable).d
           l == Working(op, durable).w
<1>1. co["work"].pc = "idle" /\ co["cancel"].pc = "idle" /\ Leaves("work")
  BY Stepping DEF Command, Free, At, JournalPcs, SavePcs, Coroutines
<1>2. Turn(d, [co EXCEPT !["work"] = l], {"work"})
  BY DEF Command
<1>3. SameProcess
  BY WorkTypes DEF Command, SameProcess, Worlds
<1>4. Starts(durable, d, l)
  BY WorkTypes, WorkingFits DEF UpInv, UpBound, WorkOps
<1> HIDE DEF d, l
<1>5. Kept(d)
  BY <1>4, TameIsKept DEF Tame, Starts
<1> QED
  BY <1>1, <1>2, <1>3, <1>4, <1>5, WorkMoves DEF Starts

\* reconcile, by the work.
LEMMA WorkReconcileStep ==
    ASSUME UpInv, WorkReconcile
    PROVE  UpInv'
<1>1. co["work"].pc = "w_reconcile" /\ Leaves("work")
  BY Stepping DEF WorkReconcile, Coroutines
<1>2. CASE Settles(durable)
  <2> DEFINE e == Settled(durable)
             d == Begin(co["work"].op, e).d
             l == Begin(co["work"].op, e).w
  <2>1. Step(d, l)
    BY <1>2 DEF WorkReconcile
  <2>2. e \in Durables /\ e.job = durable.job /\ (e.mode.bound <=> Published(durable))
    BY WorkTypes, SettledFacts DEF Published
  <2>3. Records(e) /\ (Published(e) <=> Published(durable))
    BY <2>2 DEF Records, Published, Named
  <2>4. co["work"].op \in WorkOps
    BY WorkTypes DEF Locals, WorkOps
  <2> HIDE DEF e
  <2>5. Starts(e, d, l)
    BY <2>2, <2>3, <2>4, BeginFits
  <2> HIDE DEF d, l
  <2>6. Kept(d)
    BY <2>3, <2>5 DEF Starts, SameApproval, Kept, Records, Published, Named
  <2> QED
    BY <1>1, <2>1, <2>5, <2>6, StepFits DEF Starts
<1>3. CASE ~Settles(durable)
  <2>1. WorkFails(durable)
    BY <1>3 DEF WorkReconcile
  <2> QED
    BY <1>1, <2>1, TameFacts, TameIsKept, WorkFailsFits
<1> QED
  BY <1>2, <1>3

\* Every save but the first approval's finds the job published.
LEMMA Saving ==
    ASSUME UpInv, NEW w \in Coroutines, co[w].pc \in SavePcs
    PROVE  LET d == Save(durable, co[w].job)
           IN /\ d \in Durables /\ d.mode = durable.mode /\ d.lease = durable.lease /\ d.job = co[w].job.meta
              /\ Published(d) /\ Kept(d)
              /\ co[w].pc # "ap_save" => Published(durable) /\ Tame(d)
              /\ co[w].pc = "ap_save" => w = "work"
<1> DEFINE d == Save(durable, co[w].job)
<1>1. co[w].job \in Jobs /\ co[w].job.meta.phase # "none" /\ durable \in Durables
  BY WorkTypes DEF Carrying
<1>2. d \in Durables /\ d.mode = durable.mode /\ d.lease = durable.lease /\ d.job = co[w].job.meta
  BY <1>1, SaveFacts
<1> HIDE DEF d
<1>3. Published(d)
  BY <1>1, <1>2 DEF Published
<1>4. w \in {"work", "poll", "cancel"}
  BY DEF Coroutines
<1>5. co["work"].pc \in WorkPcs /\ co["poll"].pc \in PollPcs /\ co["cancel"].pc \in CancelPcs
  BY DEF UpInv, UpWork, WorkFits, UpPoll, UpCancel
<1>6. co["work"].pc \in SavePcs /\ co["work"].pc # "ap_save" => Published(durable)
  BY <1>5 DEF UpInv, UpWork, WorkFits, WorkPcs, Reviewing, SavePcs
<1>7. co["poll"].pc \in SavePcs => Published(durable) /\ co["poll"].pc # "ap_save"
  BY <1>5 DEF UpInv, UpPoll, PollPcs, SavePcs
<1>8. co["cancel"].pc \in SavePcs => Published(durable) /\ co["cancel"].pc # "ap_save"
  BY <1>5 DEF UpInv, UpCancel, CancelPcs, Undoing, SavePcs
<1>9. co["work"].pc = "ap_save" => durable.mode.intent
  BY DEF UpInv, UpWork, WorkFits
<1>10. co[w].pc # "ap_save" => Published(durable) /\ Tame(d)
  <2>1. co[w].pc # "ap_save" => Published(durable)
    BY <1>4, <1>6, <1>7, <1>8
  <2> QED
    BY <2>1, <1>2, <1>3 DEF Tame, SameApproval, Published
<1>11. co[w].pc = "ap_save" => w = "work"
  BY <1>4, <1>7, <1>8 DEF SavePcs
<1>12. Kept(d)
  <2>1. CASE co[w].pc # "ap_save"
    BY <2>1, <1>10, TameIsKept
  <2>2. CASE co[w].pc = "ap_save"
    BY <2>2, <1>2, <1>3, <1>9, <1>11 DEF Kept, Records, Named
  <2> QED
    BY <2>1, <2>2
<1> QED
  BY <1>2, <1>3, <1>10, <1>11, <1>12 DEF d

\* Reconciling keeps the records in order.
LEMMA SettledIsKept ==
    ASSUME UpInv, NEW d, Kept(d)
    PROVE  Kept(Settled(d))
<1>1. d \in Durables
  BY DEF Kept
<1>2. Settled(d) \in Durables /\ Settled(d).job = d.job /\ (Settled(d).mode.bound <=> Published(d))
  BY <1>1, SettledFacts DEF Published
<1> QED
  BY <1>2 DEF Kept, Records, Published, Named

\* plan reads the mode, and refuses a job that has not stopped.
LEMMA PlanReadStep ==
    ASSUME UpInv, PlanRead
    PROVE  UpInv'
<1>1. co["work"].pc = "pl_read" /\ Leaves("work")
  BY Stepping DEF PlanRead, Coroutines
<1>2. CASE WorkFails(durable)
  BY <1>1, <1>2, TameFacts, TameIsKept, WorkFailsFits
<1>3. CASE Step(StageOf(durable, co["work"].mode, "planning"), Snapshot("pl_preview", NoJob))
  <2> DEFINE d == StageOf(durable, co["work"].mode, "planning")
             l == Snapshot("pl_preview", NoJob)
  <2>1. /\ d \in Durables /\ d.mode.bound = co["work"].mode.bound /\ d.mode.intent = co["work"].mode.intent
        /\ d.job = durable.job
    BY WorkTypes, StageOfFacts DEF Stages
  <2>2. l \in Locals /\ l.pc = "pl_preview" /\ l.mode = co["work"].mode
    BY EmptyFacts, ToFacts DEF GoesOn, Pcs, WorkPcs, Reviewing
  <2> HIDE DEF d, l
  <2>3. Published(durable) => Named(co["work"].mode)
    BY <1>1 DEF UpInv, UpWork, WorkFits
  <2>4. Kept(d) /\ (Published(d) <=> Published(durable))
    BY <2>1, <2>3, WorkTypes DEF Kept, Records, Published, Named
  <2>5. CopyOk(l) /\ WorkFits(d, l, proc.pid)
    BY <2>2 DEF CopyOk, Carrying, SavePcs, WorkFits, WorkPcs, Reviewing, Executing
  <2>6. l.mode.bound => Published(d)
    BY <2>2, <2>4, WorkTypes
  <2> QED
    BY <1>1, <1>3, <2>2, <2>4, <2>5, <2>6, StepFits DEF d, l
<1> QED
  BY <1>2, <1>3 DEF PlanRead

\* The preview is drawn from a current snapshot.
LEMMA PlanPreviewStep ==
    ASSUME UpInv, PlanPreview
    PROVE  UpInv'
<1>1. co["work"].pc = "pl_preview" /\ Leaves("work")
  BY Stepping DEF PlanPreview, At, JournalPcs, SavePcs, Coroutines
<1>2. CASE WorkFails(durable)
  BY <1>1, <1>2, TameFacts, TameIsKept, WorkFailsFits
<1>3. CASE Step(durable, [To("pl_save", NoJob) EXCEPT !.batch = Ops \ world.applied])
  <2> DEFINE l == [To("pl_save", NoJob) EXCEPT !.batch = Ops \ world.applied]
  <2>1. l \in Locals /\ l.pc = "pl_save" /\ l.mode = co["work"].mode
    <3>1. "pl_save" \in Pcs /\ NoJob \in Jobs /\ Ops \ world.applied \in SUBSET Ops
      BY EmptyFacts DEF Pcs, WorkPcs, Reviewing
    <3> QED
      BY <3>1, ToFacts DEF GoesOn
  <2> HIDE DEF l
  <2>2. CopyOk(l) /\ WorkFits(durable, l, proc.pid)
    BY <2>1 DEF CopyOk, Carrying, SavePcs, WorkFits, WorkPcs, Reviewing, Executing
  <2>3. Kept(durable) /\ (l.mode.bound => Published(durable))
    BY <2>1, WorkTypes, TameFacts, TameIsKept
  <2> QED
    BY <1>1, <1>3, <2>1, <2>2, <2>3, StepFits DEF l
<1> QED
  BY <1>2, <1>3 DEF PlanPreview

\* The review is recorded in the mode, and the work ends.
LEMMA PlanSavedStep ==
    ASSUME UpInv, PlanSaved
    PROVE  UpInv'
<1>1. co["work"].pc = "pl_save" /\ Leaves("work")
  BY Stepping DEF PlanSaved, Coroutines
<1>2. CASE WorkFails(durable)
  BY <1>1, <1>2, TameFacts, TameIsKept, WorkFailsFits
<1>3. CASE Step([durable EXCEPT !.mode.preview = co["work"].batch, !.mode.stage = "review"], Asleep)
  <2> DEFINE m == [durable.mode EXCEPT !.preview = co["work"].batch, !.stage = "review"]
             d == [durable EXCEPT !.mode = m]
  <2>1. m \in Modes /\ m.bound = durable.mode.bound /\ m.intent = durable.mode.intent
    BY WorkTypes DEF Modes, Stages
  <2>2. Step(d, Asleep)
    <3>1. d = [durable EXCEPT !.mode.preview = co["work"].batch, !.mode.stage = "review"]
      BY WorkTypes DEF Durables, Modes
    <3> QED
      BY <1>3, <3>1
  <2> HIDE DEF m
  <2>3. d \in Durables /\ SameApproval(durable, d)
    BY <2>1, WorkTypes DEF Durables, SameApproval
  <2> HIDE DEF d
  <2>4. SameProcess /\ Turn(d, [co EXCEPT !["work"] = Asleep], {"work"})
    BY <1>1, <2>2, Stepping, WorkTypes DEF Step, SameProcess
  <2> QED
    BY <1>1, <2>3, <2>4, TameIsKept, WorkEnds DEF Tame
<1> QED
  BY <1>2, <1>3 DEF PlanSaved

\* approve reads the job, and takes the lease with the intent before it publishes one.
LEMMA ApproveReadStep ==
    ASSUME UpInv, ApproveRead
    PROVE  UpInv'
<1>1. co["work"].pc = "ap_read" /\ Leaves("work") /\ Served("work", "ap_read")
  BY Stepping DEF ApproveRead, Coroutines
<1> DEFINE f == ModeLease(durable)
           m == [f.mode EXCEPT !.intent = TRUE]
           d == [f EXCEPT !.mode = m]
           l == To("ap_save", FirstJob(f))
<1>2. CASE WorkFails(durable)
  BY <1>1, <1>2, TameFacts, TameIsKept, WorkFailsFits
<1>3. CASE ~Published(durable) /\ ~durable.mode.bound /\ ~durable.mode.intent /\ Step([f EXCEPT !.mode.intent = TRUE], l)
  <2>1. /\ f \in Durables /\ f.job = durable.job /\ f.mode.bound = durable.mode.bound
        /\ f.mode.preview = durable.mode.preview /\ f.lease.token # 0 /\ f.lease.pid = proc.pid
    BY WorkTypes, LeaseFacts
  <2> HIDE DEF f
  <2>2. m \in Modes /\ m.intent /\ m.bound = f.mode.bound
    BY <2>1 DEF Durables, Modes
  <2>3. [f EXCEPT !.mode.intent = TRUE] = d
    OBVIOUS
  <2> HIDE DEF m
  <2>4. d \in Durables /\ d.mode = m /\ d.job = durable.job /\ d.lease = f.lease
    BY <2>1, <2>2 DEF Durables
  <2> HIDE DEF d
  <2>5. FirstJob(f) \in Jobs /\ FirstJob(f).meta.phase = "quiescing"
    <3>1. 1 \in 1..MaxApprovals
      BY BoundsAreNats
    <3>2. f.mode.token \in Nat /\ f.mode.preview \in SUBSET Ops
      BY <2>1 DEF Durables, Modes
    <3> QED
      BY <3>1, <3>2, EmptyFacts DEF FirstJob, Jobs, Metas, Phases, Transitions
  <2>6. l \in Locals /\ l.pc = "ap_save" /\ l.mode = co["work"].mode /\ l.job = FirstJob(f)
    <3>1. "ap_save" \in Pcs
      BY DEF Pcs, WorkPcs, Reviewing
    <3> QED
      BY <3>1, <2>5, ToFacts DEF GoesOn
  <2> HIDE DEF l
  <2>7. CopyOk(l)
    BY <2>5, <2>6 DEF CopyOk
  <2>8. WorkFits(d, l, proc.pid)
    BY <2>1, <2>2, <2>4, <2>6 DEF WorkFits, WorkPcs, Reviewing, Executing
  <2>9. Kept(d) /\ ~co["work"].mode.bound
    BY <1>3, <2>1, <2>2, <2>4, WorkTypes DEF Kept, Records, Published
  <2>10. co["poll"].pc # "p_reconcile"
    <3>1. ~Ahead(queue, "poll", "work")
      BY <1>1, LineOrder DEF Served, UpInv, UpLine
    <3> QED
      BY <3>1, <1>1, <1>3 DEF UpInv, UpPoll
  <2> QED
    BY <1>1, <1>3, <2>3, <2>6, <2>7, <2>8, <2>9, <2>10, StepFits
<1> QED
  BY <1>2, <1>3 DEF ApproveRead, Published

\* After the approval was saved, or was not.
LEMMA ApproveSavedStep ==
    ASSUME UpInv, ApproveSaved
    PROVE  UpInv'
<1>1. co["work"].pc = "ap_save" /\ Leaves("work")
  BY Stepping DEF ApproveSaved, Coroutines
<1> DEFINE d == Save(durable, Wj)
<1>2. d \in Durables /\ Published(d) /\ Kept(d)
  BY <1>1, Saving, WorkTypes DEF SavePcs, Wj
<1>3. CASE Step(Settled(d), Snapshot("ap_snapshot", Wj))
  <2> DEFINE l == Snapshot("ap_snapshot", Wj)
  <2>1. "ap_snapshot" \in Pcs
    BY DEF Pcs, WorkPcs, Executing
  <2>2. l \in Locals /\ l.pc = "ap_snapshot" /\ l.mode = co["work"].mode
    BY <2>1, WorkTypes, ToFacts DEF GoesOn
  <2> HIDE DEF d, l
  <2>3. Settled(d).job = d.job /\ Kept(Settled(d))
    BY <1>2, SettledFacts, SettledIsKept
  <2>4. Published(Settled(d))
    BY <1>2, <2>3 DEF Published
  <2>5. CopyOk(l) /\ WorkFits(Settled(d), l, proc.pid)
    BY <2>2, <2>4 DEF CopyOk, Carrying, SavePcs, WorkFits, WorkPcs, Executing
  <2> QED
    BY <1>1, <1>3, <2>2, <2>3, <2>4, <2>5, StepFits DEF l
<1>4. CASE Step(d, To("ap_recover", Wj))
  <2> DEFINE l == To("ap_recover", Wj)
  <2>1. "ap_recover" \in Pcs
    BY DEF Pcs, WorkPcs, Reviewing
  <2>2. l \in Locals /\ l.pc = "ap_recover" /\ l.mode = co["work"].mode
    BY <2>1, WorkTypes, ToFacts DEF GoesOn
  <2> HIDE DEF d, l
  <2>3. CopyOk(l) /\ WorkFits(d, l, proc.pid)
    BY <2>2 DEF CopyOk, Carrying, SavePcs, WorkFits, WorkPcs, Reviewing, Executing
  <2> QED
    BY <1>1, <1>2, <1>4, <2>2, <2>3, StepFits DEF l
<1> QED
  BY <1>3, <1>4 DEF ApproveSaved

\* The publication of the approved job is not acknowledged.
LEMMA ApproveUnacknowledgedStep ==
    ASSUME UpInv, ApproveUnacknowledged
    PROVE  UpInv'
<1>1. co["work"].pc = "ap_save" /\ Leaves("work")
  BY Stepping DEF ApproveUnacknowledged, At, Coroutines
<1> DEFINE l == To("ap_recover", Wj)
<1>2. "ap_recover" \in Pcs
  BY DEF Pcs, WorkPcs, Reviewing
<1>3. l \in Locals /\ l.pc = "ap_recover" /\ l.mode = co["work"].mode
  BY <1>2, WorkTypes, ToFacts DEF GoesOn
<1>4. Step(durable, l)
  BY DEF ApproveUnacknowledged
<1> HIDE DEF l
<1>5. CopyOk(l) /\ WorkFits(durable, l, proc.pid)
  BY <1>3 DEF CopyOk, Carrying, SavePcs, WorkFits, WorkPcs, Reviewing, Executing
<1>6. Kept(durable) /\ (l.mode.bound => Published(durable))
  BY <1>3, WorkTypes, TameFacts, TameIsKept
<1> QED
  BY <1>1, <1>3, <1>4, <1>5, <1>6, StepFits

\* The readback of an approval nobody acknowledged ends the work.
LEMMA ApproveRecoverStep ==
    ASSUME UpInv, ApproveRecover
    PROVE  UpInv'
<1>1. co["work"].pc = "ap_recover" /\ Leaves("work")
  BY Stepping DEF ApproveRecover, Coroutines
<1>2. Kept(durable) /\ Kept(Settled(durable))
  BY TameFacts, TameIsKept, SettledIsKept
<1>3. WorkFails(durable) \/ WorkFails(Settled(durable))
  BY DEF ApproveRecover
<1> QED
  BY <1>1, <1>2, <1>3, WorkFailsFits

-----------------------------------------------------------------------------
(* The upgrade: a published job is executed *)

\* Where the work goes on without another condition.
Plain == Executing \ {"rs_save", "ra_snapshot", "r_loop", "r_source"}
Entering == Executing \cup {"ra_read", "rs_read"}
Carries(place, j) == j \in Jobs /\ (place \in Carrying => j.meta.phase # "none")

\* Work on a published job goes on to a place that asks nothing more of the records.
LEMMA PlainLocal ==
    ASSUME UpInv, co["work"].pc \in Entering, Leaves("work"), NEW d, Tame(d), NEW place \in Plain, NEW j, Carries(place, j),
           NEW l, GoesOn(l, place, j, co["work"].left), Step(d, l)
    PROVE  UpInv'
<1>1. l \in Locals /\ l.pc = place /\ l.job = j /\ l.mode = co["work"].mode
  BY DEF GoesOn
<1>2. CopyOk(l)
  BY <1>1 DEF CopyOk, Carries
<1>3. place \in Executing /\ place \notin {"rs_save", "ra_snapshot", "r_loop", "r_source"}
  BY DEF Plain
<1>4. co["work"].pc \in Executing \cup {"ra_read", "rs_read"}
  BY DEF Entering
<1> QED
  BY <1>1, <1>2, <1>3, <1>4, ExecStep

\* The same for a step that goes on with the job it names.
LEMMA PlainStep ==
    ASSUME UpInv, co["work"].pc \in Entering, Leaves("work"), NEW d, Tame(d), NEW place \in Plain, NEW j, Carries(place, j)
    PROVE  /\ Step(d, To(place, j)) => UpInv'
           /\ Step(d, Snapshot(place, j)) => UpInv'
           /\ \A b \in SUBSET Ops : Step(d, [To(place, j) EXCEPT !.batch = b]) => UpInv'
<1>1. place \in Pcs /\ j \in Jobs
  BY DEF Plain, Pcs, WorkPcs, Carries
<1>2. /\ GoesOn(To(place, j), place, j, co["work"].left)
      /\ GoesOn(Snapshot(place, j), place, j, co["work"].left)
      /\ \A b \in SUBSET Ops : GoesOn([To(place, j) EXCEPT !.batch = b], place, j, co["work"].left)
  BY <1>1, ToFacts
<1> QED
  BY <1>2, PlainLocal

\* A save of the executed job, and what its copy becomes.
LEMMA SavedWork ==
    ASSUME UpInv, co["work"].pc \in SavePcs \cap Executing
    PROVE  /\ Tame(Save(durable, Wj)) /\ Published(durable)
           /\ Wj \in Jobs /\ Wj.meta.phase # "none"
           /\ \A p \in Phases \ {"none"} : Phase(Wj, p) \in Jobs /\ Phase(Wj, p).meta.phase # "none"
           /\ \A t \in Transitions : Transition(Wj, t) \in Jobs /\ Transition(Wj, t).meta.phase # "none"
<1>1. co["work"].pc \in SavePcs /\ co["work"].pc # "ap_save" /\ "work" \in Coroutines
  BY DEF Executing, Coroutines
<1>2. Tame(Save(durable, Wj)) /\ Published(durable)
  BY <1>1, Saving DEF Wj
<1>3. Wj \in Jobs /\ Wj.meta.phase # "none"
  BY <1>1, WorkTypes DEF Wj, Carrying
<1>4. \A p \in Phases \ {"none"} : Phase(Wj, p) \in Jobs /\ Phase(Wj, p).meta.phase # "none"
  BY <1>3, JobFacts
<1>5. \A t \in Transitions : Transition(Wj, t) \in Jobs /\ Transition(Wj, t).meta.phase # "none"
  BY <1>3, JobFacts
<1> QED
  BY <1>2, <1>3, <1>4, <1>5

\* The approval checks its plan against a current snapshot.
LEMMA ApproveSnapshotStep ==
    ASSUME UpInv, ApproveSnapshot
    PROVE  UpInv'
<1>1. co["work"].pc = "ap_snapshot" /\ Leaves("work")
  BY Stepping DEF ApproveSnapshot, At, JournalPcs, SavePcs, Coroutines
<1>2. "ap_snapshot" \in Executing /\ "ap_snapshot" \in Entering /\ "ap_install" \in Plain
  BY DEF Executing, Entering, Plain
<1>3. Carries("ap_install", Phase(Wj, "installing")) /\ Tame(durable)
  BY JobFacts, WorkTypes, TameFacts DEF Carries, Phases
<1>4. Step(durable, To("ap_install", Phase(Wj, "installing"))) \/ Fail(durable)
  BY DEF ApproveSnapshot
<1> QED
  BY <1>1, <1>2, <1>3, <1>4, PlainStep, FailFits

\* The installation of the candidate begins.
LEMMA InstallingStep ==
    ASSUME UpInv, Installing
    PROVE  UpInv'
<1>1. co["work"].pc = "ap_install" /\ Leaves("work")
  BY Stepping DEF Installing, Coroutines
<1>2. "ap_install" \in Executing \cap SavePcs /\ "ap_install" \in Entering /\ "ap_intent" \in Plain
  BY DEF Executing, Entering, Plain, SavePcs
<1>3. Carries("ap_intent", Transition(Wj, "intent")) /\ Tame(Save(durable, Wj))
  BY <1>1, <1>2, SavedWork DEF Carries, Transitions
<1>4. Step(Save(durable, Wj), To("ap_intent", Transition(Wj, "intent"))) \/ Fail(Save(durable, Wj))
  BY DEF Installing
<1> QED
  BY <1>1, <1>2, <1>3, <1>4, PlainStep, FailFits

\* The renames touch no record.
LEMMA TameFiles ==
    ASSUME UpInv, NEW d, Tame(d)
    PROVE  /\ \A t \in {"old", "gone", "new"} : Tame([d EXCEPT !.target = t])
           /\ \A r \in {"old", "new"} : Tame([d EXCEPT !.registry = r])
BY FileFacts, TameFacts DEF Tame

\* The previous files are moved aside.
LEMMA RetainPreviousStep ==
    ASSUME UpInv, RetainPrevious
    PROVE  UpInv'
<1>1. co["work"].pc = "ap_intent" /\ Leaves("work")
  BY Stepping DEF RetainPrevious, Coroutines
<1>2. "ap_intent" \in Executing \cap SavePcs /\ "ap_intent" \in Entering /\ "ap_retained" \in Plain
  BY DEF Executing, Entering, Plain, SavePcs
<1>3. Carries("ap_retained", Transition(Wj, "previous-retained")) /\ Tame(Save(durable, Wj))
  BY <1>1, <1>2, SavedWork DEF Carries, Transitions
<1>4. Tame([Save(durable, Wj) EXCEPT !.target = "gone"])
  BY <1>3, TameFiles
<1>5. Step([Save(durable, Wj) EXCEPT !.target = "gone"], To("ap_retained", Transition(Wj, "previous-retained")))
  BY DEF RetainPrevious
<1> QED
  BY <1>1, <1>2, <1>3, <1>4, <1>5, PlainStep

\* The candidate takes their place.
LEMMA PromoteCandidateStep ==
    ASSUME UpInv, PromoteCandidate
    PROVE  UpInv'
<1>1. co["work"].pc = "ap_retained" /\ Leaves("work")
  BY Stepping DEF PromoteCandidate, Coroutines
<1>2. "ap_retained" \in Executing \cap SavePcs /\ "ap_retained" \in Entering /\ "ap_promoted" \in Plain
  BY DEF Executing, Entering, Plain, SavePcs
<1>3. Carries("ap_promoted", Transition(Wj, "promoted")) /\ Tame(Save(durable, Wj))
  BY <1>1, <1>2, SavedWork DEF Carries, Transitions
<1>4. Tame([Save(durable, Wj) EXCEPT !.target = "new"]) /\ Tame([Save(durable, Wj) EXCEPT !.target = "old"])
  BY <1>3, TameFiles
<1>5. \/ Step([Save(durable, Wj) EXCEPT !.target = "new"], To("ap_promoted", Transition(Wj, "promoted")))
      \/ Fail([Save(durable, Wj) EXCEPT !.target = "old"])
  BY DEF PromoteCandidate
<1> QED
  BY <1>1, <1>2, <1>3, <1>4, <1>5, PlainStep, FailFits

\* The candidate is registered.
LEMMA RegisterCandidateStep ==
    ASSUME UpInv, RegisterCandidate
    PROVE  UpInv'
<1>1. co["work"].pc = "ap_promoted" /\ Leaves("work")
  BY Stepping DEF RegisterCandidate, Coroutines
<1>2. "ap_promoted" \in Executing \cap SavePcs /\ "ap_promoted" \in Entering /\ "ap_registered" \in Plain
  BY DEF Executing, Entering, Plain, SavePcs
<1>3. Carries("ap_registered", Transition(Wj, "registered")) /\ Tame(Save(durable, Wj))
  BY <1>1, <1>2, SavedWork DEF Carries, Transitions
<1>4. Tame([Save(durable, Wj) EXCEPT !.registry = "new"])
  BY <1>3, TameFiles
<1>5. \/ Step([Save(durable, Wj) EXCEPT !.registry = "new"], To("ap_registered", Transition(Wj, "registered")))
      \/ Fail(Save(durable, Wj))
  BY DEF RegisterCandidate
<1> QED
  BY <1>1, <1>2, <1>3, <1>4, <1>5, PlainStep, FailFits

\* The registered candidate is recorded in the job, with the restart to come.
LEMMA PromotedStep ==
    ASSUME UpInv, Promoted
    PROVE  UpInv'
<1>1. co["work"].pc = "ap_registered" /\ Leaves("work")
  BY Stepping DEF Promoted, Coroutines
<1>2. "ap_registered" \in Executing \cap SavePcs /\ "ap_registered" \in Entering /\ "ap_restart" \in Plain
  BY DEF Executing, Entering, Plain, SavePcs
<1>3. Carries("ap_restart", Phase(Wj, "restarting")) /\ Tame(Save(durable, Wj))
  BY <1>1, <1>2, SavedWork DEF Carries, Phases
<1>4. Step(Save(durable, Wj), To("ap_restart", Phase(Wj, "restarting"))) \/ Fail(Save(durable, Wj))
  BY DEF Promoted
<1> QED
  BY <1>1, <1>2, <1>3, <1>4, PlainStep, FailFits

\* The first approval goes on to run the job.
LEMMA ApprovedStep ==
    ASSUME UpInv, Approved
    PROVE  UpInv'
<1>1. co["work"].pc = "ap_restart" /\ Leaves("work")
  BY Stepping DEF Approved, Coroutines
<1>2. "ap_restart" \in Executing \cap SavePcs /\ "ap_restart" \in Entering /\ "r_job" \in Plain
  BY DEF Executing, Entering, Plain, SavePcs
<1>3. Carries("r_job", Wj) /\ Tame(Save(durable, Wj))
  BY <1>1, <1>2, SavedWork DEF Carries
<1>4. Step(Save(durable, Wj), To("r_job", Wj))
  BY DEF Approved
<1> QED
  BY <1>1, <1>2, <1>3, <1>4, PlainStep

\* The job as it is read while one is published, and the lease taken over for it.
LEMMA ReadWork ==
    ASSUME UpInv, Published(durable)
    PROVE  LET j == ReadJob(durable)
               k == [j EXCEPT !.meta.token = TakeLease(durable).issued]
           IN /\ j \in Jobs /\ j.meta = durable.job /\ j.meta.phase # "none"
              /\ k \in Jobs /\ k.meta.phase # "none" /\ k.meta.approval = durable.job.approval
              /\ Tame(durable) /\ Tame(TakeLease(durable))
<1> DEFINE j == ReadJob(durable)
           d == TakeLease(durable)
<1>1. j \in Jobs /\ j.meta = durable.job /\ durable \in Durables
  BY WorkTypes, ReadJobFacts
<1>2. d \in Durables /\ d.mode = durable.mode /\ d.job = durable.job /\ d.issued \in Nat
  BY WorkTypes, LeaseFacts
<1> HIDE DEF j, d
<1>3. Tame(d)
  BY <1>2 DEF Tame, SameApproval
<1>4. [j EXCEPT !.meta.token = d.issued] \in Jobs /\ [j EXCEPT !.meta.token = d.issued].meta.phase = j.meta.phase
      /\ [j EXCEPT !.meta.token = d.issued].meta.approval = j.meta.approval
  BY <1>1, <1>2, JobFacts
<1>5. j.meta.phase # "none" /\ Tame(durable)
  BY <1>1, TameFacts DEF Published
<1> QED
  BY <1>1, <1>3, <1>4, <1>5 DEF j, d

\* A later approval reads the job of the mode.
LEMMA ReapproveReadStep ==
    ASSUME UpInv, ReapproveRead
    PROVE  UpInv'
<1>1. co["work"].pc = "ra_read" /\ Leaves("work")
  BY Stepping DEF ReapproveRead, Coroutines
<1>2. Published(durable) /\ "ra_snapshot" \in Pcs
  BY <1>1 DEF UpInv, UpWork, WorkFits, Pcs, WorkPcs, Executing
<1> DEFINE j == ReadJob(durable)
           k == [j EXCEPT !.meta.token = TakeLease(durable).issued]
<1>3. \/ WorkFails(durable)
      \/ durable.job.approval # MaxApprovals /\ Step(durable, Snapshot("ra_snapshot", j))
      \/ durable.job.approval # MaxApprovals /\ Step(TakeLease(durable), Snapshot("ra_snapshot", k))
  BY DEF ReapproveRead, ReadJob
<1>4. CASE WorkFails(durable)
  BY <1>1, <1>4, TameFacts, TameIsKept, WorkFailsFits
<1>5. ASSUME NEW i \in {j, k}, NEW d \in {durable, TakeLease(durable)}, durable.job.approval # MaxApprovals,
             Step(d, Snapshot("ra_snapshot", i))
      PROVE  UpInv'
  <2> DEFINE l == Snapshot("ra_snapshot", i)
  <2>1. i \in Jobs /\ i.meta.approval # MaxApprovals /\ Tame(d)
    BY <1>2, <1>5, ReadWork
  <2>2. l \in Locals /\ l.pc = "ra_snapshot" /\ l.job = i /\ l.mode = co["work"].mode
    BY <1>2, <2>1, ToFacts DEF GoesOn
  <2>3. Step(d, l)
    BY <1>5
  <2> HIDE DEF l, j, k
  <2>4. CopyOk(l) /\ l.pc \in Executing
    BY <2>2 DEF CopyOk, Carrying, SavePcs, Executing
  <2> QED
    BY <1>1, <2>1, <2>2, <2>3, <2>4, ExecStep
<1> QED
  BY <1>3, <1>4, <1>5

\* A later approval checks its plan against a current snapshot.
LEMMA ReapproveSnapshotStep ==
    ASSUME UpInv, ReapproveSnapshot
    PROVE  UpInv'
<1>1. co["work"].pc = "ra_snapshot" /\ Leaves("work")
  BY Stepping DEF ReapproveSnapshot, At, JournalPcs, SavePcs, Coroutines
<1> DEFINE m == [Wj.meta EXCEPT !.approval = @ + 1, !.plan = co["work"].mode.preview, !.phase = "restarting"]
           j == [meta |-> m, out |-> NoOutcome]
<1>2. Tame(durable) /\ "ra_snapshot" \in Entering /\ "ra_save" \in Plain
  BY TameFacts DEF Entering, Executing, Plain
<1>3. Wj.meta.approval # MaxApprovals
  BY <1>1 DEF UpInv, UpWork, WorkFits, Wj
<1>4. m \in Metas /\ m.phase = "restarting"
  <2>1. Wj.meta \in Metas /\ Wj.meta.approval \in 1..MaxApprovals /\ co["work"].mode.preview \in SUBSET Ops
    BY WorkTypes DEF Jobs, Metas, Modes
  <2>2. Wj.meta.approval + 1 \in 1..MaxApprovals
    BY <1>3, <2>1, BoundsAreNats
  <2> QED
    BY <2>1, <2>2 DEF Metas, Phases
<1>5. Step(durable, To("ra_save", j)) \/ WorkFails(durable)
  BY DEF ReapproveSnapshot
<1> HIDE DEF m
<1>6. Carries("ra_save", j)
  BY <1>4, EmptyFacts DEF Carries, Jobs
<1> HIDE DEF j
<1>7. CASE Step(durable, To("ra_save", j))
  BY <1>1, <1>2, <1>6, <1>7, PlainStep
<1>8. CASE WorkFails(durable)
  BY <1>1, <1>2, <1>8, TameIsKept, WorkFailsFits
<1> QED
  BY <1>5, <1>7, <1>8

\* A later approval is saved, and the job runs.
LEMMA ReapprovedStep ==
    ASSUME UpInv, Reapproved
    PROVE  UpInv'
<1>1. co["work"].pc = "ra_save" /\ Leaves("work")
  BY Stepping DEF Reapproved, Coroutines
<1>2. "ra_save" \in Executing \cap SavePcs /\ "ra_save" \in Entering /\ "r_job" \in Plain
  BY DEF Executing, Entering, Plain, SavePcs
<1>3. Carries("r_job", Wj) /\ Tame(Save(durable, Wj))
  BY <1>1, <1>2, SavedWork DEF Carries
<1>4. Step(Save(durable, Wj), To("r_job", Wj))
  BY DEF Reapproved
<1> QED
  BY <1>1, <1>2, <1>3, <1>4, PlainStep

\* The mode as the command read it names the job.
LEMMA Resumes ==
    ASSUME UpInv, co["work"].pc \in {"rs_read", "rs_save"}, Leaves("work"), NEW d, Tame(d),
           Step(StageOf(d, co["work"].mode, "executing"), To("r_job", NoJob))
    PROVE  UpInv'
<1> DEFINE e == StageOf(d, co["work"].mode, "executing")
           l == To("r_job", NoJob)
<1>1. Published(durable) /\ co["work"].mode.bound
  BY DEF UpInv, UpWork, WorkFits, Executing
<1>2. Published(d) /\ d \in Durables
  BY <1>1, TameFacts DEF Tame
<1>3. e \in Durables /\ e.mode.bound /\ e.job = d.job
  <2>1. co["work"].mode \in Modes /\ "executing" \in Stages
    BY WorkTypes DEF Stages
  <2> QED
    BY <1>1, <1>2, <2>1, StageOfFacts
<1>4. "r_job" \in Pcs
  BY DEF Pcs, WorkPcs, Executing
<1>5. l \in Locals /\ l.pc = "r_job" /\ l.mode = co["work"].mode
  BY <1>4, EmptyFacts, ToFacts DEF GoesOn
<1>6. Step(e, l)
  OBVIOUS
<1> HIDE DEF e, l
<1>7. Published(e) /\ Kept(e)
  BY <1>1, <1>2, <1>3 DEF Kept, Records, Published, Named
<1>8. CopyOk(l) /\ WorkFits(e, l, proc.pid)
  BY <1>5, <1>7 DEF CopyOk, Carrying, SavePcs, WorkFits, WorkPcs, Executing
<1> QED
  BY <1>5, <1>6, <1>7, <1>8, StepFits

\* resume reads the job of the mode.
LEMMA ResumeReadStep ==
    ASSUME UpInv, ResumeRead
    PROVE  UpInv'
<1>1. co["work"].pc = "rs_read" /\ Leaves("work")
  BY Stepping DEF ResumeRead, Coroutines
<1>2. Published(durable) /\ co["work"].mode.bound /\ Tame(durable)
  BY <1>1, TameFacts DEF UpInv, UpWork, WorkFits
<1> DEFINE j == Phase(ReadJob(durable), "restarting")
           l == To("rs_save", j)
<1>3. CASE Step(durable, l)
  <2>1. j \in Jobs /\ j.meta.phase = "restarting"
    BY <1>2, ReadWork, JobFacts DEF Phases
  <2>2. "rs_save" \in Pcs
    BY DEF Pcs, WorkPcs, Executing
  <2> HIDE DEF j
  <2>3. l \in Locals /\ l.pc = "rs_save" /\ l.job = j /\ l.mode = co["work"].mode
    BY <2>1, <2>2, ToFacts DEF GoesOn
  <2> HIDE DEF l
  <2>4. CopyOk(l) /\ l.pc \in Executing
    BY <2>1, <2>3 DEF CopyOk, Executing
  <2> QED
    BY <1>1, <1>2, <1>3, <2>3, <2>4, ExecStep
<1>4. CASE Step(StageOf(durable, co["work"].mode, "executing"), To("r_job", NoJob))
  BY <1>1, <1>2, <1>4, Resumes
<1> QED
  BY <1>3, <1>4 DEF ResumeRead

\* resume records that the job runs again.
LEMMA ResumeSavedStep ==
    ASSUME UpInv, ResumeSaved
    PROVE  UpInv'
<1>1. co["work"].pc = "rs_save" /\ Leaves("work")
  BY Stepping DEF ResumeSaved, Coroutines
<1>2. "rs_save" \in Executing \cap SavePcs
  BY DEF Executing, SavePcs
<1>3. Tame(Save(durable, Wj))
  BY <1>1, <1>2, SavedWork
<1> QED
  BY <1>1, <1>3, Resumes DEF ResumeSaved

-----------------------------------------------------------------------------
(* The upgrade: operation by operation *)

\* Work that runs a published job keeps the invariant.
LEMMA RunsFits ==
    ASSUME UpInv, co["work"].pc \in Executing, Leaves("work"), NEW d, Tame(d), NEW j \in Jobs, Runs(d, j)
    PROVE  UpInv'
<1>1. {"r_restart", "r_snapshot"} \subseteq Plain /\ co["work"].pc \in Entering
  BY DEF Plain, Executing, Entering
<1>2. Carries("r_restart", Phase(j, "restarting")) /\ Carries("r_snapshot", j)
  BY JobFacts DEF Carries, Phases, Carrying, SavePcs
<1>3. Fail(d) \/ Step(d, To("r_restart", Phase(j, "restarting"))) \/ Step(d, Snapshot("r_snapshot", j))
  BY DEF Runs
<1> QED
  BY <1>1, <1>2, <1>3, PlainStep, FailFits

\* The runner reads its job.
LEMMA RunnerReadStep ==
    ASSUME UpInv, RunnerRead
    PROVE  UpInv'
<1>1. co["work"].pc = "r_job" /\ Leaves("work")
  BY Stepping DEF RunnerRead, Coroutines
<1>2. "r_job" \in Executing /\ "r_job" \in Entering /\ "ex_done" \in Plain /\ "r_lease" \in Plain
  BY DEF Executing, Entering, Plain
<1>3. Published(durable)
  BY <1>1, <1>2 DEF UpInv, UpWork, WorkFits
<1> DEFINE j == ReadJob(durable)
           d == TakeLease(durable)
           k == [j EXCEPT !.meta.token = d.issued]
<1>4. j \in Jobs /\ Carries("ex_done", j) /\ Carries("r_lease", k) /\ Tame(durable) /\ Tame(d)
  BY <1>3, ReadWork DEF Carries
<1>5. \/ WorkFails(durable)
      \/ Step(durable, To("ex_done", j))
      \/ Runs(durable, j)
      \/ Step(d, To("r_lease", k))
      \/ Fail(durable)
  BY DEF RunnerRead
<1> HIDE DEF j, d, k
<1>6. CASE WorkFails(durable)
  BY <1>1, <1>4, <1>6, TameIsKept, WorkFailsFits
<1> QED
  BY <1>1, <1>2, <1>4, <1>5, <1>6, PlainStep, RunsFits, FailFits

\* The runner saves the job with the lease it took.
LEMMA RunnerOwnsStep ==
    ASSUME UpInv, RunnerOwns
    PROVE  UpInv'
<1>1. co["work"].pc = "r_lease" /\ Leaves("work")
  BY Stepping DEF RunnerOwns, Coroutines
<1>2. "r_lease" \in Executing \cap SavePcs
  BY DEF Executing, SavePcs
<1>3. Tame(Save(durable, Wj)) /\ Wj \in Jobs /\ Runs(Save(durable, Wj), Wj)
  BY <1>1, <1>2, SavedWork DEF RunnerOwns
<1> QED
  BY <1>1, <1>2, <1>3, RunsFits

\* The runner saves that a stopped job restarts.
LEMMA RunnerRestartsStep ==
    ASSUME UpInv, RunnerRestarts
    PROVE  UpInv'
<1>1. co["work"].pc = "r_restart" /\ Leaves("work")
  BY Stepping DEF RunnerRestarts, Coroutines
<1>2. "r_restart" \in Executing \cap SavePcs /\ "r_restart" \in Entering /\ "r_snapshot" \in Plain
  BY DEF Executing, SavePcs, Entering, Plain
<1>3. Carries("r_snapshot", Wj) /\ Tame(Save(durable, Wj))
  BY <1>1, <1>2, SavedWork DEF Carries
<1>4. Step(Save(durable, Wj), Snapshot("r_snapshot", Wj)) \/ Fail(Save(durable, Wj))
  BY DEF RunnerRestarts
<1> QED
  BY <1>1, <1>2, <1>3, <1>4, PlainStep, FailFits

\* The runner begins the migration on a current snapshot.
LEMMA RunnerSnapshotStep ==
    ASSUME UpInv, RunnerSnapshot
    PROVE  UpInv'
<1>1. co["work"].pc = "r_snapshot" /\ Leaves("work")
  BY Stepping DEF RunnerSnapshot, At, JournalPcs, SavePcs, Coroutines
<1>2. "r_snapshot" \in Executing /\ "r_snapshot" \in Entering /\ "r_migrating" \in Plain
  BY DEF Executing, Entering, Plain
<1>3. Carries("r_migrating", Phase(Wj, "migrating")) /\ Tame(durable)
  BY JobFacts, WorkTypes, TameFacts DEF Carries, Phases
<1>4. Step(durable, To("r_migrating", Phase(Wj, "migrating"))) \/ Fail(durable)
  BY DEF RunnerSnapshot
<1> QED
  BY <1>1, <1>2, <1>3, <1>4, PlainStep, FailFits

\* The loop over the operations goes on, or verifies when none is left.
LEMMA LoopFits ==
    ASSUME UpInv, co["work"].pc \in Executing, Leaves("work"), NEW d, Tame(d), NEW j, Carries("r_loop", j), j.meta.phase # "none",
           NEW left \in SUBSET Ops, Loop(d, j, left)
    PROVE  UpInv'
<1>1. "r_verifying" \in Plain /\ co["work"].pc \in Entering /\ "r_loop" \in Pcs /\ j \in Jobs
  BY DEF Plain, Executing, Entering, Pcs, WorkPcs, Carries
<1>2. Carries("r_verifying", Phase(j, "verifying"))
  BY <1>1, JobFacts DEF Carries, Phases
<1>3. CASE Step(d, To("r_verifying", Phase(j, "verifying")))
  BY <1>1, <1>2, <1>3, PlainStep
<1>4. CASE left # {} /\ Step(d, [To("r_loop", j) EXCEPT !.left = left])
  <2> DEFINE l == [To("r_loop", j) EXCEPT !.left = left]
  <2>1. l \in Locals /\ l.pc = "r_loop" /\ l.job = j /\ l.mode = co["work"].mode /\ l.left = left
    BY <1>1, ToFacts DEF GoesOn
  <2>2. Step(d, l)
    BY <1>4
  <2> HIDE DEF l
  <2>3. CopyOk(l) /\ l.pc \in Executing
    BY <2>1 DEF CopyOk, Executing
  <2>4. co["work"].pc \in Executing \cup {"ra_read", "rs_read"}
    OBVIOUS
  <2> QED
    BY <1>4, <2>1, <2>2, <2>3, <2>4, ExecStep
<1>5. CASE Fail(d)
  BY <1>5, FailFits
<1> QED
  BY <1>3, <1>4, <1>5 DEF Loop

\* The migration is recorded, and the loop begins.
LEMMA MigratingStep ==
    ASSUME UpInv, Migrating
    PROVE  UpInv'
<1>1. co["work"].pc = "r_migrating" /\ Leaves("work")
  BY Stepping DEF Migrating, Coroutines
<1>2. "r_migrating" \in Executing \cap SavePcs
  BY DEF Executing, SavePcs
<1>3. Tame(Save(durable, Wj)) /\ Carries("r_loop", Wj) /\ Wj.meta.phase # "none" /\ Wj.meta.plan \in SUBSET Ops
  BY <1>1, <1>2, SavedWork DEF Carries, Jobs, Metas
<1>4. Loop(Save(durable, Wj), Wj, Wj.meta.plan)
  BY DEF Migrating
<1> QED
  BY <1>1, <1>2, <1>3, <1>4, LoopFits

\* The loop reads the job before the next operation.
LEMMA LoopReadStep ==
    ASSUME UpInv, LoopRead
    PROVE  UpInv'
<1>1. co["work"].pc = "r_loop" /\ Leaves("work")
  BY Stepping DEF LoopRead, Coroutines
<1>2. "r_loop" \in Executing /\ "r_source" \in Pcs
  BY DEF Executing, Pcs, WorkPcs
<1>3. Published(durable) /\ co["work"].left # {}
  BY <1>1, <1>2 DEF UpInv, UpWork, WorkFits
<1> DEFINE j == ReadJob(durable)
           l == Snapshot("r_source", j)
<1>4. j \in Jobs /\ j.meta.phase # "none" /\ Tame(durable)
  BY <1>3, ReadWork
<1>5. Step(durable, l) \/ Fail(durable)
  BY DEF LoopRead
<1> HIDE DEF j
<1>6. l \in Locals /\ l.pc = "r_source" /\ l.job = j /\ l.mode = co["work"].mode /\ l.left = co["work"].left
  BY <1>2, <1>4, ToFacts DEF GoesOn
<1> HIDE DEF l
<1>7. CopyOk(l) /\ l.pc \in Executing
  BY <1>4, <1>6 DEF CopyOk, Executing
<1> QED
  BY <1>1, <1>2, <1>3, <1>4, <1>5, <1>6, <1>7, ExecStep, FailFits

\* There is a least operation.
LEMMA LeastOperation ==
    ASSUME NEW left \in SUBSET Ops, left # {}
    PROVE  \E o \in left : \A p \in left : o <= p
<1> DEFINE Below(o) == {p \in left : p <= o}
           T == {Below(o) : o \in left}
           R == StrictSubsetOrdering(left)
<1>1. N \in Nat /\ left \subseteq Nat
  BY BoundsAreNats DEF Ops
<1>2. IsFiniteSet(left)
  <2>1. IsFiniteSet(1..N)
    BY <1>1, FS_Interval
  <2> QED
    BY <2>1, FS_Subset DEF Ops
<1>3. IsWellFoundedOn(R, SUBSET left)
  BY <1>2, FS_StrictSubsetOrderingWellFounded, FS_FiniteSubsetsOfFinite
<1>4. T \subseteq SUBSET left /\ T # {}
  OBVIOUS
<1>5. PICK t \in T : \A y \in T : ~ (<<y, t>> \in R)
  <2> HIDE DEF T, R
  <2> QED
    BY <1>3, <1>4, WFMin
<1>6. PICK o \in left : t = Below(o)
  BY <1>5
<1>7. ASSUME NEW p \in left, ~(o <= p) PROVE FALSE
  <2>1. p < o /\ p \in Nat /\ o \in Nat
    BY <1>1, <1>7
  <2>2. \A q \in left : q <= p => q <= o
    BY <1>1, <2>1
  <2>3. Below(p) \subseteq Below(o) /\ o \in Below(o) /\ o \notin Below(p)
    <3>1. o <= o /\ ~(o <= p)
      BY <1>7, <2>1
    <3>2. Below(p) \subseteq Below(o)
      BY <2>2
    <3>3. o \in Below(o)
      BY <3>1
    <3>4. o \notin Below(p)
      BY <3>1
    <3> QED
      BY <3>2, <3>3, <3>4
  <2>4. <<Below(p), Below(o)>> \in R
    BY <2>3 DEF StrictSubsetOrdering
  <2> QED
    BY <1>5, <1>6, <1>7, <2>4
<1> QED
  BY <1>7

\* A batch is a set of the operations left.
LEMMA BatchFacts ==
    ASSUME NEW left \in SUBSET Ops, left # {}, NEW j, NEW b \in Batches(left, j)
    PROVE  b \in SUBSET Ops
<1> DEFINE first == CHOOSE o \in left : \A p \in left : o <= p
<1>1. first \in left
  BY LeastOperation
<1>2. b \in {{first}} \/ b \in SUBSET {o \in left : j.out[o] = "none"}
  BY DEF Batches
<1> HIDE DEF first
<1> QED
  BY <1>1, <1>2

\* The next operations are confirmed, sent or refused, as the world shows them.
LEMMA SourceReadStep ==
    ASSUME UpInv, SourceRead
    PROVE  UpInv'
<1>1. co["work"].pc = "r_source" /\ Leaves("work")
  BY Stepping DEF SourceRead, At, JournalPcs, SavePcs, Coroutines
<1>2. "r_source" \in Executing /\ "r_source" \in Entering /\ "r_confirm" \in Plain /\ "r_intent" \in Plain
  BY DEF Executing, Entering, Plain
<1>3. co["work"].left # {} /\ co["work"].left \in SUBSET Ops /\ Tame(durable)
  BY <1>1, WorkTypes, TameFacts DEF UpInv, UpWork, WorkFits
<1>4. Wj \in Jobs /\ Wj.meta.phase # "none"
  BY <1>1, WorkTypes DEF Wj, Carrying
<1>5. CASE Fail(durable)
  BY <1>1, <1>2, <1>3, <1>5, FailFits
<1>6. ASSUME NEW b \in Batches(co["work"].left, Wj),
             \/ Step(durable, [To("r_confirm", Mark(Wj, b, "confirmed")) EXCEPT !.batch = b])
             \/ Step(durable, [To("r_intent", Intents(Wj, b)) EXCEPT !.batch = b])
      PROVE  UpInv'
  <2>1. b \in SUBSET Ops
    BY <1>3, BatchFacts
  <2>2. Carries("r_confirm", Mark(Wj, b, "confirmed")) /\ Carries("r_intent", Intents(Wj, b))
    BY <1>4, <2>1, JobFacts DEF Carries, Outcomes
  <2> QED
    BY <1>1, <1>2, <1>3, <1>6, <2>1, <2>2, PlainStep
<1>7. Fail(durable) \/ \E b \in Batches(co["work"].left, Wj) :
             \/ Step(durable, [To("r_confirm", Mark(Wj, b, "confirmed")) EXCEPT !.batch = b])
             \/ Step(durable, [To("r_intent", Intents(Wj, b)) EXCEPT !.batch = b])
  BY DEF SourceRead
<1> QED
  BY <1>5, <1>6, <1>7

\* A batch that could not be sent goes on to its readback or fails.
LEMMA SendFailedFits ==
    ASSUME UpInv, co["work"].pc \in {"r_intent", "r_send"}, Leaves("work"), NEW d, Tame(d), SendFailed(d)
    PROVE  UpInv'
<1>1. co["work"].pc \in Executing /\ co["work"].pc \in Entering /\ co["work"].pc # "idle"
      /\ "e_read" \in Plain /\ "e_save" \in Plain
  BY DEF Executing, Entering, Plain
<1>2. Wj \in Jobs /\ Wj.meta.phase # "none" /\ co["work"].batch \in SUBSET Ops
  BY WorkTypes DEF Wj, Carrying, SavePcs
<1>3. Carries("e_read", Wj) /\ Carries("e_save", Mark(Wj, co["work"].batch, "uncertain"))
  BY <1>2, JobFacts DEF Carries, Outcomes
<1>4. CASE WorkFails(d)
  BY <1>1, <1>4, TameIsKept, WorkFailsFits
<1>5. CASE Step(d, To("e_read", Wj))
  BY <1>1, <1>3, <1>5, PlainStep
<1>6. CASE Step(d, To("e_save", Mark(Wj, co["work"].batch, "uncertain")))
  BY <1>1, <1>3, <1>6, PlainStep
<1> QED
  BY <1>4, <1>5, <1>6 DEF SendFailed

\* The batch is sent.
LEMMA SendStep ==
    ASSUME UpInv, Send
    PROVE  UpInv'
<1>1. co["work"].pc = "r_intent" /\ Leaves("work")
  BY Stepping DEF Send, Coroutines
<1>2. "r_intent" \in Executing \cap SavePcs
  BY DEF Executing, SavePcs
<1> DEFINE d == Save(durable, Wj)
           l == To("r_send", Wj)
<1>3. Tame(d) /\ Wj \in Jobs /\ Wj.meta.phase # "none" /\ Published(durable)
  BY <1>1, <1>2, SavedWork
<1>4. CASE Fail(d)
  BY <1>1, <1>2, <1>3, <1>4, FailFits
<1>5. CASE SendFailed(d)
  BY <1>1, <1>3, <1>5, SendFailedFits
<1>6. CASE /\ Turn(d, [co EXCEPT !["work"] = l], {"work"})
           /\ world' = [world EXCEPT !.flying = @ \cup co["work"].batch]
           /\ UNCHANGED <<proc, events>>
  <2>1. SameProcess
    <3>1. world \in Worlds /\ co["work"].batch \in SUBSET Ops /\ proc \in Processes
      BY WorkTypes
    <3>2. world' \in Worlds
      BY <1>6, <3>1 DEF Worlds
    <3> QED
      BY <1>1, <1>6, <3>1, <3>2, Stepping, WorkTypes DEF SameProcess
  <2>2. "r_send" \in Pcs
    BY DEF Pcs, WorkPcs, Executing
  <2>3. l \in Locals /\ l.pc = "r_send" /\ l.job = Wj /\ l.mode = co["work"].mode
    BY <1>3, <2>2, ToFacts DEF GoesOn
  <2> HIDE DEF d, l
  <2>4. Kept(d) /\ Published(d)
    BY <1>3, TameFacts, TameIsKept
  <2>5. CopyOk(l) /\ WorkFits(d, l, proc.pid)
    BY <1>3, <2>3, <2>4 DEF CopyOk, WorkFits, WorkPcs, Executing
  <2> QED
    BY <1>1, <1>6, <2>1, <2>3, <2>4, <2>5, WorkMoves
<1> QED
  BY <1>4, <1>5, <1>6 DEF Send

\* Between the send and its readback the copy is still the published job.
LEMMA Sending ==
    ASSUME UpInv, co["work"].pc \in {"r_send", "r_readback"}
    PROVE  /\ Leaves("work") /\ Tame(durable) /\ Wj \in Jobs /\ Wj.meta.phase # "none"
           /\ co["work"].batch \in SUBSET Ops
<1>1. co["work"].pc \notin JournalPcs /\ co["work"].pc \in Carrying
  BY DEF JournalPcs, SavePcs, Carrying
<1> QED
  BY <1>1, Stepping, WorkTypes, TameFacts DEF Wj

\* The answer to the batch arrives.
LEMMA AcknowledgedStep ==
    ASSUME UpInv, Acknowledged
    PROVE  UpInv'
<1>1. co["work"].pc = "r_send" /\ "r_send" \in Entering /\ "r_readback" \in Plain
  BY DEF Acknowledged, At, Entering, Executing, Plain
<1>2. Carries("r_readback", Wj)
  BY <1>1, Sending DEF Carries
<1>3. Step(durable, Snapshot("r_readback", Wj))
  BY DEF Acknowledged
<1> QED
  BY <1>1, <1>2, <1>3, Sending, PlainStep

\* The answer to the batch does not arrive.
LEMMA UnacknowledgedStep ==
    ASSUME UpInv, Unacknowledged
    PROVE  UpInv'
BY Sending, SendFailedFits DEF Unacknowledged, At

\* The job is read to record a single operation as uncertain.
LEMMA UncertainReadStep ==
    ASSUME UpInv, UncertainRead
    PROVE  UpInv'
<1>1. co["work"].pc = "e_read" /\ Leaves("work")
  BY Stepping DEF UncertainRead, Coroutines
<1>2. "e_read" \in Executing /\ "e_read" \in Entering /\ "e_save" \in Plain
  BY DEF Executing, Entering, Plain
<1>3. Published(durable)
  BY <1>1, <1>2 DEF UpInv, UpWork, WorkFits
<1> DEFINE j == ReadJob(durable)
           b == {o \in co["work"].batch : j.out[o] # "none"}
<1>4. j \in Jobs /\ j.meta.phase # "none" /\ Tame(durable)
  BY <1>3, ReadWork
<1>5. b \in SUBSET Ops
  BY WorkTypes
<1>6. Step(durable, To("e_save", Mark(j, b, "uncertain")))
  BY DEF UncertainRead
<1> HIDE DEF j, b
<1>7. Carries("e_save", Mark(j, b, "uncertain"))
  BY <1>4, <1>5, JobFacts DEF Carries, Outcomes
<1> QED
  BY <1>1, <1>2, <1>4, <1>6, <1>7, PlainStep

\* The uncertain batch is recorded.
LEMMA UncertainSavedStep ==
    ASSUME UpInv, UncertainSaved
    PROVE  UpInv'
<1>1. co["work"].pc = "e_save" /\ Leaves("work")
  BY Stepping DEF UncertainSaved, Coroutines
<1>2. "e_save" \in Executing \cap SavePcs
  BY DEF Executing, SavePcs
<1> QED
  BY <1>1, <1>2, SavedWork, FailFits DEF UncertainSaved

\* The world is read back.
LEMMA ReadbackStep ==
    ASSUME UpInv, Readback
    PROVE  UpInv'
<1>1. co["work"].pc = "r_readback" /\ "r_readback" \in Executing /\ "r_readback" \in Entering /\ "r_confirm" \in Plain
  BY DEF Readback, At, Entering, Executing, Plain
<1>2. Carries("r_confirm", Mark(Wj, co["work"].batch, "confirmed"))
  BY <1>1, Sending, JobFacts DEF Carries, Outcomes
<1>3. Step(durable, To("r_confirm", Mark(Wj, co["work"].batch, "confirmed"))) \/ Fail(durable)
  BY DEF Readback
<1> QED
  BY <1>1, <1>2, <1>3, Sending, PlainStep, FailFits

\* The confirmed operations are recorded, and the loop goes on.
LEMMA ConfirmedStep ==
    ASSUME UpInv, Confirmed
    PROVE  UpInv'
<1>1. co["work"].pc = "r_confirm" /\ Leaves("work")
  BY Stepping DEF Confirmed, Coroutines
<1>2. "r_confirm" \in Executing \cap SavePcs
  BY DEF Executing, SavePcs
<1>3. Tame(Save(durable, Wj)) /\ Carries("r_loop", Wj) /\ Wj.meta.phase # "none"
  BY <1>1, <1>2, SavedWork DEF Carries
<1>4. co["work"].left \ co["work"].batch \in SUBSET Ops
  BY WorkTypes
<1>5. Loop(Save(durable, Wj), Wj, co["work"].left \ co["work"].batch)
  BY DEF Confirmed
<1> QED
  BY <1>1, <1>2, <1>3, <1>4, <1>5, LoopFits

\* The verification is recorded, and begins.
LEMMA VerifyingStep ==
    ASSUME UpInv, Verifying
    PROVE  UpInv'
<1>1. co["work"].pc = "r_verifying" /\ Leaves("work")
  BY Stepping DEF Verifying, Coroutines
<1>2. "r_verifying" \in Executing \cap SavePcs /\ "r_verifying" \in Entering /\ "r_check" \in Plain
  BY DEF Executing, SavePcs, Entering, Plain
<1>3. Tame(Save(durable, Wj)) /\ Carries("r_check", Wj)
  BY <1>1, <1>2, SavedWork DEF Carries
<1> QED
  BY <1>1, <1>2, <1>3, PlainStep DEF Verifying

\* The world is verified against the plan.
LEMMA VerifiedStep ==
    ASSUME UpInv, Verified
    PROVE  UpInv'
<1>1. co["work"].pc = "r_check" /\ Leaves("work")
  BY Stepping DEF Verified, At, JournalPcs, SavePcs, Coroutines
<1>2. "r_check" \in Executing /\ "r_check" \in Entering /\ "r_completed" \in Plain
  BY DEF Executing, Entering, Plain
<1>3. Carries("r_completed", Phase(Wj, "completed")) /\ Tame(durable)
  BY JobFacts, WorkTypes, TameFacts DEF Carries, Phases
<1>4. Step(durable, To("r_completed", Phase(Wj, "completed"))) \/ Fail(durable)
  BY DEF Verified
<1> QED
  BY <1>1, <1>2, <1>3, <1>4, PlainStep, FailFits

\* A hook of the migration or of its verification fails.
LEMMA HookFailsStep ==
    ASSUME UpInv, HookFails
    PROVE  UpInv'
<1>1. Leaves("work") /\ co["work"].pc \in Executing /\ Fail(durable)
  BY Stepping DEF HookFails, JournalPcs, SavePcs, Coroutines, Executing
<1> QED
  BY <1>1, TameFacts, FailFits

\* The completed job gives its lease back.
LEMMA CompletedStep ==
    ASSUME UpInv, Completed
    PROVE  UpInv'
<1>1. co["work"].pc = "r_completed" /\ Leaves("work")
  BY Stepping DEF Completed, Coroutines
<1>2. "r_completed" \in Executing \cap SavePcs /\ "r_completed" \in Entering /\ "ex_done" \in Plain
  BY DEF Executing, SavePcs, Entering, Plain
<1> DEFINE d == Save(durable, Wj)
<1>3. Tame(d) /\ Carries("ex_done", Wj)
  BY <1>1, <1>2, SavedWork DEF Carries
<1>4. Tame(DropLease(d))
  <2> HIDE DEF d
  <2>1. d \in Durables /\ proc \in Processes
    BY <1>3, WorkTypes DEF Tame
  <2>2. DropLease(d) \in Durables /\ DropLease(d).mode = d.mode /\ DropLease(d).job = d.job
    BY <2>1, LeaseFacts
  <2> QED
    BY <1>3, <2>2 DEF Tame, SameApproval
<1>5. Step(DropLease(d), To("ex_done", Wj)) \/ Fail(d)
  BY DEF Completed
<1> HIDE DEF d
<1> QED
  BY <1>1, <1>2, <1>3, <1>4, <1>5, PlainStep, FailFits

\* The completed job opens the gate and restarts the process.
LEMMA ExecutedStep ==
    ASSUME UpInv, Executed
    PROVE  UpInv'
<1>1. co["work"].pc = "ex_done" /\ Leaves("work")
  BY Stepping DEF Executed, Coroutines
<1>2. CASE WorkFails(durable)
  BY <1>1, <1>2, TameFacts, TameIsKept, WorkFailsFits
<1>3. CASE /\ Turn(Stage(durable, "activating"), [co EXCEPT !["work"] = Asleep], {"work"})
           /\ proc' = [proc EXCEPT !.aborted = FALSE, !.restarting = TRUE]
           /\ UNCHANGED <<world, events>>
  <2>1. SameProcess
    <3>1. proc \in Processes /\ world \in Worlds
      BY WorkTypes
    <3>2. proc' \in Processes /\ proc'.pid = proc.pid /\ proc'.up = proc.up
      BY <1>3, <3>1 DEF Processes
    <3> QED
      BY <1>1, <1>3, <3>1, <3>2, Stepping, WorkTypes DEF SameProcess
  <2>2. Tame(Stage(durable, "activating"))
    <3>1. "activating" \in Stages /\ durable \in Durables
      BY WorkTypes DEF Stages
    <3> QED
      BY <3>1, StageFacts DEF Tame
  <2> QED
    BY <1>1, <1>3, <2>1, <2>2, TameIsKept, WorkEnds
<1> QED
  BY <1>2, <1>3 DEF Executed

\* The failure of the work reads the job.
LEMMA FailReadStep ==
    ASSUME UpInv, FailRead
    PROVE  UpInv'
<1>1. co["work"].pc = "f_read" /\ Leaves("work")
  BY Stepping DEF FailRead, Coroutines
<1>2. "f_read" \in Executing /\ "f_read" \in Entering /\ "f_save" \in Plain
  BY DEF Executing, Entering, Plain
<1>3. Published(durable)
  BY <1>1, <1>2 DEF UpInv, UpWork, WorkFits
<1> DEFINE j == ReadJob(durable)
<1>4. Carries("f_save", Phase(j, "recovery-required")) /\ Tame(durable)
  BY <1>3, ReadWork, JobFacts DEF Carries, Phases
<1>5. WorkFails(durable) \/ Step(durable, To("f_save", Phase(j, "recovery-required")))
  BY DEF FailRead
<1> HIDE DEF j
<1>6. CASE WorkFails(durable)
  BY <1>1, <1>4, <1>6, TameIsKept, WorkFailsFits
<1>7. CASE Step(durable, To("f_save", Phase(j, "recovery-required")))
  BY <1>1, <1>2, <1>4, <1>7, PlainStep
<1> QED
  BY <1>5, <1>6, <1>7

\* The failure of the work is recorded.
LEMMA FailSavedStep ==
    ASSUME UpInv, FailSaved
    PROVE  UpInv'
<1>1. co["work"].pc = "f_save" /\ Leaves("work")
  BY Stepping DEF FailSaved, Coroutines
<1>2. "f_save" \in Executing \cap SavePcs
  BY DEF Executing, SavePcs
<1>3. Kept(Save(durable, Wj))
  BY <1>1, <1>2, SavedWork, TameIsKept
<1> QED
  BY <1>1, <1>3, WorkFailsFits DEF FailSaved

\* The journal rejects the work.
LEMMA WorkRejectedStep ==
    ASSUME UpInv, WorkRejected
    PROVE  UpInv'
<1>1. Leaves("work") /\ co["work"].pc # "idle"
  BY Stepping DEF WorkRejected, JournalPcs, SavePcs, Coroutines
<1> QED
  BY <1>1, TameFacts, TameIsKept, WorkFailsFits DEF WorkRejected

\* Every step of the work keeps the invariant.
LEMMA WorkStepsKeep ==
    ASSUME UpInv, WorkSteps
    PROVE  UpInv'
BY WorkReconcileStep, PlanReadStep, PlanPreviewStep, PlanSavedStep,
   ApproveReadStep, ApproveSavedStep, ApproveUnacknowledgedStep, ApproveRecoverStep, ApproveSnapshotStep,
   InstallingStep, RetainPreviousStep, PromoteCandidateStep, RegisterCandidateStep, PromotedStep, ApprovedStep,
   ReapproveReadStep, ReapproveSnapshotStep, ReapprovedStep, ResumeReadStep, ResumeSavedStep,
   RunnerReadStep, RunnerOwnsStep, RunnerRestartsStep, RunnerSnapshotStep, MigratingStep, LoopReadStep, SourceReadStep,
   SendStep, AcknowledgedStep, UnacknowledgedStep, UncertainReadStep, UncertainSavedStep, ReadbackStep, ConfirmedStep,
   VerifyingStep, VerifiedStep, HookFailsStep, CompletedStep, ExecutedStep, FailReadStep, FailSavedStep, WorkRejectedStep
   DEF WorkSteps

-----------------------------------------------------------------------------
(* The upgrade: the poll *)

\* What the poll leaves to a work that publishes.
Spares(d) == co["work"].pc = "ap_save" => d.mode.intent /\ d.lease = durable.lease

\* A step of the poll that spares an approval on its way keeps the invariant.
LEMMA PollGoes ==
    ASSUME UpInv, SameProcess, NEW d \in Durables, Records(d), Published(d) <=> Published(durable), Spares(d),
           NEW l \in Locals, CopyOk(l), l.mode.bound => Published(d), l.pc \in PollPcs,
           l.pc \in {"p_job", "p_save"} => Published(d),
           l.pc = "p_lease" /\ (Published(d) \/ co["work"].pc = "ap_save") => Named(l.mode),
           l.pc = "p_reconcile" => d.mode.intent,
           Leaves("poll"), PollTo(d, l)
    PROVE  UpInv'
<1> DEFINE cs == [co EXCEPT !["poll"] = l]
<1>1. cs \in [Coroutines -> Locals] /\ cs["poll"] = l /\ cs["work"] = co["work"] /\ cs["cancel"] = co["cancel"]
  BY DEF UpInv, UpTypes, Coroutines
<1>2. Turn(d, cs, {"poll"})
  BY DEF PollTo
<1> HIDE DEF cs
<1>3. Alike(cs["work"], co["work"]) /\ Alike(cs["cancel"], co["cancel"])
  BY <1>1 DEF Alike
<1> QED
  BY <1>1, <1>2, <1>3, PollMoves DEF Spares

\* The poll ends.
LEMMA PollEnds ==
    ASSUME UpInv, SameProcess, NEW d, Tame(d), Spares(d), Leaves("poll"), PollTo(d, Asleep)
    PROVE  UpInv'
<1>1. Asleep \in Locals /\ Asleep.pc = "idle" /\ ~Asleep.mode.bound
  BY AsleepFacts DEF Pcs, WorkPcs
<1>2. CopyOk(Asleep) /\ Asleep.pc \in PollPcs
  BY <1>1 DEF CopyOk, Carrying, SavePcs, PollPcs
<1>3. Records(d) /\ (Published(d) <=> Published(durable)) /\ d \in Durables
  BY TameIsKept, TameFacts DEF Kept, Tame
<1> QED
  BY <1>1, <1>2, <1>3, PollGoes

\* Records with the same mode and lease spare an approval on its way.
LEMMA SparedIntent ==
    ASSUME UpInv
    PROVE  /\ Spares(durable)
           /\ \A d \in Durables : d.mode = durable.mode /\ d.lease = durable.lease => Spares(d)
           /\ co["work"].pc = "ap_save" => durable.mode.intent /\ durable.lease.token # 0 /\ durable.lease.pid = proc.pid
BY DEF Spares, UpInv, UpWork, WorkFits

\* A poll that fails keeps the invariant.
LEMMA PollFailsFits ==
    ASSUME UpInv, co["poll"].pc # "idle", Leaves("poll"), PollFails(durable)
    PROVE  UpInv'
<1> DEFINE d == RecoveryRequired(durable)
<1>1. SameProcess
  BY Stepping, WorkTypes DEF PollFails, SameProcess
<1>2. d \in Durables /\ SameApproval(durable, d) /\ d.lease = durable.lease
  BY WorkTypes, RecoveryFacts
<1>3. PollTo(d, Asleep)
  BY DEF PollFails
<1> HIDE DEF d
<1>4. Tame(d) /\ Spares(d)
  BY <1>2, SparedIntent DEF Tame, Spares, SameApproval
<1> QED
  BY <1>1, <1>3, <1>4, PollEnds

\* The poll begins.
LEMMA PollStep ==
    ASSUME UpInv, Poll
    PROVE  UpInv'
<1> DEFINE place == IF durable.mode.intent THEN "p_reconcile" ELSE "p_connect"
           l == [Idle(durable.mode) EXCEPT !.pc = place]
<1>1. co["poll"].pc = "idle" /\ proc.up = "maintenance" /\ PollTo(durable, l)
  BY DEF Poll, At
<1>2. SameProcess /\ Leaves("poll")
  BY <1>1, Stepping, WorkTypes DEF Poll, SameProcess, JournalPcs, SavePcs
<1>3. place \in Pcs /\ place \in PollPcs /\ durable.mode \in Modes /\ place \in {"p_reconcile", "p_connect"}
      /\ (place = "p_reconcile" => durable.mode.intent)
  BY WorkTypes DEF Pcs, PollPcs
<1> HIDE DEF place
<1>4. l \in Locals /\ l.pc = place /\ l.mode = durable.mode
  BY <1>3, IdleFacts
<1> HIDE DEF l
<1>5. CopyOk(l) /\ Records(durable) /\ durable \in Durables /\ Spares(durable)
  BY <1>3, <1>4, SparedIntent, WorkTypes DEF CopyOk, Carrying, SavePcs, UpInv, UpBound
<1>6. l.mode.bound => Published(durable)
  BY <1>4, <1>5 DEF Records
<1> QED
  BY <1>1, <1>2, <1>3, <1>4, <1>5, <1>6, PollGoes

\* reconcile, by the poll.
LEMMA PollReconcileStep ==
    ASSUME UpInv, PollReconcile
    PROVE  UpInv'
<1>1. co["poll"].pc = "p_reconcile" /\ Leaves("poll") /\ Head(queue) = "poll"
  BY Stepping, WorkTypes DEF PollReconcile, Served
<1>2. CASE PollFails(durable)
  BY <1>1, <1>2, PollFailsFits
<1>3. CASE /\ PollTo(Settled(durable), [Asleep EXCEPT !.pc = "p_connect"])
           /\ UNCHANGED <<world, proc, events>>
  <2> DEFINE d == Settled(durable)
             l == [Asleep EXCEPT !.pc = "p_connect"]
  <2>1. SameProcess
    BY <1>1, <1>3, Stepping, WorkTypes DEF SameProcess
  <2>2. co["work"].pc # "ap_save"
    BY <1>1, LineOrder DEF UpInv, UpPoll, UpLine
  <2>3. d \in Durables /\ d.job = durable.job /\ (d.mode.bound <=> Published(durable))
    BY WorkTypes, SettledFacts DEF Published
  <2>4. "p_connect" \in Pcs /\ "p_connect" \in PollPcs
    BY DEF Pcs, PollPcs
  <2>5. l \in Locals /\ l.pc = "p_connect" /\ ~l.mode.bound
    BY <2>4, AsleepFacts
  <2>6. PollTo(d, l)
    BY <1>3
  <2> HIDE DEF d, l
  <2>7. Records(d) /\ (Published(d) <=> Published(durable)) /\ Spares(d)
    BY <2>2, <2>3 DEF Records, Published, Named, Spares
  <2>8. CopyOk(l)
    BY <2>5 DEF CopyOk, Carrying, SavePcs
  <2> QED
    BY <1>1, <2>1, <2>3, <2>4, <2>5, <2>6, <2>7, <2>8, PollGoes
<1> QED
  BY <1>2, <1>3 DEF PollReconcile

\* The poll connects the process.
LEMMA PollConnectStep ==
    ASSUME UpInv, PollConnect
    PROVE  UpInv'
<1>1. co["poll"].pc = "p_connect" /\ Leaves("poll")
  BY Stepping, WorkTypes DEF PollConnect, At, JournalPcs, SavePcs
<1>2. CASE PollFails(durable)
  BY <1>1, <1>2, PollFailsFits
<1>3. CASE /\ PollTo(durable, [Asleep EXCEPT !.pc = "p_seed"])
           /\ proc' = IF proc.connected THEN proc
                      ELSE [proc EXCEPT !.connected = TRUE, !.authority = TRUE, !.polled = FALSE]
           /\ UNCHANGED <<world, events>>
  <2> DEFINE l == [Asleep EXCEPT !.pc = "p_seed"]
  <2>1. SameProcess
    <3>1. proc \in Processes
      BY WorkTypes DEF Processes
    <3>2. proc' \in Processes /\ proc'.pid = proc.pid /\ proc'.up = proc.up
      BY <1>3, <3>1 DEF Processes
    <3> QED
      BY <1>1, <1>3, <3>2, Stepping, WorkTypes DEF SameProcess
  <2>2. "p_seed" \in Pcs /\ "p_seed" \in PollPcs
    BY DEF Pcs, PollPcs
  <2>3. l \in Locals /\ l.pc = "p_seed" /\ ~l.mode.bound
    BY <2>2, AsleepFacts
  <2>4. PollTo(durable, l)
    BY <1>3
  <2> HIDE DEF l
  <2>5. Records(durable) /\ durable \in Durables /\ Spares(durable) /\ CopyOk(l)
    BY <2>3, SparedIntent, WorkTypes DEF CopyOk, Carrying, SavePcs, UpInv, UpBound
  <2> QED
    BY <1>1, <2>1, <2>2, <2>3, <2>4, <2>5, PollGoes
<1> QED
  BY <1>2, <1>3 DEF PollConnect

\* The poll seeds the users, the settings and the context of the world.
LEMMA PollSeedStep ==
    ASSUME UpInv, PollSeed
    PROVE  UpInv'
<1>1. co["poll"].pc = "p_seed" /\ Leaves("poll")
  BY Stepping, WorkTypes DEF PollSeed, At, JournalPcs, SavePcs
<1>2. CASE PollFails(durable)
  BY <1>1, <1>2, PollFailsFits
<1> DEFINE l == [Idle(durable.mode) EXCEPT !.pc = "p_lease"]
           cs == [co EXCEPT !["poll"] = l, !["work"].fresh = FALSE]
<1>3. CASE /\ Turn(durable, cs, {"poll"})
           /\ proc' = [proc EXCEPT !.configured = TRUE]
           /\ UNCHANGED <<world, events>>
  <2>1. SameProcess
    <3>1. proc \in Processes
      BY WorkTypes
    <3>2. proc' \in Processes /\ proc'.pid = proc.pid /\ proc'.up = proc.up
      BY <1>3, <3>1 DEF Processes
    <3> QED
      BY <1>1, <1>3, <3>2, Stepping, WorkTypes DEF SameProcess
  <2>2. "p_lease" \in Pcs /\ "p_lease" \in PollPcs /\ durable.mode \in Modes
    BY WorkTypes DEF Pcs, PollPcs
  <2>3. l \in Locals /\ l.pc = "p_lease" /\ l.mode = durable.mode
    BY <2>2, IdleFacts
  <2> HIDE DEF l
  <2>4. cs \in [Coroutines -> Locals] /\ cs["poll"] = l /\ Alike(cs["work"], co["work"]) /\ Alike(cs["cancel"], co["cancel"])
    <3> DEFINE w == [co["work"] EXCEPT !.fresh = FALSE]
    <3>1. w \in Locals /\ Alike(w, co["work"])
      BY WorkTypes DEF Locals, Alike
    <3>2. cs = [co EXCEPT !["poll"] = l, !["work"] = w]
      BY DEF UpInv, UpTypes, Coroutines
    <3> HIDE DEF w, cs
    <3>3. co \in [Coroutines -> Locals] /\ Alike(co["cancel"], co["cancel"])
      BY DEF UpInv, UpTypes, Alike
    <3> QED
      BY <2>3, <3>1, <3>2, <3>3 DEF Coroutines
  <2> HIDE DEF cs
  <2>5. Records(durable) /\ durable \in Durables /\ CopyOk(l)
    BY <2>3, WorkTypes DEF CopyOk, Carrying, SavePcs, UpInv, UpBound
  <2>6. co["work"].pc = "ap_save" => durable.mode.intent
    BY SparedIntent
  <2>7. (l.mode.bound => Published(durable)) /\ (Published(durable) \/ co["work"].pc = "ap_save" => Named(l.mode))
    BY <2>3, <2>5, <2>6 DEF Records, Named
  <2> QED
    BY <1>1, <1>3, <2>1, <2>2, <2>3, <2>4, <2>5, <2>6, <2>7, PollMoves
<1> QED
  BY <1>2, <1>3 DEF PollSeed

\* The mode is saved as it was read before the takeover.
LEMMA PollLeaseStep ==
    ASSUME UpInv, PollLease
    PROVE  UpInv'
<1>1. co["poll"].pc = "p_lease" /\ Leaves("poll")
  BY Stepping, WorkTypes DEF PollLease
<1> DEFINE a == TakeLease(durable)
           m == [Pm EXCEPT !.token = a.issued]
           e == [a EXCEPT !.mode = m]
           place(mode) == IF mode.bound THEN "p_job" ELSE "p_kick"
           l(mode) == [Idle(mode) EXCEPT !.pc = place(mode)]
<1>2. \/ PollFails(durable)
      \/ PollTo(durable, l(Pm)) /\ UNCHANGED <<world, proc, events>>
      \/ Acquirable(durable) /\ PollTo(e, l(m)) /\ UNCHANGED <<world, proc, events>>
  BY DEF PollLease
<1>3. Pm \in Modes /\ (Pm.bound => Published(durable))
  BY WorkTypes DEF Pm
<1>4. a \in Durables /\ a.mode = durable.mode /\ a.job = durable.job /\ a.issued \in Nat
  BY WorkTypes, LeaseFacts
<1> HIDE DEF a
<1>5. m \in Modes /\ m.bound = Pm.bound /\ m.intent = Pm.intent
  BY <1>3, <1>4 DEF Modes
<1> HIDE DEF m
<1>6. e \in Durables /\ e.mode = m /\ e.job = durable.job
  BY <1>4, <1>5 DEF Durables
<1> HIDE DEF e
<1>7. ASSUME NEW k \in Modes, k.bound => Published(durable)
      PROVE  /\ l(k) \in Locals /\ CopyOk(l(k)) /\ (l(k).mode.bound => Published(durable)) /\ l(k).pc \in PollPcs
             /\ (l(k).pc \in {"p_job", "p_save"} => Published(durable)) /\ l(k).pc \notin {"p_lease", "p_reconcile"}
  <2>1. place(k) \in Pcs /\ place(k) \in PollPcs /\ place(k) \in {"p_job", "p_kick"} /\ (place(k) = "p_job" <=> k.bound)
    BY DEF Pcs, PollPcs
  <2> HIDE DEF place
  <2>2. l(k) \in Locals /\ l(k).pc = place(k) /\ l(k).mode = k
    BY <1>7, <2>1, IdleFacts
  <2> HIDE DEF l
  <2>3. CopyOk(l(k))
    BY <2>1, <2>2 DEF CopyOk, Carrying, SavePcs
  <2> QED
    BY <1>7, <2>1, <2>2, <2>3
<1> HIDE DEF l
<1>8. CASE PollFails(durable)
  BY <1>1, <1>8, PollFailsFits
<1>9. CASE PollTo(durable, l(Pm)) /\ UNCHANGED <<world, proc, events>>
  <2>1. SameProcess
    BY <1>1, <1>9, Stepping, WorkTypes DEF SameProcess
  <2>2. Records(durable) /\ durable \in Durables /\ Spares(durable)
    BY SparedIntent, WorkTypes DEF UpInv, UpBound
  <2> QED
    BY <1>1, <1>3, <1>7, <1>9, <2>1, <2>2, PollGoes
<1>10. CASE Acquirable(durable) /\ PollTo(e, l(m)) /\ UNCHANGED <<world, proc, events>>
  <2>1. SameProcess
    BY <1>1, <1>10, Stepping, WorkTypes DEF SameProcess
  <2>2. co["work"].pc # "ap_save"
    BY <1>10, SparedIntent DEF Acquirable
  <2>3. Published(durable) => Named(Pm)
    BY <1>1, <2>2 DEF UpInv, UpPoll, Pm
  <2>4. Records(e) /\ (Published(e) <=> Published(durable)) /\ Spares(e)
    BY <1>3, <1>5, <1>6, <2>2, <2>3 DEF Records, Published, Named, Spares
  <2>5. m.bound => Published(durable)
    BY <1>3, <1>5
  <2> QED
    BY <1>1, <1>5, <1>6, <1>7, <1>10, <2>1, <2>4, <2>5, PollGoes
<1> QED
  BY <1>2, <1>8, <1>9, <1>10

\* The poll reads the job of the mode.
LEMMA PollJobStep ==
    ASSUME UpInv, PollJob
    PROVE  UpInv'
<1>1. co["poll"].pc = "p_job" /\ Leaves("poll")
  BY Stepping, WorkTypes DEF PollJob
<1>2. Published(durable)
  BY <1>1 DEF UpInv, UpPoll
<1> DEFINE j == [ReadJob(durable) EXCEPT !.meta.token = Pm.token]
           l == [co["poll"] EXCEPT !.pc = "p_save", !.job = j]
<1>3. CASE PollFails(durable)
  BY <1>1, <1>3, PollFailsFits
<1>4. CASE PollTo(durable, l) /\ UNCHANGED <<world, proc, events>>
  <2>1. SameProcess
    BY <1>1, <1>4, Stepping, WorkTypes DEF SameProcess
  <2>2. ReadJob(durable) \in Jobs /\ ReadJob(durable).meta.phase # "none" /\ Pm.token \in Nat
    BY <1>2, ReadWork, WorkTypes DEF Pm, Modes
  <2>3. j \in Jobs /\ j.meta.phase # "none"
    BY <2>2, JobFacts
  <2> HIDE DEF j
  <2>4. "p_save" \in Pcs /\ "p_save" \in PollPcs /\ co["poll"] \in Locals
    BY WorkTypes DEF Pcs, PollPcs
  <2>5. l \in Locals /\ l.pc = "p_save" /\ l.job = j
    BY <2>3, <2>4, LocalFacts
  <2> HIDE DEF l
  <2>6. CopyOk(l) /\ Records(durable) /\ durable \in Durables /\ Spares(durable)
    BY <2>3, <2>5, SparedIntent, WorkTypes DEF CopyOk, UpInv, UpBound
  <2> QED
    BY <1>1, <1>2, <1>4, <2>1, <2>4, <2>5, <2>6, PollGoes
<1> QED
  BY <1>3, <1>4 DEF PollJob

\* A poll that starts work starts work the invariant allows.
LEMMA KickFits ==
    ASSUME UpInv, co["poll"].pc # "idle", Leaves("poll"), NEW d, Tame(d), Spares(d), Kick(d)
    PROVE  UpInv'
<1> DEFINE op == IF d.mode.bound THEN "resume" ELSE "plan"
           b == Working(op, d)
           kicks == ~proc.retried /\ d.mode.stage \in {"entering", "isolated", "planning", "executing"}
<1>1. SameProcess
  <2>1. proc \in Processes
    BY WorkTypes
  <2>2. proc' = [proc EXCEPT !.polled = proc.connected, !.retried = @ \/ kicks] /\ world' = world
    BY DEF Kick
  <2>3. (proc.retried \/ kicks) \in BOOLEAN
    OBVIOUS
  <2> HIDE DEF kicks
  <2>4. proc' \in Processes /\ proc'.pid = proc.pid /\ proc'.up = proc.up
    BY <2>1, <2>2, <2>3 DEF Processes
  <2> QED
    BY <2>2, <2>4, Stepping, WorkTypes DEF SameProcess
<1>2. CASE PollTo(d, Asleep)
  BY <1>1, <1>2, PollEnds
<1>3. CASE /\ At("work", "idle") /\ At("cancel", "idle")
           /\ Turn(b.d, [co EXCEPT !["poll"] = Asleep, !["work"] = b.w], {"poll", "work"})
  <2>1. d \in Durables /\ Records(d) /\ (Published(d) <=> Published(durable))
    BY TameIsKept, TameFacts DEF Tame, Kept
  <2>2. op \in WorkOps
    BY DEF WorkOps
  <2> HIDE DEF op
  <2>3. Starts(d, b.d, b.w)
    BY <2>1, <2>2, WorkingFits
  <2> DEFINE e == b.d
             l == b.w
  <2>4. Turn(e, [co EXCEPT !["poll"] = Asleep, !["work"] = l], {"poll", "work"})
    BY <1>3
  <2>5. Starts(d, e, l)
    BY <2>3
  <2> HIDE DEF b, e, l
  <2>6. e \in Durables /\ Records(e) /\ (Published(durable) => Published(e))
    BY <2>1, <2>5 DEF Starts, SameApproval, Records, Published, Named
  <2>7. l \in Locals /\ CopyOk(l) /\ WorkFits(e, l, proc.pid) /\ (l.mode.bound => Published(e))
    BY <2>5 DEF Starts
  <2>8. Asleep \in Locals /\ Asleep.pc = "idle" /\ ~Asleep.mode.bound
    BY AsleepFacts DEF Pcs, WorkPcs
  <2>9. co["work"].pc = "idle" /\ co["cancel"].pc = "idle"
    BY <1>3 DEF At
  <2> QED
    BY <1>1, <2>4, <2>6, <2>7, <2>8, <2>9, Kicked
<1> QED
  BY <1>2, <1>3 DEF Kick

\* The poll saves the job and starts the work.
LEMMA PollSaveStep ==
    ASSUME UpInv, PollSave
    PROVE  UpInv'
<1>1. co["poll"].pc = "p_save" /\ Leaves("poll")
  BY Stepping, WorkTypes DEF PollSave
<1> DEFINE d == Save(durable, co["poll"].job)
<1>2. Tame(d) /\ d.mode = durable.mode /\ d.lease = durable.lease
  BY <1>1, Saving, WorkTypes DEF SavePcs
<1>3. Kick(d)
  BY DEF PollSave
<1> HIDE DEF d
<1>4. Spares(d)
  BY <1>2, SparedIntent DEF Tame
<1> QED
  BY <1>1, <1>2, <1>3, <1>4, KickFits

\* The poll of a mode without a job starts a plan.
LEMMA PollUnboundStep ==
    ASSUME UpInv, PollUnbound
    PROVE  UpInv'
<1>1. co["poll"].pc = "p_kick" /\ Leaves("poll")
  BY Stepping, WorkTypes DEF PollUnbound, At, JournalPcs, SavePcs
<1> QED
  BY <1>1, TameFacts, SparedIntent, KickFits DEF PollUnbound

\* The journal rejects the poll.
LEMMA PollRejectedStep ==
    ASSUME UpInv, PollRejected
    PROVE  UpInv'
<1>1. Leaves("poll") /\ co["poll"].pc # "idle"
  BY Stepping, WorkTypes DEF PollRejected, JournalPcs, SavePcs
<1> QED
  BY <1>1, PollFailsFits DEF PollRejected

\* Every step of the poll keeps the invariant.
LEMMA PollStepsKeep ==
    ASSUME UpInv, PollSteps
    PROVE  UpInv'
BY PollStep, PollReconcileStep, PollConnectStep, PollSeedStep, PollLeaseStep, PollJobStep, PollSaveStep,
   PollUnboundStep, PollRejectedStep DEF PollSteps

-----------------------------------------------------------------------------
(* The upgrade: the cancellation *)

\* A step of the cancellation that publishes nothing keeps the invariant.
LEMMA CancelGoes ==
    ASSUME UpInv, co["work"].pc = "idle", co["cancel"].pc # "idle", Leaves("cancel"), NEW d, Kept(d),
           NEW l \in Locals, CopyOk(l), l.mode.bound => Published(d), l.pc \in CancelPcs,
           l.pc \in Undoing => Published(d) /\ l.mode.bound,
           l.pc = "c_preview" /\ Published(d) => Named(l.mode),
           CancelTo(d, l)
    PROVE  UpInv'
<1>1. SameProcess
  BY Stepping, WorkTypes DEF CancelTo, SameProcess
<1>2. Turn(d, [co EXCEPT !["cancel"] = l], {"cancel"})
  BY DEF CancelTo
<1> QED
  BY <1>1, <1>2, CancelMoves

\* The cancellation ends.
LEMMA CancelEnds ==
    ASSUME UpInv, SameProcess, co["work"].pc = "idle", Leaves("cancel"), NEW d, Kept(d),
           Turn(d, [co EXCEPT !["cancel"] = Asleep], {"cancel"})
    PROVE  UpInv'
<1>1. Asleep \in Locals /\ Asleep.pc = "idle" /\ ~Asleep.mode.bound
  BY AsleepFacts DEF Pcs, WorkPcs
<1>2. CopyOk(Asleep) /\ Asleep.pc \in CancelPcs /\ Asleep.pc \notin Undoing
  BY <1>1 DEF CopyOk, Carrying, SavePcs, CancelPcs, Undoing
<1> QED
  BY <1>1, <1>2, CancelMoves

\* A cancellation that fails keeps the invariant.
LEMMA CancelFailsFits ==
    ASSUME UpInv, co["work"].pc = "idle", co["cancel"].pc # "idle", Leaves("cancel"), NEW d, Kept(d), CancelFails(d)
    PROVE  UpInv'
<1> DEFINE e == RecoveryRequired(d)
<1>1. e \in Durables /\ SameApproval(d, e)
  BY RecoveryFacts DEF Kept
<1>2. CancelTo(e, Asleep)
  BY DEF CancelFails
<1> HIDE DEF e
<1>3. Kept(e)
  BY <1>1 DEF Kept, SameApproval, Records, Published, Named
<1>4. SameProcess
  BY <1>2, Stepping, WorkTypes DEF CancelTo, SameProcess
<1> QED
  BY <1>2, <1>3, <1>4, CancelEnds DEF CancelTo

\* The mode as the cancellation read it names the job.
LEMMA StoppedFits ==
    ASSUME UpInv, co["work"].pc = "idle", co["cancel"].pc # "idle", Leaves("cancel"), NEW d, Tame(d),
           Published(durable) => Named(Cm), NEW b, Stopped(d, b)
    PROVE  UpInv'
<1>1. ASSUME NEW s \in Stages PROVE Kept(StageOf(d, Cm, s))
  <2> DEFINE e == StageOf(d, Cm, s)
  <2>1. d \in Durables /\ Cm \in Modes /\ (Cm.bound => Published(durable)) /\ (Published(d) <=> Published(durable))
    BY WorkTypes, TameFacts DEF Tame, Cm
  <2>2. e \in Durables /\ e.mode.bound = Cm.bound /\ e.mode.intent = Cm.intent /\ e.job = d.job
    BY <2>1, StageOfFacts
  <2> HIDE DEF e
  <2>3. Kept(e)
    BY <2>1, <2>2 DEF Kept, Records, Published, Named
  <2> QED
    BY <2>3 DEF e
<1>2. PICK s \in Stages : Turn(StageOf(d, Cm, s), [co EXCEPT !["cancel"] = Asleep], {"cancel"})
  BY DEF Stopped, CancelTo, Stages
<1>3. SameProcess
  <2>1. proc' = proc \/ proc' = [proc EXCEPT !.restarting = TRUE]
    BY DEF Stopped, CancelTo
  <2>2. proc' \in Processes /\ proc'.pid = proc.pid /\ proc'.up = proc.up
    BY <2>1, WorkTypes DEF Processes
  <2>3. world' = world
    BY DEF Stopped, CancelTo
  <2> QED
    BY <2>2, <2>3, Stepping, WorkTypes DEF SameProcess
<1> QED
  BY <1>1, <1>2, <1>3, CancelEnds

\* The cancellation reads the mode after the work has ended.
LEMMA CancelReadsFits ==
    ASSUME UpInv, co["work"].pc = "idle", co["cancel"].pc # "idle", Leaves("cancel"), NEW d, Kept(d), CancelReads(d)
    PROVE  UpInv'
<1> DEFINE place == IF d.mode.bound THEN "c_job" ELSE "c_preview"
           l == [Idle(d.mode) EXCEPT !.pc = place]
<1>1. CASE CancelFails(d)
  BY <1>1, CancelFailsFits
<1>2. CASE CancelTo(d, l)
  <2>1. d.mode \in Modes /\ Records(d)
    BY DEF Kept, Durables
  <2>2. place \in Pcs /\ place \in CancelPcs /\ place \in {"c_job", "c_preview"} /\ (place = "c_job" <=> d.mode.bound)
    BY DEF Pcs, CancelPcs, Undoing
  <2> HIDE DEF place
  <2>3. l \in Locals /\ l.pc = place /\ l.mode = d.mode
    BY <2>1, <2>2, IdleFacts
  <2> HIDE DEF l
  <2>4. CopyOk(l)
    BY <2>2, <2>3 DEF CopyOk, Carrying, SavePcs
  <2>5. (l.pc \in Undoing => l.mode.bound /\ Published(d)) /\ (l.mode.bound => Published(d))
        /\ (l.pc = "c_preview" /\ Published(d) => Named(l.mode))
    BY <2>1, <2>2, <2>3 DEF Records, Undoing
  <2> QED
    BY <1>2, <2>2, <2>3, <2>4, <2>5, CancelGoes
<1> QED
  BY <1>1, <1>2 DEF CancelReads

\* The cancellation waits for the work to end.
LEMMA CancelWaitsStep ==
    ASSUME UpInv, CancelWaits
    PROVE  UpInv'
<1>1. co["cancel"].pc = "c_wait" /\ co["work"].pc = "idle" /\ Leaves("cancel") /\ Kept(durable)
  BY Stepping, WorkTypes, TameFacts, TameIsKept DEF CancelWaits, At, JournalPcs, SavePcs
<1> DEFINE l == [Asleep EXCEPT !.pc = "c_reconcile"]
<1>2. CASE CancelTo(durable, l)
  <2>1. "c_reconcile" \in Pcs /\ "c_reconcile" \in CancelPcs /\ "c_reconcile" \notin Undoing
    BY DEF Pcs, CancelPcs, Undoing
  <2>2. l \in Locals /\ l.pc = "c_reconcile" /\ ~l.mode.bound
    BY <2>1, AsleepFacts
  <2> HIDE DEF l
  <2>3. CopyOk(l)
    BY <2>2 DEF CopyOk, Carrying, SavePcs
  <2> QED
    BY <1>1, <1>2, <2>1, <2>2, <2>3, CancelGoes
<1>3. CASE CancelReads(durable)
  BY <1>1, <1>3, CancelReadsFits
<1> QED
  BY <1>2, <1>3 DEF CancelWaits, CancelBegins

\* Beyond the wait the work is idle, and the mode the cancellation holds names what is published.
LEMMA Cancelling ==
    ASSUME UpInv, co["cancel"].pc \notin {"idle", "c_wait"}
    PROVE  /\ co["work"].pc = "idle" /\ co["cancel"].pc # "idle"
           /\ co["cancel"].pc \in Undoing \cup {"c_preview"} => (Published(durable) => Named(Cm))
           /\ co["cancel"].pc \in Undoing => Published(durable) /\ Cm.bound
           /\ Cj \in Jobs /\ Cm \in Modes
           /\ Tame(durable) /\ Kept(durable)
BY WorkTypes, TameFacts, TameIsKept DEF UpInv, UpCancel, Cm, Cj, Named

\* reconcile, by the cancellation.
LEMMA CancelReconcileStep ==
    ASSUME UpInv, CancelReconcile
    PROVE  UpInv'
<1>1. co["cancel"].pc = "c_reconcile" /\ Leaves("cancel")
  BY Stepping, WorkTypes DEF CancelReconcile
<1>2. co["work"].pc = "idle" /\ co["cancel"].pc # "idle" /\ Kept(durable) /\ Kept(Settled(durable))
  BY <1>1, Cancelling, SettledIsKept
<1>3. CancelReads(Settled(durable)) \/ CancelFails(durable)
  BY DEF CancelReconcile
<1> QED
  BY <1>1, <1>2, <1>3, CancelReadsFits, CancelFailsFits

\* A lease given back changes no record.
LEMMA TameDrop ==
    ASSUME UpInv, NEW d, Tame(d)
    PROVE  Tame(DropLease(d))
<1>1. d \in Durables /\ proc \in Processes
  BY WorkTypes DEF Tame
<1>2. DropLease(d) \in Durables /\ DropLease(d).mode = d.mode /\ DropLease(d).job = d.job
  BY <1>1, LeaseFacts
<1> QED
  BY <1>2 DEF Tame, SameApproval

\* Without a job the cancellation only gives the lease back.
LEMMA CancelUnboundStep ==
    ASSUME UpInv, CancelUnbound
    PROVE  UpInv'
<1>1. co["cancel"].pc = "c_preview" /\ Leaves("cancel")
  BY Stepping, WorkTypes DEF CancelUnbound
<1>2. co["work"].pc = "idle" /\ co["cancel"].pc # "idle" /\ Tame(durable) /\ Kept(durable) /\ (Published(durable) => Named(Cm))
  BY <1>1, Cancelling
<1>3. CASE CancelFails(durable)
  BY <1>1, <1>2, <1>3, CancelFailsFits
<1>4. CASE Stopped(DropLease(durable), FALSE)
  BY <1>1, <1>2, <1>4, TameDrop, StoppedFits
<1> QED
  BY <1>3, <1>4 DEF CancelUnbound

\* The cancellation goes on with a copy of the job.
LEMMA UndoingGoes ==
    ASSUME UpInv, co["cancel"].pc \in Undoing, Leaves("cancel"), NEW d, Tame(d), NEW place \in Undoing, NEW j, Carries(place, j),
           CancelTo(d, [co["cancel"] EXCEPT !.pc = place, !.job = j])
    PROVE  UpInv'
<1> DEFINE l == [co["cancel"] EXCEPT !.pc = place, !.job = j]
<1>1. co["work"].pc = "idle" /\ co["cancel"].pc # "idle" /\ Published(durable) /\ Cm.bound
  BY Cancelling DEF Undoing
<1>2. Kept(d) /\ Published(d)
  BY <1>1, TameIsKept, TameFacts
<1>3. place \in Pcs /\ place \in CancelPcs /\ place # "c_preview" /\ j \in Jobs /\ co["cancel"] \in Locals
  BY WorkTypes DEF Pcs, CancelPcs, Undoing, Carries
<1>4. l \in Locals /\ l.pc = place /\ l.job = j /\ l.mode = Cm
  BY <1>3 DEF Cm, Locals
<1>5. CancelTo(d, l)
  OBVIOUS
<1> HIDE DEF l
<1>6. CopyOk(l)
  BY <1>4 DEF CopyOk, Carries
<1> QED
  BY <1>1, <1>2, <1>3, <1>4, <1>5, <1>6, CancelGoes

\* The cancellation of a published job fences it or records the failure.
LEMMA CancelDecidesFits ==
    ASSUME UpInv, co["cancel"].pc \in Undoing, Leaves("cancel"), NEW d, Tame(d), NEW j \in Jobs, CancelDecides(d, j)
    PROVE  UpInv'
<1> DEFINE k == Phase(j, "recovery-required")
<1>1. Carries("c_fread", j) /\ Carries("c_fence", k) /\ {"c_fread", "c_fence"} \subseteq Undoing
  BY JobFacts DEF Carries, Carrying, SavePcs, Undoing, Phases
<1>2. \/ CancelTo(d, [co["cancel"] EXCEPT !.pc = "c_fread", !.job = j])
      \/ CancelTo(d, [co["cancel"] EXCEPT !.pc = "c_fence", !.job = k])
  BY DEF CancelDecides
<1> HIDE DEF k
<1> QED
  BY <1>1, <1>2, UndoingGoes

\* The cancellation reads the job of the mode.
LEMMA CancelJobStep ==
    ASSUME UpInv, CancelJob
    PROVE  UpInv'
<1>1. co["cancel"].pc = "c_job" /\ Leaves("cancel") /\ co["cancel"].pc \in Undoing /\ "c_lease" \in Undoing
  BY Stepping, WorkTypes DEF CancelJob, Undoing
<1>2. /\ co["work"].pc = "idle" /\ co["cancel"].pc # "idle" /\ Tame(durable) /\ Kept(durable)
      /\ Published(durable) /\ Named(Cm)
  BY <1>1, Cancelling
<1> DEFINE j == ReadJob(durable)
           d == TakeLease(durable)
           k == [j EXCEPT !.meta.token = d.issued]
<1>3. j \in Jobs /\ Carries("c_lease", k) /\ Tame(d)
  BY <1>2, ReadWork DEF Carries
<1>4. \/ Stopped(durable, j.meta.possibleWrite)
      \/ CancelDecides(durable, j)
      \/ CancelTo(d, [co["cancel"] EXCEPT !.pc = "c_lease", !.job = k])
      \/ CancelFails(durable)
  BY DEF CancelJob
<1> HIDE DEF j, d, k
<1>5. CASE Stopped(durable, j.meta.possibleWrite)
  BY <1>1, <1>2, <1>5, StoppedFits
<1>6. CASE CancelDecides(durable, j)
  BY <1>1, <1>2, <1>3, <1>6, CancelDecidesFits
<1>7. CASE CancelTo(d, [co["cancel"] EXCEPT !.pc = "c_lease", !.job = k])
  BY <1>1, <1>3, <1>7, UndoingGoes
<1>8. CASE CancelFails(durable)
  BY <1>1, <1>2, <1>8, CancelFailsFits
<1> QED
  BY <1>4, <1>5, <1>6, <1>7, <1>8

\* The job's copy is saved on the way back.
LEMMA SavedUndo ==
    ASSUME UpInv, co["cancel"].pc \in {"c_lease", "c_fsave", "c_fence", "c_cancelled"}
    PROVE  /\ co["cancel"].pc \in Undoing /\ co["work"].pc = "idle" /\ co["cancel"].pc # "idle"
           /\ Published(durable) /\ Named(Cm) /\ Cj \in Jobs
           /\ Tame(Save(durable, Cj)) /\ Kept(Save(durable, Cj))
<1>1. co["cancel"].pc \in SavePcs /\ co["cancel"].pc # "ap_save" /\ co["cancel"].pc \in Undoing
      /\ co["cancel"].pc \notin {"idle", "c_wait"}
  BY DEF SavePcs, Undoing
<1>2. Tame(Save(durable, Cj)) /\ Kept(Save(durable, Cj))
  BY <1>1, Saving, WorkTypes DEF Cj
<1> QED
  BY <1>1, <1>2, Cancelling

\* The cancellation saves the job with the lease it took.
LEMMA CancelOwnsStep ==
    ASSUME UpInv, CancelOwns
    PROVE  UpInv'
<1>1. co["cancel"].pc = "c_lease" /\ Leaves("cancel")
  BY Stepping, WorkTypes DEF CancelOwns
<1> QED
  BY <1>1, SavedUndo, CancelDecidesFits DEF CancelOwns

\* The failure of the cancellation reads the job.
LEMMA CancelFailReadStep ==
    ASSUME UpInv, CancelFailRead
    PROVE  UpInv'
<1>1. co["cancel"].pc = "c_fread" /\ Leaves("cancel") /\ co["cancel"].pc \in Undoing /\ "c_fsave" \in Undoing
  BY Stepping, WorkTypes DEF CancelFailRead, Undoing
<1>2. /\ co["work"].pc = "idle" /\ co["cancel"].pc # "idle" /\ Tame(durable)
      /\ Published(durable) /\ Named(Cm)
  BY <1>1, Cancelling
<1> DEFINE k == Phase(ReadJob(durable), "recovery-required")
<1>3. Carries("c_fsave", k)
  BY <1>2, ReadWork, JobFacts DEF Carries, Phases
<1>4. Stopped(durable, TRUE) \/ CancelTo(durable, [co["cancel"] EXCEPT !.pc = "c_fsave", !.job = k])
  BY DEF CancelFailRead
<1> HIDE DEF k
<1>5. CASE Stopped(durable, TRUE)
  BY <1>1, <1>2, <1>5, StoppedFits
<1>6. CASE CancelTo(durable, [co["cancel"] EXCEPT !.pc = "c_fsave", !.job = k])
  BY <1>1, <1>2, <1>3, <1>6, UndoingGoes
<1> QED
  BY <1>4, <1>5, <1>6

\* The failure of the cancellation is recorded.
LEMMA CancelFailSavedStep ==
    ASSUME UpInv, CancelFailSaved
    PROVE  UpInv'
<1>1. co["cancel"].pc = "c_fsave" /\ Leaves("cancel")
  BY Stepping, WorkTypes DEF CancelFailSaved
<1> QED
  BY <1>1, SavedUndo, StoppedFits DEF CancelFailSaved

\* The files of the fenced job go back.
LEMMA CancelFencedStep ==
    ASSUME UpInv, CancelFenced
    PROVE  UpInv'
<1>1. co["cancel"].pc = "c_fence" /\ Leaves("cancel") /\ "c_cancelled" \in Undoing
  BY Stepping, WorkTypes DEF CancelFenced, Undoing
<1> DEFINE d == Save(durable, Cj)
           e == RollBackFiles(d, Cj)
           k == Phase(Cj, "cancelled")
<1>2. Tame(d) /\ Cj \in Jobs /\ co["cancel"].pc \in Undoing
  BY <1>1, SavedUndo
<1>3. Carries("c_cancelled", k)
  BY <1>2, JobFacts DEF Carries, Phases
<1>4. CancelTo(e, [co["cancel"] EXCEPT !.pc = "c_cancelled", !.job = k])
  BY DEF CancelFenced
<1> HIDE DEF d, k
<1>5. Tame(e)
  <2> DEFINE f == [d EXCEPT !.target = "old"]
  <2>1. Tame(f)
    BY <1>2, TameFiles
  <2>2. [d EXCEPT !.target = "old", !.registry = "old"] = [f EXCEPT !.registry = "old"]
    OBVIOUS
  <2> HIDE DEF f
  <2>3. Tame([f EXCEPT !.registry = "old"])
    BY <2>1, TameFiles
  <2> QED
    BY <1>2, <2>2, <2>3 DEF RollBackFiles
<1> HIDE DEF e
<1> QED
  BY <1>1, <1>2, <1>3, <1>4, <1>5, UndoingGoes

\* The cancelled job is saved and its lease given back.
LEMMA CancelledStep ==
    ASSUME UpInv, Cancelled
    PROVE  UpInv'
<1>1. co["cancel"].pc = "c_cancelled" /\ Leaves("cancel")
  BY Stepping, WorkTypes DEF Cancelled
<1> DEFINE d == Save(durable, Cj)
<1>2. /\ Tame(d) /\ Kept(d) /\ co["work"].pc = "idle" /\ co["cancel"].pc # "idle"
      /\ Published(durable) /\ Named(Cm)
  BY <1>1, SavedUndo
<1>3. Stopped(DropLease(d), FALSE) \/ CancelFails(d)
  BY DEF Cancelled
<1> HIDE DEF d
<1>4. CASE Stopped(DropLease(d), FALSE)
  BY <1>1, <1>2, <1>4, TameDrop, StoppedFits
<1>5. CASE CancelFails(d)
  BY <1>1, <1>2, <1>5, CancelFailsFits
<1> QED
  BY <1>3, <1>4, <1>5

\* The journal rejects the cancellation.
LEMMA CancelRejectedStep ==
    ASSUME UpInv, CancelRejected
    PROVE  UpInv'
<1>1. Leaves("cancel") /\ co["cancel"].pc \notin {"idle", "c_wait"}
  BY Stepping, WorkTypes DEF CancelRejected, JournalPcs, SavePcs
<1> QED
  BY <1>1, Cancelling, CancelFailsFits DEF CancelRejected

\* Every step of the cancellation keeps the invariant.
LEMMA CancelStepsKeep ==
    ASSUME UpInv, CancelSteps
    PROVE  UpInv'
BY CancelWaitsStep, CancelReconcileStep, CancelUnboundStep, CancelJobStep, CancelOwnsStep, CancelFailReadStep,
   CancelFailSavedStep, CancelFencedStep, CancelledStep, CancelRejectedStep DEF CancelSteps

-----------------------------------------------------------------------------
(* The upgrade: the process, its death and its replacement *)

\* The records change, no coroutine steps.
LEMMA Outside ==
    ASSUME UpInv, NEW d, Kept(d), durable' = d, d.mode.intent = durable.mode.intent, d.lease = durable.lease,
           co' \in [Coroutines -> Locals], \A w \in Coroutines : Alike(co'[w], co[w]), queue' = queue,
           world' \in Worlds, proc' \in Processes, proc'.pid = proc.pid, proc'.up = proc.up
    PROVE  UpInv'
<1>1. Alike(co'["cancel"], co["cancel"]) /\ Alike(co'["poll"], co["poll"]) /\ Alike(co'["work"], co["work"])
  BY DEF Coroutines
<1>2. UpTypes'
  BY DEF UpTypes, Kept
<1>3. UpLine'
  BY DEF UpInv, UpLine, Alike
<1>4. UpBound'
  BY DEF UpInv, UpBound, Kept, Alike
<1>5. UpWork'
  <2>1. WorkFits(durable, co["work"], proc.pid)
    BY DEF UpInv, UpWork
  <2>2. WorkFits(d, co["work"], proc.pid)
    BY <2>1 DEF WorkFits, Kept
  <2> QED
    BY <2>2, <1>1 DEF UpWork, WorkFits, Alike
<1>6. UpPoll'
  BY <1>1 DEF UpInv, UpPoll, Kept, Alike
<1>7. UpCancel'
  <2>1. Published(d) /\ co["work"].pc = "idle" => Published(durable)
    BY DEF Kept
  <2>2. /\ co'["cancel"].pc = co["cancel"].pc /\ co'["cancel"].mode = co["cancel"].mode
        /\ co'["work"].pc = co["work"].pc
    BY <1>1 DEF Alike
  <2>3. UpCancel /\ (Published(durable) => Published(d))
    BY DEF UpInv, Kept
  <2> QED
    BY <2>1, <2>2, <2>3 DEF UpCancel
<1>8. UpCopies'
  BY <1>1 DEF UpInv, UpCopies, CopyOk, Alike, Coroutines
<1>9. UpDown'
  BY DEF UpInv, UpDown, Alike
<1> QED
  BY <1>2, <1>3, <1>4, <1>5, <1>6, <1>7, <1>8, <1>9 DEF UpInv

\* A save in service may be cut short.
LEMMA Landed ==
    ASSUME UpInv, queue # <<>>, co[Head(queue)].pc \in SavePcs, NEW d \in Landings(durable, co[Head(queue)].job)
    PROVE  Kept(d) /\ d.mode = durable.mode /\ d.lease = durable.lease
<1> DEFINE w == Head(queue)
           s == Save(durable, co[w].job)
<1>1. w \in Coroutines
  BY DEF UpInv, UpLine, Line
<1> HIDE DEF w
<1>2. s.job = co[w].job.meta /\ s.mode = durable.mode /\ Kept(s)
  BY <1>1, Saving DEF w
<1>3. durable \in Durables /\ co[w].job \in Jobs
  BY <1>1, WorkTypes
<1>4. d \in Durables /\ d.mode = durable.mode /\ d.lease = durable.lease /\ d.job \in {durable.job, co[w].job.meta}
  BY <1>3, LandingFacts DEF w
<1>5. Kept(durable)
  BY TameFacts, TameIsKept
<1> HIDE DEF s
<1>6. CASE d.job = durable.job
  BY <1>4, <1>5, <1>6 DEF Kept, Records, Published
<1>7. CASE d.job = s.job
  BY <1>2, <1>4, <1>7 DEF Kept, Records, Published
<1> QED
  BY <1>2, <1>4, <1>6, <1>7

\* cancel: the cancellation begins.
LEMMA CancelStep ==
    ASSUME UpInv, Cancel
    PROVE  UpInv'
<1>1. co["cancel"].pc = "idle" /\ proc.up = "maintenance" /\ world' = world /\ Leaves("cancel")
  BY Stepping, WorkTypes DEF Cancel, At, JournalPcs, SavePcs
<1>2. CASE Turn(RecoveryRequired(durable), co, {}) /\ UNCHANGED proc
  <2> DEFINE d == RecoveryRequired(durable)
  <2>1. d \in Durables /\ SameApproval(durable, d) /\ d.lease = durable.lease
    BY WorkTypes, RecoveryFacts
  <2>2. durable' = d
    BY <1>2 DEF Turn
  <2>3. queue' = queue
    BY <1>2 DEF Turn
  <2>4. co' = co
    BY <1>2 DEF Turn, UpInv, UpTypes
  <2> HIDE DEF d
  <2>5. Kept(d)
    BY <2>1, TameIsKept DEF Tame
  <2>6. co' \in [Coroutines -> Locals] /\ \A w \in Coroutines : Alike(co'[w], co[w])
    BY <2>4 DEF UpInv, UpTypes, Alike
  <2>7. d.mode.intent = durable.mode.intent
    BY <2>1 DEF SameApproval
  <2>8. world' \in Worlds /\ proc' \in Processes /\ proc'.pid = proc.pid /\ proc'.up = proc.up
    BY <1>1, <1>2, WorkTypes
  <2> QED
    BY <2>1, <2>2, <2>3, <2>5, <2>6, <2>7, <2>8, Outside
<1> DEFINE l == [Asleep EXCEPT !.pc = "c_wait"]
<1>3. ASSUME NEW d, d = durable \/ d \in InService,
             Turn(d, [co EXCEPT !["cancel"] = l], {"cancel"}),
             proc' = [proc EXCEPT !.aborted = ~At("work", "idle")]
      PROVE  UpInv'
  <2>1. SameProcess
    <3>1. proc \in Processes /\ (~At("work", "idle")) \in BOOLEAN
      BY WorkTypes
    <3>2. proc' \in Processes /\ proc'.pid = proc.pid /\ proc'.up = proc.up
      BY <1>3, <3>1 DEF Processes
    <3> QED
      BY <1>1, <3>2, WorkTypes DEF SameProcess
  <2>2. "c_wait" \in Pcs /\ "c_wait" \in CancelPcs /\ "c_wait" \notin Undoing
    BY DEF Pcs, CancelPcs, Undoing
  <2>3. l \in Locals /\ l.pc = "c_wait" /\ ~l.mode.bound
    BY <2>2, AsleepFacts
  <2>4. Turn(d, [co EXCEPT !["cancel"] = l], {"cancel"})
    BY <1>3
  <2> HIDE DEF l
  <2>5. CopyOk(l)
    BY <2>3 DEF CopyOk, Carrying, SavePcs
  <2>6. Kept(durable)
    BY TameFacts, TameIsKept
  <2>7. Kept(d) /\ d.mode = durable.mode /\ d.lease = durable.lease
    BY <1>3, <2>6, Landed DEF InService
  <2>8. co["work"].pc = "ap_save" => d.mode.intent /\ d.lease = durable.lease
    BY <2>7, SparedIntent
  <2> QED
    BY <1>1, <2>1, <2>2, <2>3, <2>4, <2>5, <2>7, <2>8, CancelMoves
<1>4. \/ Turn(RecoveryRequired(durable), co, {}) /\ UNCHANGED proc
      \/ \E d : /\ d = durable \/ d \in InService
                /\ Turn(d, [co EXCEPT !["cancel"] = l], {"cancel"})
                /\ proc' = [proc EXCEPT !.aborted = ~At("work", "idle")]
  BY DEF Cancel
<1> QED
  BY <1>2, <1>3, <1>4

\* The drain of the normal runtime.
LEMMA DrainStep ==
    ASSUME UpInv, Drained \/ DrainTimesOut
    PROVE  UpInv'
<1>1. proc' = [proc EXCEPT !.restarting = TRUE] /\ world' = world /\ co' = co /\ queue' = queue
  BY DEF Drained, DrainTimesOut
<1>2. proc' \in Processes /\ proc'.pid = proc.pid /\ proc'.up = proc.up
  BY <1>1, WorkTypes DEF Processes
<1> DEFINE m == [durable.mode EXCEPT !.drained = TRUE]
           d == [durable EXCEPT !.mode = m]
           e == RecoveryRequired(durable)
<1>3. durable' = d \/ durable' = e
  BY DEF Drained, DrainTimesOut
<1>4. m \in Modes /\ m.bound = durable.mode.bound /\ m.intent = durable.mode.intent
  BY WorkTypes DEF Modes
<1> HIDE DEF m
<1>5. d \in Durables /\ SameApproval(durable, d) /\ d.lease = durable.lease
  BY <1>4, WorkTypes DEF Durables, SameApproval
<1>6. e \in Durables /\ SameApproval(durable, e) /\ e.lease = durable.lease
  BY WorkTypes, RecoveryFacts
<1> HIDE DEF d, e
<1>7. Kept(durable') /\ durable'.mode.intent = durable.mode.intent /\ durable'.lease = durable.lease
  BY <1>3, <1>5, <1>6, TameIsKept DEF Tame, SameApproval
<1>8. co' \in [Coroutines -> Locals] /\ \A w \in Coroutines : Alike(co'[w], co[w])
  BY <1>1 DEF UpInv, UpTypes, Alike
<1> QED
  BY <1>1, <1>2, <1>7, <1>8, Outside, WorkTypes

\* The world serves again.
LEMMA WorldReadyStep ==
    ASSUME UpInv, WorldReady
    PROVE  UpInv'
<1> DEFINE d == Stage(durable, "serving")
<1>1. durable' = d /\ UNCHANGED <<world, co, queue, proc>>
  BY DEF WorldReady
<1>2. d \in Durables /\ SameApproval(durable, d) /\ d.lease = durable.lease
  BY WorkTypes, StageFacts DEF Stages
<1> HIDE DEF d
<1>3. Kept(d) /\ d.mode.intent = durable.mode.intent
  BY <1>2, TameIsKept DEF Tame, SameApproval
<1>4. co' \in [Coroutines -> Locals] /\ \A w \in Coroutines : Alike(co'[w], co[w])
  BY <1>1 DEF UpInv, UpTypes, Alike
<1> QED
  BY <1>1, <1>2, <1>3, <1>4, Outside, WorkTypes

\* The messages and the connection.
LEMMA NetworkStep ==
    ASSUME UpInv, Disconnect \/ (\E o \in Ops : Applied(o) \/ Lost(o))
    PROVE  UpInv'
<1>1. durable' = durable /\ queue' = queue
  BY DEF Disconnect, Applied, Lost
<1>2. world' \in Worlds
  BY WorkTypes DEF Disconnect, Applied, Lost, Worlds
<1>3. proc' \in Processes /\ proc'.pid = proc.pid /\ proc'.up = proc.up
  BY WorkTypes DEF Disconnect, Applied, Lost, Processes
<1>4. co' \in [Coroutines -> Locals] /\ \A w \in Coroutines : Alike(co'[w], co[w])
  <2>1. CASE Disconnect
    <3> DEFINE k == [co["work"] EXCEPT !.fresh = FALSE]
    <3>1. k \in Locals /\ Alike(k, co["work"])
      BY WorkTypes DEF Locals, Alike
    <3>2. co' = [co EXCEPT !["work"] = k]
      BY <2>1 DEF Disconnect
    <3> HIDE DEF k
    <3> QED
      BY <3>1, <3>2 DEF UpInv, UpTypes, Alike
  <2>2. CASE co' = co
    BY <2>2 DEF UpInv, UpTypes, Alike
  <2> QED
    BY <2>1, <2>2 DEF Applied, Lost
<1>5. Kept(durable)
  BY TameFacts, TameIsKept
<1> QED
  BY <1>1, <1>2, <1>3, <1>4, <1>5, Outside

\* The worker of the journal exits, and refuses the call it serves.
LEMMA WorkerExitsStep ==
    ASSUME UpInv, WorkerExits
    PROVE  UpInv'
<1> DEFINE w == Head(queue)
           k == [co[w] EXCEPT !.refused = TRUE]
<1>1. queue # <<>> /\ UNCHANGED <<world, queue, proc>>
  BY DEF WorkerExits
<1>2. w \in Coroutines
  BY <1>1 DEF UpInv, UpLine, Line
<1>3. Kept(durable') /\ durable'.mode = durable.mode /\ durable'.lease = durable.lease
  <2>1. CASE durable' = durable
    BY <2>1, TameFacts, TameIsKept
  <2>2. CASE co[w].pc \in SavePcs /\ durable' \in Landings(durable, co[w].job)
    BY <1>1, <2>2, Landed
  <2> QED
    BY <2>1, <2>2 DEF WorkerExits
<1>4. co' \in [Coroutines -> Locals] /\ \A u \in Coroutines : Alike(co'[u], co[u])
  <2>1. k \in Locals /\ Alike(k, co[w])
    BY <1>2, WorkTypes DEF Locals, Alike
  <2>2. co' = [co EXCEPT ![w] = k]
    BY DEF WorkerExits
  <2> HIDE DEF k, w
  <2> QED
    BY <1>2, <2>1, <2>2 DEF UpInv, UpTypes, Alike
<1> QED
  BY <1>1, <1>3, <1>4, Outside, WorkTypes

\* Nothing of a coroutine survives.
LEMMA DiesStep ==
    ASSUME UpInv, Dies
    PROVE  UpInv'
<1>1. Asleep \in Locals /\ Asleep.pc = "idle" /\ ~Asleep.mode.bound
  BY AsleepFacts DEF Pcs, WorkPcs
<1>2. /\ co' = [w \in Coroutines |-> Asleep] /\ queue' = <<>> /\ world' = world
      /\ proc' = [proc EXCEPT !.up = "down", !.connected = FALSE, !.authority = FALSE, !.configured = FALSE,
                              !.polled = FALSE, !.retried = FALSE, !.aborted = FALSE, !.restarting = FALSE]
  BY DEF Dies
<1>3. proc' \in Processes
  BY <1>2, WorkTypes DEF Processes
<1>4. Kept(durable')
  <2>1. CASE durable' = durable
    BY <2>1, TameFacts, TameIsKept
  <2>2. CASE queue # <<>> /\ co[Head(queue)].pc \in SavePcs /\ durable' \in Landings(durable, co[Head(queue)].job)
    BY <2>2, Landed
  <2> QED
    BY <2>1, <2>2 DEF Dies
<1>5. \A w \in Coroutines : co'[w] \in Locals /\ co'[w].pc = "idle" /\ ~co'[w].mode.bound
  BY <1>1, <1>2
<1>6. UpTypes'
  BY <1>1, <1>2, <1>3, <1>4, WorkTypes DEF UpTypes, Kept
<1>7. UpLine'
  <2>1. Line(<<>>) /\ \A w : ~Waits(<<>>, w)
    BY DEF Line, Waits
  <2> QED
    BY <1>2, <1>5, <2>1 DEF UpLine, JournalPcs, SavePcs
<1>8. UpBound'
  BY <1>4, <1>5 DEF UpBound, Kept
<1>9. co'["work"].pc = "idle" /\ co'["poll"].pc = "idle" /\ co'["cancel"].pc = "idle"
  BY <1>5 DEF Coroutines
<1>10. UpWork'
  BY <1>9 DEF UpWork, WorkFits, WorkPcs, Executing
<1>11. UpPoll' /\ UpCancel'
  BY <1>9 DEF UpPoll, PollPcs, UpCancel, CancelPcs, Undoing
<1>12. UpCopies' /\ UpDown'
  BY <1>5 DEF UpCopies, CopyOk, Carrying, SavePcs, UpDown
<1> QED
  BY <1>6, <1>7, <1>8, <1>10, <1>11, <1>12 DEF UpInv

\* What a new process makes of the records.
LEMMA BootStep ==
    ASSUME UpInv, Boot
    PROVE  UpInv'
<1> DEFINE r == RestoreUpgradeMaintenance(durable)
           i == IF r.mode.stage = "entering" THEN Stage(r, "isolated") ELSE r
           d == RestoreMode(r)
<1>1. durable' = d /\ UNCHANGED <<world, co, queue>> /\ proc.up = "down"
  BY DEF Boot
<1>2. proc' \in Processes /\ proc'.up # "down"
  <2>1. PICK u \in {"maintenance", "normal"} : proc' = [proc EXCEPT !.up = u, !.pid = @ + 1]
    BY DEF Boot
  <2>2. proc \in Processes
    BY DEF UpInv, UpTypes
  <2>3. proc.pid + 1 \in Nat
    BY <2>2 DEF Processes
  <2> QED
    BY <2>1, <2>2, <2>3 DEF Processes
<1>3. Tame(r)
  <2>1. Tame(durable)
    BY TameFacts
  <2> QED
    BY <2>1, TameDrop DEF RestoreUpgradeMaintenance
<1> HIDE DEF r
<1>4. Tame(i)
  <2>1. Stage(r, "isolated") \in Durables /\ SameApproval(r, Stage(r, "isolated"))
    BY <1>3, StageFacts DEF Tame, Stages
  <2>2. Tame(Stage(r, "isolated"))
    BY <1>3, <2>1, TameFacts
  <2> QED
    BY <1>3, <2>2
<1>5. d \in {i, Settled(i), RecoveryRequired(i)}
  BY DEF RestoreMode
<1> HIDE DEF i, d
<1>6. Kept(i) /\ Kept(Settled(i)) /\ Kept(RecoveryRequired(i))
  <2>1. Kept(i) /\ i \in Durables
    BY <1>4, TameIsKept DEF Tame
  <2>2. RecoveryRequired(i) \in Durables /\ SameApproval(i, RecoveryRequired(i))
    BY <2>1, RecoveryFacts
  <2>3. Tame(RecoveryRequired(i))
    BY <1>4, <2>2, TameFacts
  <2> QED
    BY <2>1, <2>3, TameIsKept, SettledIsKept
<1>7. Kept(d)
  BY <1>5, <1>6
<1>8. \A w \in Coroutines : co[w].pc = "idle"
  BY <1>1 DEF UpInv, UpDown
<1>9. co["work"].pc = "idle" /\ co["poll"].pc = "idle" /\ co["cancel"].pc = "idle"
  BY <1>8 DEF Coroutines
<1>10. UpTypes' /\ UpLine' /\ UpCopies' /\ UpDown'
  BY <1>1, <1>2, <1>7 DEF UpInv, UpTypes, UpLine, UpCopies, UpDown, Kept
<1>11. UpBound'
  BY <1>1, <1>7 DEF UpInv, UpBound, Kept
<1>12. UpWork'
  BY <1>1, <1>9 DEF UpWork, WorkFits, WorkPcs, Executing
<1>13. UpPoll' /\ UpCancel'
  BY <1>1, <1>9 DEF UpPoll, PollPcs, UpCancel, CancelPcs, Undoing
<1> QED
  BY <1>10, <1>11, <1>12, <1>13 DEF UpInv

-----------------------------------------------------------------------------
(* The upgrade: the theorems *)

\* The invariant holds at the start.
LEMMA UpgradeStarts ==
    ASSUME UpgradeInit
    PROVE  UpInv
<1>1. PICK b \in BOOLEAN :
        /\ durable = [mode |-> EnteredMode(b), job |-> NoMeta, receipts |-> [a \in 1..MaxApprovals |-> NoOutcome],
                      torn |-> FALSE, lease |-> [token |-> 1, pid |-> 1], issued |-> 1, target |-> "old", registry |-> "old"]
        /\ world = [applied |-> {}, flying |-> {}]
        /\ co = [w \in Coroutines |-> Asleep]
        /\ queue = <<>>
        /\ proc = [up |-> "entering", pid |-> 1, connected |-> FALSE, authority |-> FALSE,
                   configured |-> FALSE, polled |-> FALSE, retried |-> FALSE, aborted |-> FALSE, restarting |-> b]
  BY DEF UpgradeInit
<1>2. Asleep \in Locals /\ Asleep.pc = "idle" /\ ~Asleep.mode.bound
  BY AsleepFacts DEF Pcs, WorkPcs
<1>3. EnteredMode(b) \in Modes /\ ~EnteredMode(b).bound /\ NoMeta \in Metas /\ NoMeta.phase = "none" /\ NoOutcome \in Receipts
  BY EmptyFacts DEF NoMeta
<1>4. durable \in Durables /\ ~Published(durable) /\ ~durable.mode.bound
  BY <1>1, <1>3 DEF Durables, Ledgers, Leases, Published
<1>5. proc \in Processes /\ world \in Worlds
  BY <1>1 DEF Processes, Worlds
<1>6. \A w \in Coroutines : co[w] \in Locals /\ co[w].pc = "idle" /\ ~co[w].mode.bound
  BY <1>1, <1>2
<1>7. UpTypes
  BY <1>1, <1>2, <1>4, <1>5 DEF UpTypes
<1>8. UpLine
  <2>1. Line(<<>>) /\ \A w : ~Waits(<<>>, w)
    BY DEF Line, Waits
  <2> QED
    BY <1>1, <1>6, <2>1 DEF UpLine, JournalPcs, SavePcs
<1>9. UpBound
  BY <1>4, <1>6 DEF UpBound, Records
<1>10. co["work"].pc = "idle" /\ co["poll"].pc = "idle" /\ co["cancel"].pc = "idle"
  BY <1>6 DEF Coroutines
<1>11. UpWork
  BY <1>10 DEF UpWork, WorkFits, WorkPcs, Executing
<1>12. UpPoll /\ UpCancel
  BY <1>10 DEF UpPoll, PollPcs, UpCancel, CancelPcs, Undoing
<1>13. UpCopies /\ UpDown
  BY <1>6 DEF UpCopies, CopyOk, Carrying, SavePcs, UpDown
<1> QED
  BY <1>7, <1>8, <1>9, <1>11, <1>12, <1>13 DEF UpInv

\* Every step keeps the invariant.
LEMMA UpgradeKeeps ==
    ASSUME UpInv, [UpgradeNext]_upgradeVars
    PROVE  UpInv'
<1>1. CASE UNCHANGED upgradeVars
  BY <1>1 DEF upgradeVars, UpInv, UpTypes, UpLine, UpBound, UpWork, UpPoll, UpCancel, UpCopies, UpDown
<1>2. CASE UpgradeNext
  BY <1>2, CommandStep, CancelStep, DiesStep, WorkerExitsStep, NetworkStep, WorkStepsKeep, PollStepsKeep, CancelStepsKeep,
     DrainStep, BootStep, WorldReadyStep DEF UpgradeNext, Process, Crash, Restart
<1> QED
  BY <1>1, <1>2

\* The invariant of the upgrade.
THEOREM UpgradeInvariance == UpgradeSpec => []UpInv
<1>1. UpgradeInit => UpInv
  BY UpgradeStarts
<1>2. UpInv /\ [UpgradeNext]_upgradeVars => UpInv'
  BY UpgradeKeeps
<1> QED
  BY <1>1, <1>2, PTL DEF UpgradeSpec

\* No more wait for the journal than there are coroutines.
LEMMA LineIsShort ==
    ASSUME NEW q, Line(q)
    PROVE  Len(q) <= 3
<1>1. SUFFICES ASSUME ~(Len(q) <= 3) PROVE FALSE
  OBVIOUS
<1>2. Len(q) \in Nat /\ 1 \in 1..Len(q) /\ 2 \in 1..Len(q) /\ 3 \in 1..Len(q) /\ 4 \in 1..Len(q)
  BY <1>1 DEF Line
<1>3. q[1] \in Coroutines /\ q[2] \in Coroutines /\ q[3] \in Coroutines /\ q[4] \in Coroutines
  BY <1>2 DEF Line
<1>4. q[1] # q[2] /\ q[1] # q[3] /\ q[1] # q[4] /\ q[2] # q[3] /\ q[2] # q[4] /\ q[3] # q[4]
  BY <1>2 DEF Line
<1> QED
  BY <1>3, <1>4 DEF Coroutines

\* Every variable of the upgrade keeps its shape, and a coroutine waits in the journal's line exactly while it
\* waits for the journal, for every number of operations and approvals.
THEOREM UpgradeTypes == UpgradeSpec => []UpgradeTypeOK
<1>1. UpInv => UpgradeTypeOK
  <2>1. HAVE UpInv
  <2>2. /\ durable.mode \in Modes /\ durable.job \in Metas
        /\ durable.receipts \in [1..MaxApprovals -> Receipts] /\ durable.torn \in BOOLEAN
        /\ durable.lease \in [token : Nat, pid : Nat]
        /\ durable.target \in {"old", "gone", "new"} /\ durable.registry \in {"old", "new"}
    BY <2>1 DEF UpInv, UpTypes, Durables, Ledgers, Leases
  <2>3. world \in [applied : SUBSET Ops, flying : SUBSET Ops]
    BY <2>1 DEF UpInv, UpTypes, Worlds
  <2>4. ASSUME NEW w \in Coroutines
        PROVE  /\ co[w].mode \in Modes /\ co[w].job \in [meta : Metas, out : Receipts]
               /\ co[w].pc \in JournalPcs \cup NetworkPcs \cup {"idle", "p_kick", "c_wait"}
               /\ (co[w].pc \in JournalPcs) <=> (\E i \in DOMAIN queue : queue[i] = w)
    <3>1. co[w] \in Locals
      BY <2>1 DEF UpInv, UpTypes
    <3>2. co[w].mode \in Modes /\ co[w].job \in [meta : Metas, out : Receipts] /\ co[w].pc \in Pcs
      BY <3>1 DEF Locals, Jobs
    <3>3. co[w].pc \in JournalPcs \cup NetworkPcs \cup {"idle", "p_kick", "c_wait"}
      BY <3>2 DEF Pcs, WorkPcs, Reviewing, Executing, PollPcs, CancelPcs, Undoing, JournalPcs, SavePcs, NetworkPcs
    <3>4. DOMAIN queue = 1..Len(queue)
      BY <2>1 DEF UpInv, UpLine, Line
    <3>5. (co[w].pc \in JournalPcs) <=> (\E i \in DOMAIN queue : queue[i] = w)
      BY <2>1, <3>4 DEF UpInv, UpLine, Waits
    <3> QED
      BY <3>2, <3>3, <3>5
  <2>5. Len(queue) <= 3
    BY <2>1, LineIsShort DEF UpInv, UpLine
  <2> QED
    BY <2>2, <2>3, <2>4, <2>5 DEF UpgradeTypeOK
<1> QED
  BY <1>1, UpgradeInvariance, PTL

\* Whatever step of the first approval was cut, a published job is bound to the mode or to the intent that will
\* bind it.
THEOREM ApprovalsAreBound == UpgradeSpec => []ApprovalIsBound
<1>1. UpInv => ApprovalIsBound
  BY DEF UpInv, UpBound, Records, Published, Named, ApprovalIsBound
<1> QED
  BY <1>1, UpgradeInvariance, PTL

-----------------------------------------------------------------------------
(* The upgrade: whole worlds *)

FilesAre(d, v) == d.target = v /\ d.registry = v
Sent(w) == w.applied \cup w.flying
DeclaredIn(d) == {o \in Ops : \E a \in 1..MaxApprovals : d.receipts[a][o] # "none"}

\* What the metadata of a job, on the disk or on its way there, say of the files and of the world.
MetaFits(m, d, done) ==
    /\ m.possibleWrite => m.transition = "registered" /\ FilesAre(d, "new") /\ m.phase \notin {"none", "cancelled"}
    /\ m.transition = "none" => FilesAre(d, "old")
    /\ m.transition # "none" => Ops \ m.plan \subseteq done
    /\ m.transition = "registered" /\ d.target = "new" => d.registry = "new"
    /\ m.phase = "none" => m.transition = "none"
    /\ m.phase = "completed" => m.transition = "registered" /\ FilesAre(d, "new") /\ done = Ops
    /\ m.phase = "cancelled" => FilesAre(d, "old")

\* The job on the disk fits, and nothing was sent that it does not declare.
Sound(d, w) ==
    /\ MetaFits(d.job, d, w.applied)
    /\ Sent(w) # {} => d.job.possibleWrite
    /\ Sent(w) \subseteq DeclaredIn(d)

Approving == {"ap_save", "ap_snapshot", "ap_install", "ap_intent", "ap_retained", "ap_promoted", "ap_registered", "ap_restart"}
Running   == {"r_restart", "r_snapshot", "r_migrating", "r_source", "r_intent", "r_send", "r_readback",
              "r_confirm", "r_verifying", "r_check", "r_completed"}
Bearing   == Approving \cup Running \cup {"ra_snapshot", "ra_save", "rs_save", "r_lease", "e_save", "f_save"}

\* What the place that the work has reached tells of its job and of the files.
Placed(place, d, done, m) ==
    /\ place \in Bearing => MetaFits(m, d, done) /\ (d.job.possibleWrite => m.possibleWrite)
    /\ place \in Approving => ~m.possibleWrite /\ m.phase \notin {"completed", "cancelled"}
    /\ place \in {"ap_save", "ap_snapshot", "ap_install"} => m.transition = "none"
    /\ place = "ap_install" => Ops \ m.plan \subseteq done
    /\ place = "ap_intent" => m.transition = "intent" /\ FilesAre(d, "old")
    /\ place = "ap_retained" => m.transition = "previous-retained" /\ d.target = "gone" /\ d.registry = "old"
    /\ place = "ap_promoted" => m.transition = "promoted" /\ d.target = "new" /\ d.registry = "old"
    /\ place \in {"ap_registered", "ap_restart"} => m.transition = "registered" /\ d.target = "new"
    /\ place \in Running \cup {"r_lease", "r_loop"} => d.target = "new"
    /\ place \in Running \cup {"r_loop"} => d.job.transition = "registered"
    /\ place \in Running => m.transition = "registered"
    /\ place = "r_completed" => m.phase = "completed"

\* The phases of a job that is not open, the places whose owner need not hold the lease, and who holds it.
Ended == {"none", "completed", "cancelled"}
Loose == {"idle", "w_reconcile", "pl_read", "pl_preview", "pl_save", "ap_read", "ap_recover", "ra_read", "rs_read",
          "r_job", "ex_done"}
Claimed(d, pid) == d.lease.token # 0 /\ d.lease.pid = pid

\* What the work holds.
WorkHolds(d, done, l, pid) ==
    /\ Placed(l.pc, d, done, l.job.meta)
    /\ l.pc = "r_intent" => l.job.meta.possibleWrite /\ \A o \in l.batch : l.job.out[o] # "none"
    /\ l.pc \notin Loose \cup {"rs_save"} => Claimed(d, pid)
    /\ l.pc = "rs_save" => d.job.phase \notin Ended /\ l.job.meta.phase = "restarting"

\* A copy that says what the disk says, but for its token and for what the phase says of a job still open.
Agrees(d, done, j) ==
    /\ MetaFits(j.meta, d, done)
    /\ j.meta.possibleWrite <=> d.job.possibleWrite
    /\ j.meta.phase = "completed" <=> d.job.phase = "completed"
    /\ \A o \in Ops : j.out[o] # "none" => d.receipts[j.meta.approval][o] = j.out[o]

CancelSaves == {"c_lease", "c_fsave", "c_fence", "c_cancelled"}
CancelHolds(d, done, l) ==
    /\ l.pc \in CancelSaves => Agrees(d, done, l.job)
    /\ l.pc \in {"c_lease", "c_fread", "c_fsave", "c_fence"} => d.job.phase \notin Ended
    /\ l.pc \in {"c_lease", "c_fsave", "c_fence"} => l.job.meta.phase \notin Ended
    /\ l.pc \in {"c_fence", "c_cancelled"} => ~l.job.meta.possibleWrite
    /\ l.pc = "c_cancelled" => l.job.meta.phase = "cancelled"
    /\ l.pc = "c_preview" => ~Named(l.mode)

Frees(m) == m.stage \in {"activating", "serving"}
WholeWorld(d, w) ==
    \/ d.job.phase = "completed" /\ w.applied = Ops /\ FilesAre(d, "new")
    \/ Sent(w) = {} /\ FilesAre(d, "old")

\* The world is whole, and nobody is about to change it: the job is not open, and the work holds no copy of one.
Closed(d, w, k) == WholeWorld(d, w) /\ d.job.phase \in Ended /\ k.pc \in Loose

\* Whatever releases the world finds it closed; so does the mode that the poll read while it was released, unless
\* the lease was taken since, when the poll may not write that mode back.
Releases(d, w, k, p, pid) ==
    /\ Frees(d.mode) => Closed(d, w, k) /\ ~d.torn
    /\ p.pc = "p_lease" /\ Frees(p.mode) /\ ~Claimed(d, pid) => Closed(d, w, k)

Whole(d, w, k, p, c, pid) ==
    /\ Sound(d, w) /\ WorkHolds(d, w.applied, k, pid) /\ CancelHolds(d, w.applied, c)
    /\ Releases(d, w, k, p, pid)

WholeInv == Whole(durable, world, co["work"], co["poll"], co["cancel"], proc.pid)

\* Nothing declared is taken back.
Grows(d, e) == (d.job.possibleWrite => e.job.possibleWrite) /\ DeclaredIn(d) \subseteq DeclaredIn(e)

\* What a step may do to the declarations and to the verdict.
Declared(d) == IF d.job.possibleWrite THEN DeclaredIn(d) ELSE {}
Follows(d, e) ==
    /\ Declared(d) \subseteq Declared(e)
    /\ Frees(d.mode) \/ Frees(e.mode) => Declared(e) = Declared(d)
    /\ Frees(d.mode) /\ Frees(e.mode) => (d.job.phase = "completed" <=> e.job.phase = "completed")
Outcome == WholeInv' /\ Follows(durable, durable') /\ world'.applied = world.applied

-----------------------------------------------------------------------------
(* The upgrade: one turn of a whole world *)

\* All that the invariant sees of a coroutine.
Same(k, l) == Alike(k, l) /\ k.batch = l.batch

\* The records and the coroutines after a turn.
LEMMA TurnTells ==
    ASSUME NEW d, NEW cs \in [Coroutines -> Locals], NEW s, Turn(d, cs, s)
    PROVE  durable' = d /\ \A u \in Coroutines : Same(co'[u], cs[u])
<1> DEFINE calling == {w \in s : cs[w].pc \in JournalPcs}
           signal == cs["work"].pc # "idle"
<1>1. /\ durable' = d
      /\ co' = [w \in Coroutines |-> IF w \in calling THEN [cs[w] EXCEPT !.sig = signal /\ w = "poll", !.refused = FALSE] ELSE cs[w]]
  BY DEF Turn
<1> HIDE DEF signal
<1>2. ASSUME NEW u \in Coroutines PROVE Same(co'[u], cs[u])
  <2>1. cs[u] \in Locals
    OBVIOUS
  <2>2. CASE u \in calling
    <3>1. co'[u] = [cs[u] EXCEPT !.sig = signal /\ u = "poll", !.refused = FALSE]
      BY <1>1, <2>2
    <3> QED
      BY <3>1, <2>1 DEF Locals, Same, Alike
  <2>3. CASE u \notin calling
    BY <1>1, <2>1, <2>3 DEF Same, Alike
  <2> QED
    BY <2>2, <2>3
<1> QED
  BY <1>1, <1>2

\* What is seen of the coroutines decides.
LEMMA SeenAlike ==
    ASSUME NEW k, NEW p, NEW c, NEW r, NEW s, NEW t, Same(r, k), Same(s, p), Same(t, c), NEW d, NEW w, NEW pid
    PROVE  Whole(d, w, k, p, c, pid) => Whole(d, w, r, s, t, pid)
<1>1. r.pc = k.pc /\ r.mode = k.mode /\ r.job = k.job /\ r.batch = k.batch
      /\ s.pc = p.pc /\ s.mode = p.mode /\ s.job = p.job /\ t.pc = c.pc /\ t.mode = c.mode /\ t.job = c.job
  BY DEF Same, Alike
<1>2. WorkHolds(d, w.applied, k, pid) => WorkHolds(d, w.applied, r, pid)
  BY <1>1 DEF WorkHolds
<1>3. CancelHolds(d, w.applied, c) => CancelHolds(d, w.applied, t)
  BY <1>1 DEF CancelHolds
<1>4. Releases(d, w, k, p, pid) => Releases(d, w, r, s, pid)
  BY <1>1 DEF Releases, Closed
<1> QED
  BY <1>2, <1>3, <1>4 DEF Whole

\* A turn that leaves a whole world.
LEMMA WholeTurn ==
    ASSUME NEW d, NEW cs \in [Coroutines -> Locals], NEW s, Turn(d, cs, s),
           Whole(d, world', cs["work"], cs["poll"], cs["cancel"], proc'.pid),
           Follows(durable, d), world'.applied = world.applied
    PROVE  Outcome
<1> DEFINE k == co'["work"]
           p == co'["poll"]
           c == co'["cancel"]
<1>1. durable' = d /\ Same(k, cs["work"]) /\ Same(p, cs["poll"]) /\ Same(c, cs["cancel"])
  BY TurnTells DEF Coroutines
<1> HIDE DEF k, p, c
<1>2. Whole(d, world', k, p, c, proc'.pid)
  BY <1>1, SeenAlike
<1>3. WholeInv'
  BY <1>1, <1>2 DEF WholeInv, k, p, c
<1> QED
  BY <1>1, <1>3 DEF Outcome

\* The records d and e tell the same of the job, but for its token, of its files and of its writes.
Twin(m, n) ==
    /\ n.phase = m.phase /\ n.possibleWrite = m.possibleWrite /\ n.transition = m.transition
    /\ n.plan = m.plan /\ n.approval = m.approval
SameJob(d, e) ==
    /\ Twin(d.job, e.job) /\ e.receipts = d.receipts /\ e.torn = d.torn
    /\ e.target = d.target /\ e.registry = d.registry

\* What is said of the one is said of the other.
LEMMA SameJobFacts ==
    ASSUME NEW d, NEW e, SameJob(d, e)
    PROVE  /\ \A w : Sound(d, w) => Sound(e, w)
           /\ \A m, done : MetaFits(m, d, done) => MetaFits(m, e, done)
           /\ \A j, done : Agrees(d, done, j) => Agrees(e, done, j)
           /\ \A w, k : Closed(d, w, k) => Closed(e, w, k)
           /\ \A p, done, m : Placed(p, d, done, m) => Placed(p, e, done, m)
           /\ \A done, l : CancelHolds(d, done, l) => CancelHolds(e, done, l)
           /\ DeclaredIn(e) = DeclaredIn(d) /\ Declared(e) = Declared(d)
           /\ Follows(d, e) /\ Grows(d, e)
           /\ (d.job.phase \in Ended <=> e.job.phase \in Ended)
<1>1. Twin(d.job, e.job) /\ e.receipts = d.receipts /\ e.target = d.target /\ e.registry = d.registry
  BY DEF SameJob
<1>2. DeclaredIn(e) = DeclaredIn(d) /\ Declared(e) = Declared(d) /\ Grows(d, e)
  BY <1>1 DEF DeclaredIn, Declared, Twin, Grows
<1>3. \A m, done : MetaFits(m, d, done) => MetaFits(m, e, done)
  BY <1>1 DEF MetaFits, FilesAre
<1>4. ASSUME NEW w, Sound(d, w) PROVE Sound(e, w)
  <2>1. MetaFits(d.job, e, w.applied)
    BY <1>3, <1>4 DEF Sound
  <2>2. MetaFits(e.job, e, w.applied)
    BY <2>1, <1>1 DEF MetaFits, Twin
  <2> QED
    BY <2>2, <1>1, <1>2, <1>4 DEF Sound, Twin
<1>5. \A j, done : Agrees(d, done, j) => Agrees(e, done, j)
  BY <1>1, <1>3 DEF Agrees, Twin
<1>6. \A w, k : Closed(d, w, k) => Closed(e, w, k)
  BY <1>1 DEF Closed, WholeWorld, FilesAre, Twin
<1>7. Follows(d, e) /\ (d.job.phase \in Ended <=> e.job.phase \in Ended)
  BY <1>1, <1>2 DEF Follows, Twin
<1>8. \A p, done, m : Placed(p, d, done, m) => Placed(p, e, done, m)
  BY <1>1, <1>3 DEF Placed, FilesAre, Twin
<1>9. \A done, l : CancelHolds(d, done, l) => CancelHolds(e, done, l)
  BY <1>5, <1>7 DEF CancelHolds
<1> QED
  BY <1>2, <1>3, <1>4, <1>5, <1>6, <1>7, <1>8, <1>9

\* The job itself, with what belongs to it.
LEMMA JobIsTwin ==
    ASSUME NEW d, NEW e, e.job = d.job, e.receipts = d.receipts, e.torn = d.torn, e.target = d.target, e.registry = d.registry
    PROVE  SameJob(d, e)
BY DEF SameJob, Twin

\* What changes the mode or the lease leaves the job alone.
LEMMA ModeChanges ==
    ASSUME NEW d \in Durables
    PROVE  /\ \A s : SameJob(d, Stage(d, s)) /\ (s \in Stages => Stage(d, s).mode.stage = s /\ Stage(d, s).mode.drained = d.mode.drained
                                                                 /\ Stage(d, s).mode.intent = d.mode.intent)
           /\ \A m \in Modes, s \in Stages :
                 LET e == StageOf(d, m, s)
                 IN SameJob(d, e) /\ e.mode.stage = s /\ e.mode.drained = m.drained /\ e.mode.intent = m.intent
           /\ SameJob(d, Settled(d)) /\ Settled(d).mode.stage = d.mode.stage /\ Settled(d).mode.drained = d.mode.drained
           /\ ~Settled(d).mode.intent
           /\ SameJob(d, DropLease(d)) /\ DropLease(d).mode = d.mode
           /\ SameJob(d, TakeLease(d)) /\ TakeLease(d).mode = d.mode
           /\ SameJob(d, ModeLease(d)) /\ ModeLease(d).mode.stage = d.mode.stage /\ ModeLease(d).mode.drained = d.mode.drained
<1>1. ASSUME NEW m PROVE SameJob(d, [d EXCEPT !.mode = m]) /\ [d EXCEPT !.mode = m].mode = m
  BY DEF Durables, SameJob, Twin
<1>2. d.mode \in Modes /\ d = [d EXCEPT !.mode = d.mode]
  BY DEF Durables
<1>3. ASSUME NEW s PROVE SameJob(d, Stage(d, s)) /\ (s \in Stages => Stage(d, s).mode.stage = s /\ Stage(d, s).mode.drained = d.mode.drained
                                                                     /\ Stage(d, s).mode.intent = d.mode.intent)
  <2> DEFINE m == [d.mode EXCEPT !.stage = s]
  <2>1. Stage(d, s) = [d EXCEPT !.mode = m]
    BY DEF Stage, Durables
  <2>2. m.stage = s /\ m.drained = d.mode.drained /\ m.intent = d.mode.intent
    BY <1>2 DEF Modes
  <2> HIDE DEF m
  <2> QED
    BY <1>1, <2>1, <2>2
<1>4. ASSUME NEW m \in Modes, NEW s \in Stages
      PROVE  LET e == StageOf(d, m, s)
             IN SameJob(d, e) /\ e.mode.stage = s /\ e.mode.drained = m.drained /\ e.mode.intent = m.intent
  <2> DEFINE n == [m EXCEPT !.stage = s]
  <2>1. StageOf(d, m, s) = [d EXCEPT !.mode = n]
    BY DEF StageOf
  <2>2. n.stage = s /\ n.drained = m.drained /\ n.intent = m.intent
    BY DEF Modes
  <2> HIDE DEF n
  <2> QED
    BY <1>1, <2>1, <2>2
<1>5. SameJob(d, Settled(d)) /\ Settled(d).mode.stage = d.mode.stage /\ Settled(d).mode.drained = d.mode.drained
      /\ ~Settled(d).mode.intent
  <2> DEFINE m == [d.mode EXCEPT !.intent = FALSE, !.bound = d.job.phase # "none"]
  <2>1. Settled(d) = [d EXCEPT !.mode = m]
    BY DEF Settled, Durables
  <2>2. m.stage = d.mode.stage /\ m.drained = d.mode.drained /\ ~m.intent
    BY <1>2 DEF Modes
  <2> HIDE DEF m
  <2> QED
    BY <1>1, <2>1, <2>2
<1>6. SameJob(d, DropLease(d)) /\ DropLease(d).mode = d.mode
  BY DEF DropLease, Durables, SameJob, Twin
<1>7. SameJob(d, TakeLease(d)) /\ TakeLease(d).mode = d.mode
  BY DEF TakeLease, Durables, SameJob, Twin
<1>8. SameJob(d, ModeLease(d)) /\ ModeLease(d).mode.stage = d.mode.stage /\ ModeLease(d).mode.drained = d.mode.drained
  <2>1. CASE Held(d, d.mode.token)
    BY <2>1 DEF ModeLease, SameJob, Twin
  <2>2. CASE ~Held(d, d.mode.token)
    <3> DEFINE a == [d EXCEPT !.issued = @ + 1, !.lease = [token |-> d.issued + 1, pid |-> proc.pid]]
               n == [d.mode EXCEPT !.token = a.issued]
    <3>1. TakeLease(d) = a /\ a.mode = d.mode
      BY DEF TakeLease, Durables
    <3>2. ModeLease(d) = [a EXCEPT !.mode.token = a.issued]
      BY <2>2, <3>1 DEF ModeLease
    <3>3. SameJob(d, a)
      BY DEF Durables, SameJob, Twin
    <3>4. [a EXCEPT !.mode.token = a.issued] = [a EXCEPT !.mode = n]
      BY <3>1
    <3>5. SameJob(d, [a EXCEPT !.mode = n]) /\ [a EXCEPT !.mode = n].mode = n
      BY <3>3 DEF Durables, SameJob, Twin
    <3>6. n.stage = d.mode.stage /\ n.drained = d.mode.drained
      BY <1>2 DEF Modes
    <3> HIDE DEF a, n
    <3> QED
      BY <3>2, <3>4, <3>5, <3>6
  <2> QED
    BY <2>1, <2>2
<1> QED
  BY <1>3, <1>4, <1>5, <1>6, <1>7, <1>8

\* A save keeps every declaration and moves no file.
LEMMA SaveDeclares ==
    ASSUME NEW d \in Durables, NEW j \in Jobs
    PROVE  /\ \A e \in {SaveReceipts(d, j), Save(d, j)} :
                 /\ e.target = d.target /\ e.registry = d.registry /\ e.torn = d.torn
                 /\ DeclaredIn(d) \subseteq DeclaredIn(e)
                 /\ \A o \in Ops : j.out[o] # "none" => o \in DeclaredIn(e)
           /\ (\A o \in Ops : j.out[o] # "none" => d.receipts[j.meta.approval][o] = j.out[o])
                 => SaveReceipts(d, j) = d /\ Save(d, j).receipts = d.receipts
<1> DEFINE a == j.meta.approval
           f == [o \in Ops |-> IF j.out[o] = "none" THEN d.receipts[a][o] ELSE j.out[o]]
           r == [d.receipts EXCEPT ![a] = f]
           s == SaveReceipts(d, j)
           t == Save(d, j)
<1>1. a \in 1..MaxApprovals /\ j.out \in [Ops -> Outcomes] /\ d.receipts \in [1..MaxApprovals -> Receipts] /\ d.receipts[a] \in [Ops -> Outcomes]
  BY DEF Jobs, Metas, Durables, Ledgers, Receipts
<1>2. s = [d EXCEPT !.receipts = r]
  BY DEF SaveReceipts, Durables
<1>3. t = [s EXCEPT !.job = j.meta]
  BY DEF Save
<1>4. f \in [Ops -> Outcomes]
  BY <1>1
<1>5. r \in [1..MaxApprovals -> Receipts] /\ r[a] = f /\ \A b \in 1..MaxApprovals : b # a => r[b] = d.receipts[b]
  BY <1>1, <1>4 DEF Receipts
<1>6. s.receipts = r /\ t.receipts = r /\ s.target = d.target /\ s.registry = d.registry /\ s.torn = d.torn
      /\ t.target = d.target /\ t.registry = d.registry /\ t.torn = d.torn
  BY <1>2, <1>3 DEF Durables
<1>7. ASSUME NEW o \in Ops, NEW b \in 1..MaxApprovals, d.receipts[b][o] # "none" PROVE r[b][o] # "none"
  BY <1>5, <1>7
<1>8. ASSUME NEW o \in Ops, j.out[o] # "none" PROVE r[a][o] # "none"
  BY <1>5, <1>8
<1>9. ASSUME NEW e \in {s, t} PROVE DeclaredIn(d) \subseteq DeclaredIn(e) /\ \A o \in Ops : j.out[o] # "none" => o \in DeclaredIn(e)
  <2>1. e.receipts = r
    BY <1>6
  <2> HIDE DEF r, a
  <2> QED
    BY <2>1, <1>1, <1>7, <1>8 DEF DeclaredIn
<1>10. ASSUME \A o \in Ops : j.out[o] # "none" => d.receipts[a][o] = j.out[o] PROVE s = d /\ t.receipts = d.receipts
  <2>1. f = d.receipts[a]
    BY <1>1, <1>10
  <2>2. r = d.receipts
    BY <2>1, <1>1
  <2>3. d = [d EXCEPT !.receipts = d.receipts]
    BY DEF Durables
  <2> HIDE DEF r
  <2> QED
    BY <2>2, <2>3, <1>2, <1>6
<1> HIDE DEF s, t
<1> QED
  BY <1>6, <1>9, <1>10 DEF s, t

-----------------------------------------------------------------------------
(* The upgrade: the work on a whole world *)

\* The work holds the lease: it is past its reads, or it has read an open job under a lease it has.
Active ==
    \/ co["work"].pc \notin Loose \cup {"rs_save"}
    \/ co["work"].pc # "idle" /\ durable.job.phase \notin Ended /\ Claimed(durable, proc.pid)

\* What is known of the others meanwhile.
LEMMA ActiveFacts ==
    ASSUME UpInv, WholeInv, Active
    PROVE  /\ co["cancel"].pc \in {"idle", "c_wait"} /\ ~Frees(durable.mode) /\ Claimed(durable, proc.pid)
           /\ Sound(durable, world) /\ WorkHolds(durable, world.applied, co["work"], proc.pid)
<1>1. co["work"].pc # "idle" /\ (co["work"].pc \notin Loose \cup {"rs_save"} \/ (durable.job.phase \notin Ended /\ Claimed(durable, proc.pid)))
  <2>1. "idle" \in Loose
    BY DEF Loose
  <2> QED
    BY <2>1 DEF Active
<1>2. co["cancel"].pc \in {"idle", "c_wait"}
  BY <1>1 DEF UpInv, UpCancel
<1>3. Sound(durable, world) /\ WorkHolds(durable, world.applied, co["work"], proc.pid) /\ ~Frees(durable.mode)
  BY <1>1 DEF WholeInv, Whole, Releases, Closed
<1> QED
  BY <1>1, <1>2, <1>3 DEF WorkHolds


\* A turn of the work that leaves a whole world.
LEMMA WorkTurn ==
    ASSUME UpInv, WholeInv, NEW d, NEW l \in Locals, Turn(d, [co EXCEPT !["work"] = l], {"work"}),
           proc'.pid = proc.pid, world'.applied = world.applied,
           Sound(d, world'), WorkHolds(d, world.applied, l, proc.pid), CancelHolds(d, world.applied, co["cancel"]),
           Releases(d, world', l, co["poll"], proc.pid), Follows(durable, d)
    PROVE  Outcome
<1> DEFINE cs == [co EXCEPT !["work"] = l]
<1>1. cs \in [Coroutines -> Locals] /\ cs["work"] = l /\ cs["poll"] = co["poll"] /\ cs["cancel"] = co["cancel"]
  BY DEF UpInv, UpTypes, Coroutines
<1>2. Turn(d, cs, {"work"})
  OBVIOUS
<1> HIDE DEF cs
<1>3. Whole(d, world', l, co["poll"], co["cancel"], proc'.pid)
  BY DEF Whole
<1> QED
  BY <1>1, <1>2, <1>3, WholeTurn

\* While the work runs, cancel waits at its gate and holds nothing.
LEMMA WaitingHolds ==
    ASSUME UpInv, co["work"].pc # "idle"
    PROVE  \A d, done : CancelHolds(d, done, co["cancel"])
<1>1. co["cancel"].pc \in {"idle", "c_wait"}
  BY DEF UpInv, UpCancel
<1> QED
  BY <1>1 DEF CancelHolds, CancelSaves

\* Nothing releases a world whose job is open or in the work's hands: neither the mode on the disk nor, while the
\* lease stays or is taken, the one the poll read.
Firm == co["work"].pc # "idle" /\ (co["work"].pc \notin Loose \/ durable.job.phase \notin Ended)
Leased(d) == d.lease = durable.lease \/ Claimed(d, proc.pid)
LEMMA FirmGoes ==
    ASSUME UpInv, WholeInv, Firm, NEW d, NEW l \in Locals, Turn(d, [co EXCEPT !["work"] = l], {"work"}),
           proc'.pid = proc.pid, world'.applied = world.applied,
           Sound(d, world'), Grows(durable, d), d.mode = durable.mode \/ ~Frees(d.mode), Leased(d),
           WorkHolds(d, world.applied, l, proc.pid)
    PROVE  Outcome
<1>1. ~Closed(durable, world, co["work"])
  BY DEF Firm, Closed
<1>2. ~Frees(durable.mode) /\ (co["poll"].pc = "p_lease" /\ Frees(co["poll"].mode) => Claimed(durable, proc.pid))
  BY <1>1 DEF WholeInv, Whole, Releases
<1>3. ~Frees(d.mode) /\ (co["poll"].pc = "p_lease" /\ Frees(co["poll"].mode) => Claimed(d, proc.pid))
  BY <1>2 DEF Leased, Claimed
<1>4. Releases(d, world', l, co["poll"], proc.pid)
  BY <1>3 DEF Releases
<1>5. Follows(durable, d)
  BY <1>2, <1>3 DEF Follows, Grows, Declared
<1> QED
  BY <1>4, <1>5, WaitingHolds, WorkTurn DEF Firm

\* Where nothing is asked of the work.
LEMMA LooseHolds ==
    ASSUME NEW l, l.pc \in Loose, NEW d, NEW done, NEW pid
    PROVE  WorkHolds(d, done, l, pid)
BY DEF Loose, WorkHolds, Placed, Bearing, Approving, Running

\* The job stays as it is, and the work goes where it holds none.
LEMMA LooseGoes ==
    ASSUME UpInv, WholeInv, NEW d, SameJob(durable, d), Leased(d), Frees(d.mode) => Frees(durable.mode),
           NEW l \in Locals, l.pc \in Loose,
           Turn(d, [co EXCEPT !["work"] = l], {"work"}), proc'.pid = proc.pid, world' = world
    PROVE  Outcome
<1>1. Sound(durable, world) /\ CancelHolds(durable, world.applied, co["cancel"])
      /\ Releases(durable, world, co["work"], co["poll"], proc.pid)
  BY DEF WholeInv, Whole
<1>2. Sound(d, world') /\ CancelHolds(d, world.applied, co["cancel"]) /\ Follows(durable, d)
  BY <1>1, SameJobFacts
<1>3. Closed(durable, world, co["work"]) => Closed(d, world', l)
  <2>1. Closed(durable, world, co["work"]) => Closed(d, world, co["work"])
    BY SameJobFacts
  <2> QED
    BY <2>1 DEF Closed
<1>4. d.torn = durable.torn
  BY DEF SameJob
<1>5. Releases(d, world', l, co["poll"], proc.pid)
  BY <1>1, <1>3, <1>4 DEF Releases, Leased, Claimed
<1> QED
  BY <1>2, <1>5, LooseHolds, WorkTurn

\* The work that ends holds nothing.
LEMMA AsleepHolds ==
    /\ Asleep \in Locals /\ Asleep.pc = "idle" /\ Asleep.pc \in Loose
    /\ \A d, done : CancelHolds(d, done, Asleep) /\ \A pid : WorkHolds(d, done, Asleep, pid)
<1>1. Asleep \in Locals /\ Asleep.pc = "idle" /\ Asleep.pc \in Loose
  BY AsleepFacts DEF Pcs, WorkPcs, Loose
<1> QED
  BY <1>1, LooseHolds DEF CancelHolds, CancelSaves

\* A command that holds no job fails.
LEMMA LooseFails ==
    ASSUME UpInv, WholeInv, co["work"].pc \in Loose, NEW d \in Durables, SameJob(durable, d), d.lease = durable.lease, WorkFails(d)
    PROVE  Outcome
<1> DEFINE e == RecoveryRequired(d)
<1>1. Turn(e, [co EXCEPT !["work"] = Asleep], {"work"}) /\ world' = world /\ proc' = [proc EXCEPT !.aborted = FALSE]
  BY DEF WorkFails
<1>2. SameJob(d, e) /\ e.mode.stage = "recovery-required" /\ e.lease = d.lease
  BY ModeChanges, RecoveryFacts DEF RecoveryRequired, Stages
<1> HIDE DEF e
<1>3. SameJob(durable, e) /\ ~Frees(e.mode) /\ Leased(e)
  BY <1>2 DEF SameJob, Twin, Frees, Leased
<1>4. proc'.pid = proc.pid
  BY <1>1, WorkTypes DEF Processes
<1> QED
  BY <1>1, <1>3, <1>4, AsleepHolds, LooseGoes

\* The records d of a step of the work: as sound as those before it, under the same mode, the lease kept or taken.
Sequel(d) == d \in Durables /\ Sound(d, world) /\ Grows(durable, d) /\ d.mode = durable.mode /\ Leased(d)

\* What tells the same of the job follows as well.
LEMMA SequelFacts ==
    ASSUME UpInv, WholeInv
    PROVE  /\ Sequel(durable)
           /\ \A d, e : Sequel(d) /\ SameJob(d, e) /\ e \in Durables /\ e.mode = d.mode /\ e.lease = d.lease => Sequel(e)
           /\ \A d : Sequel(d) => Sequel(TakeLease(d)) /\ Claimed(TakeLease(d), proc.pid)
           /\ \A d, e : Grows(durable, d) /\ SameJob(d, e) => Grows(durable, e)
<1>1. durable \in Durables /\ Sound(durable, world) /\ proc \in Processes
  BY WorkTypes DEF WholeInv, Whole
<1>2. Sequel(durable)
  BY <1>1 DEF Sequel, Grows, Leased
<1>3. \A d, e : Grows(durable, d) /\ SameJob(d, e) => Grows(durable, e)
  BY SameJobFacts DEF Grows
<1>4. \A d, e : Sequel(d) /\ SameJob(d, e) /\ e \in Durables /\ e.mode = d.mode /\ e.lease = d.lease => Sequel(e)
  BY <1>3, SameJobFacts DEF Sequel, Leased, Claimed
<1>5. ASSUME NEW d, Sequel(d) PROVE Sequel(TakeLease(d)) /\ Claimed(TakeLease(d), proc.pid)
  <2> DEFINE e == TakeLease(d)
  <2>1. e \in Durables /\ e.mode = d.mode
    BY <1>1, <1>5, LeaseFacts DEF Sequel
  <2>2. SameJob(d, e)
    BY <1>5, ModeChanges DEF Sequel
  <2>3. Claimed(e, proc.pid)
    BY <1>1, <1>5 DEF TakeLease, Sequel, Durables, Claimed
  <2> HIDE DEF e
  <2>4. Sound(e, world) /\ Grows(durable, e)
    BY <1>3, <1>5, <2>2, SameJobFacts DEF Sequel
  <2>5. Sequel(e)
    BY <1>5, <2>1, <2>3, <2>4 DEF Sequel, Leased
  <2> QED
    BY <2>3, <2>5 DEF e
<1> QED
  BY <1>2, <1>3, <1>4, <1>5

\* The work that holds the lease goes on under it.
LEMMA ActiveGoes ==
    ASSUME UpInv, WholeInv, Active, NEW d, NEW l \in Locals, Turn(d, [co EXCEPT !["work"] = l], {"work"}),
           proc'.pid = proc.pid, world'.applied = world.applied,
           Sound(d, world'), Grows(durable, d), d.mode = durable.mode \/ ~Frees(d.mode), Leased(d),
           WorkHolds(d, world.applied, l, proc.pid)
    PROVE  Outcome
BY FirmGoes DEF Active, Firm, Loose

\* The work goes on, and nothing else changes.
LEMMA ActiveStep ==
    ASSUME UpInv, WholeInv, Active, NEW d, Sequel(d), NEW l \in Locals,
           WorkHolds(d, world.applied, l, proc.pid), Step(d, l)
    PROVE  Outcome
<1>1. Turn(d, [co EXCEPT !["work"] = l], {"work"}) /\ world' = world /\ proc' = proc
  BY DEF Step
<1>2. Sound(d, world') /\ Grows(durable, d) /\ d.mode = durable.mode /\ Leased(d)
  BY <1>1 DEF Sequel
<1> QED
  BY <1>1, <1>2, ActiveGoes

\* The work fails.
LEMMA FirmEnds ==
    ASSUME UpInv, WholeInv, Firm, NEW d, Sequel(d), WorkFails(d)
    PROVE  Outcome
<1> DEFINE e == RecoveryRequired(d)
<1>1. Turn(e, [co EXCEPT !["work"] = Asleep], {"work"}) /\ world' = world /\ proc' = [proc EXCEPT !.aborted = FALSE]
  BY DEF WorkFails
<1>2. SameJob(d, e) /\ e.mode.stage = "recovery-required" /\ e.lease = d.lease
  BY ModeChanges, RecoveryFacts DEF RecoveryRequired, Stages, Sequel
<1> HIDE DEF e
<1>3. Sound(e, world') /\ Grows(durable, e) /\ ~Frees(e.mode) /\ Leased(e)
  BY <1>1, <1>2, SameJobFacts, SequelFacts DEF Frees, Sequel, Leased, Claimed
<1>4. proc'.pid = proc.pid
  BY <1>1, WorkTypes DEF Processes
<1> QED
  BY <1>1, <1>3, <1>4, AsleepHolds, FirmGoes

LEMMA ActiveEnds ==
    ASSUME UpInv, WholeInv, Active, NEW d, Sequel(d), WorkFails(d)
    PROVE  Outcome
BY FirmEnds DEF Active, Firm, Loose

\* The coordinator's catch.
LEMMA ActiveFail ==
    ASSUME UpInv, WholeInv, Active, NEW d, Sequel(d), Fail(d)
    PROVE  Outcome
<1>1. CASE WorkFails(d)
  BY <1>1, ActiveEnds
<1>2. CASE Step(d, To("f_read", Wj))
  <2> DEFINE l == To("f_read", Wj)
  <2>1. "f_read" \in Pcs /\ Wj \in Jobs
    BY WorkTypes DEF Pcs, WorkPcs, Executing
  <2>2. l \in Locals /\ l.pc = "f_read"
    BY <2>1, ToFacts DEF GoesOn
  <2>3. Step(d, l)
    BY <1>2
  <2> HIDE DEF l
  <2>4. WorkHolds(d, world.applied, l, proc.pid)
    BY <2>2, ActiveFacts DEF WorkHolds, Placed, Bearing, Approving, Running, Sequel, Leased, Claimed
  <2> QED
    BY <2>2, <2>3, <2>4, ActiveStep
<1> QED
  BY <1>1, <1>2 DEF Fail

\* A save of the work.
LEMMA WorkSaves ==
    ASSUME UpInv, WholeInv, co["work"].pc \in SavePcs
    PROVE  LET d == Save(durable, Wj)
           IN /\ Sequel(d) /\ d.job = Wj.meta /\ d.lease = durable.lease /\ d.target = durable.target /\ d.registry = durable.registry
              /\ \A o \in Ops : Wj.out[o] # "none" => o \in DeclaredIn(d)
              /\ co["work"].pc \in Bearing /\ MetaFits(Wj.meta, durable, world.applied)
              /\ (durable.job.possibleWrite => Wj.meta.possibleWrite)
<1> DEFINE d == Save(durable, Wj)
<1>1. durable \in Durables /\ Wj \in Jobs
  BY WorkTypes
<1>2. d \in Durables /\ d.mode = durable.mode /\ d.lease = durable.lease /\ d.job = Wj.meta
  BY <1>1, SaveFacts
<1>3. d.target = durable.target /\ d.registry = durable.registry /\ DeclaredIn(durable) \subseteq DeclaredIn(d)
      /\ \A o \in Ops : Wj.out[o] # "none" => o \in DeclaredIn(d)
  BY <1>1, SaveDeclares
<1> HIDE DEF d
<1>4. co["work"].pc \in Bearing
  BY DEF UpInv, UpWork, WorkFits, WorkPcs, Reviewing, Executing, SavePcs, Bearing, Approving, Running
<1>5. MetaFits(Wj.meta, durable, world.applied) /\ (durable.job.possibleWrite => Wj.meta.possibleWrite) /\ Sound(durable, world)
  BY <1>4 DEF WholeInv, Whole, WorkHolds, Placed, Wj
<1>6. MetaFits(Wj.meta, d, world.applied)
  BY <1>3, <1>5 DEF MetaFits, FilesAre
<1>7. Sound(d, world) /\ Grows(durable, d)
  BY <1>2, <1>3, <1>5, <1>6 DEF Sound, Grows
<1> QED
  BY <1>2, <1>3, <1>4, <1>5, <1>7 DEF Sequel, Leased, d

\* The work goes on with a state that its place fits.
LEMMA ActiveTurn ==
    ASSUME UpInv, WholeInv, Active, NEW d, Sound(d, world), Grows(durable, d), d.mode = durable.mode \/ ~Frees(d.mode), Leased(d),
           NEW l \in Locals, l.pc \notin {"r_intent", "rs_save"},
           Placed(l.pc, d, world.applied, l.job.meta), Step(d, l)
    PROVE  Outcome
<1>1. Turn(d, [co EXCEPT !["work"] = l], {"work"}) /\ world' = world /\ proc' = proc
  BY DEF Step
<1>2. WorkHolds(d, world.applied, l, proc.pid)
  BY ActiveFacts DEF WorkHolds, Leased, Claimed
<1>3. Sound(d, world')
  BY <1>1
<1> QED
  BY <1>1, <1>2, <1>3, ActiveGoes

\* Every way the work goes on.
WorkGoes(d, place, j) ==
    \/ Step(d, To(place, j)) \/ Step(d, Snapshot(place, j))
    \/ \E b \in SUBSET Ops : Step(d, [To(place, j) EXCEPT !.left = b]) \/ Step(d, [To(place, j) EXCEPT !.batch = b])

\* The work goes on in one of them, to a place that its job fits.
LEMMA ActiveTo ==
    ASSUME UpInv, WholeInv, Active, NEW d, Sound(d, world), Grows(durable, d), d.mode = durable.mode \/ ~Frees(d.mode), Leased(d),
           NEW place \in WorkPcs, NEW j \in Jobs, place \notin {"r_intent", "rs_save"},
           Placed(place, d, world.applied, j.meta), WorkGoes(d, place, j)
    PROVE  Outcome
<1>1. PICK l : Step(d, l) /\ \E b : GoesOn(l, place, j, b)
  <2>1. place \in Pcs
    BY DEF Pcs
  <2> QED
    BY <2>1, ToFacts DEF WorkGoes
<1>2. l \in Locals /\ l.pc = place /\ l.job = j
  BY <1>1 DEF GoesOn
<1> QED
  BY <1>1, <1>2, ActiveTurn

\* The same, on records that follow and under the same mode.
LEMMA Onward ==
    ASSUME UpInv, WholeInv, Active, NEW d, Sequel(d),
           NEW place \in WorkPcs, NEW j \in Jobs, place \notin {"r_intent", "rs_save"},
           Placed(place, d, world.applied, j.meta), WorkGoes(d, place, j)
    PROVE  Outcome
BY ActiveTo DEF Sequel

\* The work that holds no job goes on without one.
LEMMA LooseTo ==
    ASSUME UpInv, WholeInv, co["work"].pc \in Loose, NEW d, SameJob(durable, d), Leased(d), Frees(d.mode) => Frees(durable.mode),
           NEW place \in Loose, NEW j \in Jobs, WorkGoes(d, place, j)
    PROVE  Outcome
<1>1. PICK l : Step(d, l) /\ \E b : GoesOn(l, place, j, b)
  <2>1. place \in Pcs
    BY DEF Pcs, WorkPcs, Loose, Reviewing, Executing
  <2> QED
    BY <2>1, ToFacts DEF WorkGoes
<1>2. l \in Locals /\ l.pc = place
  BY <1>1 DEF GoesOn
<1> QED
  BY <1>1, <1>2, LooseGoes DEF Step

\* Places where nothing is asked of the job.
LEMMA LightPlaces ==
    ASSUME NEW place \in {"idle", "pl_preview", "pl_save", "ap_recover", "r_job", "ex_done", "e_read", "f_read"},
           NEW d, NEW done, NEW m
    PROVE  Placed(place, d, done, m) /\ place \in WorkPcs /\ place \notin {"r_intent", "rs_save"}
BY DEF Placed, Bearing, Approving, Running, WorkPcs, Reviewing, Executing

\* What a change of the job leaves alone.
LEMMA MetaChanges ==
    ASSUME NEW j \in Jobs
    PROVE  /\ \A p \in Phases : LET m == Phase(j, p).meta
                                IN /\ m.phase = p /\ m.possibleWrite = j.meta.possibleWrite /\ m.transition = j.meta.transition
                                   /\ m.plan = j.meta.plan /\ m.token = j.meta.token /\ m.approval = j.meta.approval
           /\ \A p : Phase(j, p).out = j.out
           /\ \A t \in Transitions : LET m == Transition(j, t).meta
                                     IN /\ m.transition = t /\ m.possibleWrite = j.meta.possibleWrite
                                        /\ m.plan = j.meta.plan /\ m.phase = j.meta.phase
           /\ \A t \in Nat : LET k == [j EXCEPT !.meta.token = t]
                             IN /\ k.meta.transition = j.meta.transition /\ k.meta.possibleWrite = j.meta.possibleWrite
                                /\ k.meta.plan = j.meta.plan /\ k.meta.phase = j.meta.phase
                                /\ k.meta.approval = j.meta.approval /\ k.out = j.out
           /\ \A b \in SUBSET Ops : LET k == Intents(j, b)
                                    IN /\ k.meta.transition = j.meta.transition /\ k.meta.possibleWrite
                                       /\ k.meta.plan = j.meta.plan /\ k.meta.phase = j.meta.phase
                                       /\ \A o \in b : k.out[o] = "intent"
<1>1. j.meta \in Metas /\ j.out \in Receipts /\ j = [meta |-> j.meta, out |-> j.out]
  BY DEF Jobs
<1>2. ASSUME NEW p \in Phases PROVE LET m == Phase(j, p).meta
                                IN /\ m.phase = p /\ m.possibleWrite = j.meta.possibleWrite /\ m.transition = j.meta.transition
                                   /\ m.plan = j.meta.plan /\ m.token = j.meta.token /\ m.approval = j.meta.approval
  BY <1>1 DEF Phase, Metas
<1>3. ASSUME NEW t \in Transitions PROVE LET m == Transition(j, t).meta
                                     IN /\ m.transition = t /\ m.possibleWrite = j.meta.possibleWrite
                                        /\ m.plan = j.meta.plan /\ m.phase = j.meta.phase
  BY <1>1 DEF Transition, Metas
<1>4. ASSUME NEW t \in Nat PROVE LET k == [j EXCEPT !.meta.token = t]
                             IN /\ k.meta.transition = j.meta.transition /\ k.meta.possibleWrite = j.meta.possibleWrite
                                /\ k.meta.plan = j.meta.plan /\ k.meta.phase = j.meta.phase
                                /\ k.meta.approval = j.meta.approval /\ k.out = j.out
  BY <1>1 DEF Metas
<1>5. ASSUME NEW b \in SUBSET Ops PROVE LET k == Intents(j, b)
                                    IN /\ k.meta.transition = j.meta.transition /\ k.meta.possibleWrite
                                       /\ k.meta.plan = j.meta.plan /\ k.meta.phase = j.meta.phase
                                       /\ \A o \in b : k.out[o] = "intent"
  <2> DEFINE k == Mark(j, b, "intent")
             m == [k.meta EXCEPT !.possibleWrite = TRUE]
  <2>1. k \in Jobs /\ k.meta = j.meta
    BY JobFacts DEF Outcomes
  <2>2. \A o \in b : k.out[o] = "intent"
    BY <1>1 DEF Mark
  <2>3. Intents(j, b) = [k EXCEPT !.meta = m]
    BY DEF Intents
  <2> HIDE DEF k
  <2>4. m.transition = j.meta.transition /\ m.possibleWrite /\ m.plan = j.meta.plan /\ m.phase = j.meta.phase
    BY <1>1, <2>1 DEF Metas
  <2> HIDE DEF m
  <2>5. Intents(j, b).meta = m /\ Intents(j, b).out = k.out
    BY <2>1, <2>3 DEF Jobs
  <2> QED
    BY <2>2, <2>4, <2>5
<1>6. \A p : Phase(j, p).out = j.out
  BY <1>1 DEF Phase
<1> QED
  BY <1>2, <1>3, <1>4, <1>5, <1>6

\* A job that fits still fits in another phase of its execution.
LEMMA PhaseFits ==
    ASSUME NEW j \in Jobs, NEW p \in Phases \ {"none", "completed", "cancelled"}, NEW d, NEW done, MetaFits(j.meta, d, done)
    PROVE  MetaFits(Phase(j, p).meta, d, done)
BY MetaChanges DEF MetaFits

\* The mode the work read is written back.
LEMMA StageHolds ==
    ASSUME UpInv, WholeInv, co["work"].pc \in Loose, NEW s \in {"planning", "executing"},
           NEW place \in {"pl_preview", "r_job"}, WorkGoes(StageOf(durable, co["work"].mode, s), place, NoJob)
    PROVE  Outcome
<1> DEFINE e == StageOf(durable, co["work"].mode, s)
<1>1. SameJob(durable, e) /\ e.mode.stage = s /\ e.lease = durable.lease
  <2>1. durable \in Durables /\ co["work"].mode \in Modes /\ s \in Stages
    BY WorkTypes DEF Stages
  <2>2. SameJob(durable, e) /\ e.mode.stage = s
    BY <2>1, ModeChanges
  <2>3. e.lease = durable.lease
    BY <2>1, StageOfFacts
  <2> QED
    BY <2>2, <2>3
<1>2. NoJob \in Jobs /\ place \in Loose
  BY EmptyFacts DEF Loose
<1>3. WorkGoes(e, place, NoJob)
  OBVIOUS
<1> HIDE DEF e
<1>4. ~Frees(e.mode) /\ Leased(e)
  BY <1>1 DEF Frees, Leased
<1> QED
  BY <1>1, <1>2, <1>3, <1>4, LooseTo

\* plan.
LEMMA PlanHolds ==
    ASSUME UpInv, WholeInv, PlanRead \/ PlanPreview \/ PlanSaved
    PROVE  Outcome
<1>1. co["work"].pc \in Loose
  BY DEF PlanRead, PlanPreview, PlanSaved, Served, At, Loose
<1>2. SameJob(durable, durable) /\ Leased(durable) /\ durable \in Durables
  BY JobIsTwin, WorkTypes DEF Leased
<1>3. CASE WorkFails(durable)
  BY <1>1, <1>2, <1>3, LooseFails
<1>4. CASE Step(StageOf(durable, co["work"].mode, "planning"), Snapshot("pl_preview", NoJob))
  BY <1>1, <1>4, StageHolds DEF WorkGoes
<1>5. CASE Step(durable, [To("pl_save", NoJob) EXCEPT !.batch = Ops \ world.applied])
  <2>1. WorkGoes(durable, "pl_save", NoJob) /\ "pl_save" \in Loose
    BY <1>5 DEF WorkGoes, Loose
  <2> QED
    BY <1>1, <1>2, <2>1, EmptyFacts, LooseTo
<1>6. CASE Step([durable EXCEPT !.mode.preview = co["work"].batch, !.mode.stage = "review"], Asleep)
  <2> DEFINE m == [durable.mode EXCEPT !.preview = co["work"].batch, !.stage = "review"]
             d == [durable EXCEPT !.mode = m]
  <2>1. d = [durable EXCEPT !.mode.preview = co["work"].batch, !.mode.stage = "review"] /\ SameJob(durable, d)
        /\ d.mode = m /\ d.lease = durable.lease
    BY WorkTypes DEF Durables, SameJob, Twin
  <2>2. m.stage = "review"
    BY WorkTypes DEF Modes
  <2>3. Step(d, Asleep)
    BY <1>6, <2>1
  <2> HIDE DEF d, m
  <2>4. ~Frees(d.mode) /\ Leased(d)
    BY <2>1, <2>2 DEF Frees, Leased
  <2> QED
    BY <1>1, <2>1, <2>3, <2>4, AsleepHolds, LooseGoes DEF Step
<1> QED
  BY <1>3, <1>4, <1>5, <1>6 DEF PlanRead, PlanPreview, PlanSaved


\* The work that held no job goes on with one, under the lease.
LEMMA TakenTo ==
    ASSUME UpInv, WholeInv, co["work"].pc # "idle", ~Frees(durable.mode),
           NEW d, SameJob(durable, d), ~Frees(d.mode), Claimed(d, proc.pid),
           NEW place \in WorkPcs, NEW j \in Jobs, place \notin {"r_intent", "rs_save"},
           Placed(place, d, world.applied, j.meta), WorkGoes(d, place, j)
    PROVE  Outcome
<1>1. PICK l : Step(d, l) /\ \E b : GoesOn(l, place, j, b)
  <2>1. place \in Pcs
    BY DEF Pcs
  <2> QED
    BY <2>1, ToFacts DEF WorkGoes
<1>2. l \in Locals /\ l.pc = place /\ l.job = j
  BY <1>1 DEF GoesOn
<1>3. Turn(d, [co EXCEPT !["work"] = l], {"work"}) /\ world' = world /\ proc' = proc
  BY <1>1 DEF Step
<1>4. Sound(d, world') /\ Follows(durable, d) /\ CancelHolds(d, world.applied, co["cancel"])
  <2>1. Sound(durable, world)
    BY DEF WholeInv, Whole
  <2> QED
    BY <1>3, <2>1, SameJobFacts, WaitingHolds
<1>5. WorkHolds(d, world.applied, l, proc.pid) /\ Releases(d, world', l, co["poll"], proc.pid)
  BY <1>2 DEF WorkHolds, Releases
<1> QED
  BY <1>2, <1>3, <1>4, <1>5, WorkTurn

\* approve, up to the published job.
LEMMA ApproveReadHolds ==
    ASSUME UpInv, WholeInv, ApproveRead
    PROVE  Outcome
<1>1. co["work"].pc = "ap_read" /\ co["work"].pc \in Loose
  BY DEF ApproveRead, Served, Loose
<1>2. durable \in Durables /\ SameJob(durable, durable)
  BY WorkTypes, JobIsTwin
<1>3. CASE WorkFails(durable)
  BY <1>1, <1>2, <1>3, LooseFails
<1>4. CASE /\ durable.job.phase = "none" /\ durable.mode.stage = "executing"
           /\ Step([ModeLease(durable) EXCEPT !.mode.intent = TRUE], To("ap_save", FirstJob(ModeLease(durable))))
  <2> DEFINE d == ModeLease(durable)
             n == [d.mode EXCEPT !.intent = TRUE]
             e == [d EXCEPT !.mode = n]
             j == FirstJob(d)
  <2>1. d \in Durables /\ SameJob(durable, d) /\ d.mode.stage = durable.mode.stage /\ Claimed(d, proc.pid)
    BY WorkTypes, LeaseFacts, ModeChanges DEF Claimed
  <2>2. Step(e, To("ap_save", j))
    <3>1. e = [ModeLease(durable) EXCEPT !.mode.intent = TRUE]
      BY DEF Durables
    <3> QED
      BY <1>4, <3>1
  <2>3. j \in Jobs /\ j.meta.phase = "quiescing" /\ ~j.meta.possibleWrite /\ j.meta.transition = "none"
    <3>1. d.mode.token \in Nat /\ d.mode.preview \in SUBSET Ops /\ 1 \in 1..MaxApprovals
      BY <2>1, BoundsAreNats DEF Durables, Modes
    <3> HIDE DEF d
    <3> QED
      BY <3>1, EmptyFacts DEF FirstJob, Jobs, Metas, Phases, Transitions
  <2> HIDE DEF d
  <2>4. SameJob(durable, e) /\ e.mode.stage = "executing" /\ Claimed(e, proc.pid)
    BY <1>4, <2>1 DEF SameJob, Twin, Durables, Modes, Claimed
  <2> HIDE DEF e, j
  <2>5. FilesAre(e, "old") /\ ~e.job.possibleWrite
    <3>1. Sound(e, world) /\ e.job.phase = "none"
      BY <1>4, <2>4, SameJobFacts DEF WholeInv, Whole, SameJob, Twin
    <3> QED
      BY <3>1 DEF Sound, MetaFits
  <2>6. Placed("ap_save", e, world.applied, j.meta)
    BY <2>3, <2>5 DEF Placed, MetaFits, Bearing, Approving, Running
  <2>7. ~Frees(e.mode) /\ ~Frees(durable.mode)
    BY <1>4, <2>4 DEF Frees
  <2>8. WorkGoes(e, "ap_save", j) /\ "ap_save" \in WorkPcs
    BY <2>2 DEF WorkGoes, WorkPcs, Reviewing
  <2> QED
    BY <1>1, <2>3, <2>4, <2>6, <2>7, <2>8, TakenTo
<1> QED
  BY <1>3, <1>4 DEF ApproveRead

\* The approval is saved, and settled or read back.
LEMMA ApproveSavedHolds ==
    ASSUME UpInv, WholeInv, ApproveSaved
    PROVE  Outcome
<1> DEFINE d == Save(durable, Wj)
<1>1. co["work"].pc = "ap_save" /\ Active
  BY DEF ApproveSaved, Served, Active, Loose
<1>2. /\ Sequel(d) /\ d.job = Wj.meta /\ d.target = durable.target /\ d.registry = durable.registry
      /\ MetaFits(Wj.meta, durable, world.applied)
  BY <1>1, WorkSaves DEF SavePcs
<1>3. ~Wj.meta.possibleWrite /\ Wj.meta.phase \notin {"completed", "cancelled"} /\ Wj.meta.transition = "none"
  BY <1>1, ActiveFacts DEF WorkHolds, Placed, Approving, Wj
<1>4. \/ Step(Settled(d), Snapshot("ap_snapshot", Wj))
      \/ Step(d, To("ap_recover", Wj))
  BY DEF ApproveSaved
<1> HIDE DEF d
<1>5. CASE Step(Settled(d), Snapshot("ap_snapshot", Wj))
  <2> DEFINE e == Settled(d)
  <2>1. SameJob(d, e) /\ e.mode.stage = d.mode.stage
    BY <1>2, ModeChanges DEF Sequel
  <2>2. e.lease = d.lease
    BY <1>2 DEF Settled, Sequel, Durables
  <2>3. WorkGoes(e, "ap_snapshot", Wj)
    BY <1>5 DEF WorkGoes
  <2> HIDE DEF e
  <2>4. Sound(e, world) /\ Grows(durable, e) /\ Leased(e)
    BY <1>2, <2>1, <2>2, SameJobFacts, SequelFacts DEF Sequel, Leased, Claimed
  <2>5. ~Frees(e.mode)
    BY <1>1, <1>2, <2>1, ActiveFacts DEF Frees, Sequel
  <2>6. Placed("ap_snapshot", e, world.applied, Wj.meta)
    BY <1>2, <1>3, <2>1 DEF Placed, MetaFits, FilesAre, SameJob, Twin, Bearing, Approving, Running
  <2> QED
    BY <1>1, <2>3, <2>4, <2>5, <2>6, ActiveTo, WorkTypes DEF WorkPcs, Executing
<1>6. CASE Step(d, To("ap_recover", Wj))
  <2>1. WorkGoes(d, "ap_recover", Wj)
    BY <1>6 DEF WorkGoes
  <2> QED
    BY <1>1, <1>2, <2>1, LightPlaces, Onward, WorkTypes
<1> QED
  BY <1>4, <1>5, <1>6

\* The approval's save is not acknowledged.
LEMMA ApproveUnacknowledgedHolds ==
    ASSUME UpInv, WholeInv, ApproveUnacknowledged
    PROVE  Outcome
<1>1. co["work"].pc = "ap_save" /\ Active /\ WorkGoes(durable, "ap_recover", Wj)
  BY DEF ApproveUnacknowledged, At, Active, Loose, WorkGoes
<1> QED
  BY <1>1, LightPlaces, Onward, SequelFacts, WorkTypes

\* Files are moved before any write is possible.
LEMMA FilesMove ==
    ASSUME NEW d, Sequel(d), NEW e \in Durables, e.job = d.job, e.receipts = d.receipts, e.mode = d.mode, e.lease = d.lease,
           ~d.job.possibleWrite, MetaFits(d.job, e, world.applied)
    PROVE  Sequel(e)
BY DEF Sequel, Sound, Grows, DeclaredIn, Leased, Claimed

\* The files of records after a move.
LEMMA MovedFiles ==
    ASSUME NEW d \in Durables
    PROVE  /\ \A t \in {"old", "gone", "new"} :
                 LET e == [d EXCEPT !.target = t]
                 IN e \in Durables /\ e.target = t /\ e.registry = d.registry /\ e.job = d.job /\ e.receipts = d.receipts
                    /\ e.mode = d.mode /\ e.lease = d.lease
           /\ \A t \in {"old", "new"} :
                 LET e == [d EXCEPT !.registry = t]
                 IN e \in Durables /\ e.registry = t /\ e.target = d.target /\ e.job = d.job /\ e.receipts = d.receipts
                    /\ e.mode = d.mode /\ e.lease = d.lease
BY DEF Durables

\* Where the approval has got to.
LEMMA ApprovalSaved ==
    ASSUME UpInv, WholeInv, NEW place, Served("work", place),
           place \in {"ap_install", "ap_intent", "ap_retained", "ap_promoted", "ap_registered", "ap_restart"}
    PROVE  LET d == Save(durable, Wj)
           IN /\ co["work"].pc = place /\ Active
              /\ Sequel(d) /\ d.job = Wj.meta /\ d.target = durable.target /\ d.registry = durable.registry
              /\ MetaFits(Wj.meta, durable, world.applied)
              /\ ~Wj.meta.possibleWrite /\ Wj.meta.phase \notin {"none", "completed", "cancelled"}
              /\ Placed(place, durable, world.applied, Wj.meta) /\ Wj \in Jobs
<1>1. co["work"].pc = place
  BY DEF Served
<1>2. Active /\ place \in SavePcs /\ place \in Approving /\ place \in Carrying
  BY <1>1 DEF Active, Loose, SavePcs, Approving, Carrying
<1>3. Placed(place, durable, world.applied, Wj.meta)
  BY <1>1, <1>2, ActiveFacts DEF WorkHolds, Wj
<1>4. ~Wj.meta.possibleWrite /\ Wj.meta.phase \notin {"completed", "cancelled"}
  BY <1>2, <1>3 DEF Placed
<1>5. Wj.meta.phase # "none" /\ Wj \in Jobs
  BY <1>1, <1>2, WorkTypes DEF Wj
<1> QED
  BY <1>1, <1>2, <1>3, <1>4, <1>5, WorkSaves

\* The preparation against the world in which the job was approved.
LEMMA ApproveSnapshotHolds ==
    ASSUME UpInv, WholeInv, ApproveSnapshot
    PROVE  Outcome
<1>1. co["work"].pc = "ap_snapshot" /\ Active
  BY DEF ApproveSnapshot, At, Active, Loose
<1>2. Placed("ap_snapshot", durable, world.applied, Wj.meta) /\ Wj \in Jobs /\ Sequel(durable)
  BY <1>1, ActiveFacts, WorkTypes, SequelFacts DEF WorkHolds, Wj
<1>3. CASE Fail(durable)
  BY <1>1, <1>2, <1>3, ActiveFail
<1>4. CASE Wj.meta.plan = Ops \ world.applied /\ Step(durable, To("ap_install", Phase(Wj, "installing")))
  <2> DEFINE j == Phase(Wj, "installing")
  <2>1. j \in Jobs /\ MetaFits(j.meta, durable, world.applied)
    BY <1>2, JobFacts, PhaseFits DEF Phases, Placed, Bearing, Approving
  <2>2. j.meta.phase = "installing" /\ j.meta.possibleWrite = Wj.meta.possibleWrite
        /\ j.meta.transition = Wj.meta.transition /\ j.meta.plan = Wj.meta.plan
    BY <1>2, MetaChanges DEF Phases
  <2>3. WorkGoes(durable, "ap_install", j)
    BY <1>4 DEF WorkGoes
  <2> HIDE DEF j
  <2>4. Placed("ap_install", durable, world.applied, j.meta)
    BY <1>2, <1>4, <2>1, <2>2 DEF Placed, Bearing, Approving, Running
  <2> QED
    BY <1>1, <1>2, <2>1, <2>3, <2>4, Onward DEF WorkPcs, Executing
<1> QED
  BY <1>3, <1>4 DEF ApproveSnapshot

\* The installing phase is saved, and the intent of the promotion prepared.
LEMMA InstallingHolds ==
    ASSUME UpInv, WholeInv, Installing
    PROVE  Outcome
<1> DEFINE d == Save(durable, Wj)
           j == Transition(Wj, "intent")
<1>1. /\ co["work"].pc = "ap_install" /\ Active
      /\ Sequel(d) /\ d.job = Wj.meta /\ d.target = durable.target /\ d.registry = durable.registry
      /\ MetaFits(Wj.meta, durable, world.applied)
      /\ ~Wj.meta.possibleWrite /\ Wj.meta.phase \notin {"none", "completed", "cancelled"}
      /\ Placed("ap_install", durable, world.applied, Wj.meta) /\ Wj \in Jobs
  BY ApprovalSaved DEF Installing
<1>2. Fail(d) \/ WorkGoes(d, "ap_intent", j)
  BY DEF Installing, WorkGoes
<1> HIDE DEF d
<1>3. j \in Jobs /\ j.meta.transition = "intent" /\ j.meta.possibleWrite = Wj.meta.possibleWrite
      /\ j.meta.plan = Wj.meta.plan /\ j.meta.phase = Wj.meta.phase
  BY <1>1, JobFacts, MetaChanges DEF Transitions
<1> HIDE DEF j
<1>4. FilesAre(d, "old") /\ Ops \ Wj.meta.plan \subseteq world.applied
  BY <1>1 DEF Placed, MetaFits, FilesAre
<1>5. Placed("ap_intent", d, world.applied, j.meta)
  BY <1>1, <1>3, <1>4 DEF Placed, MetaFits, Bearing, Approving, Running
<1> QED
  BY <1>1, <1>2, <1>3, <1>5, ActiveFail, Onward DEF WorkPcs, Executing

\* The previous files are retained.
LEMMA RetainPreviousHolds ==
    ASSUME UpInv, WholeInv, RetainPrevious
    PROVE  Outcome
<1> DEFINE d == Save(durable, Wj)
           e == [d EXCEPT !.target = "gone"]
           j == Transition(Wj, "previous-retained")
<1>1. /\ co["work"].pc = "ap_intent" /\ Active
      /\ Sequel(d) /\ d.job = Wj.meta /\ d.target = durable.target /\ d.registry = durable.registry
      /\ MetaFits(Wj.meta, durable, world.applied)
      /\ ~Wj.meta.possibleWrite /\ Wj.meta.phase \notin {"none", "completed", "cancelled"}
      /\ Placed("ap_intent", durable, world.applied, Wj.meta) /\ Wj \in Jobs
  BY ApprovalSaved DEF RetainPrevious
<1>2. WorkGoes(e, "ap_retained", j)
  BY DEF RetainPrevious, WorkGoes
<1> HIDE DEF d
<1>3. e \in Durables /\ e.target = "gone" /\ e.registry = d.registry /\ e.job = d.job /\ e.receipts = d.receipts /\ e.mode = d.mode /\ e.lease = d.lease
  BY <1>1, MovedFiles DEF Sequel
<1> HIDE DEF e
<1>4. Wj.meta.transition = "intent" /\ FilesAre(durable, "old") /\ Ops \ Wj.meta.plan \subseteq world.applied
  BY <1>1 DEF Placed, MetaFits
<1>5. Sequel(e)
  BY <1>1, <1>3, <1>4, FilesMove DEF MetaFits
<1>6. j \in Jobs /\ j.meta.transition = "previous-retained" /\ j.meta.possibleWrite = Wj.meta.possibleWrite
      /\ j.meta.plan = Wj.meta.plan /\ j.meta.phase = Wj.meta.phase
  BY <1>1, JobFacts, MetaChanges DEF Transitions
<1> HIDE DEF j
<1>7. Placed("ap_retained", e, world.applied, j.meta)
  BY <1>1, <1>3, <1>4, <1>6 DEF Placed, MetaFits, FilesAre, Bearing, Approving, Running
<1> QED
  BY <1>1, <1>2, <1>5, <1>6, <1>7, Onward DEF WorkPcs, Executing

\* The candidate is promoted, or the previous files come back.
LEMMA PromoteCandidateHolds ==
    ASSUME UpInv, WholeInv, PromoteCandidate
    PROVE  Outcome
<1> DEFINE d == Save(durable, Wj)
           e == [d EXCEPT !.target = "new"]
           f == [d EXCEPT !.target = "old"]
           j == Transition(Wj, "promoted")
<1>1. /\ co["work"].pc = "ap_retained" /\ Active
      /\ Sequel(d) /\ d.job = Wj.meta /\ d.target = durable.target /\ d.registry = durable.registry
      /\ MetaFits(Wj.meta, durable, world.applied)
      /\ ~Wj.meta.possibleWrite /\ Wj.meta.phase \notin {"none", "completed", "cancelled"}
      /\ Placed("ap_retained", durable, world.applied, Wj.meta) /\ Wj \in Jobs
  BY ApprovalSaved DEF PromoteCandidate
<1>2. WorkGoes(e, "ap_promoted", j) \/ Fail(f)
  BY DEF PromoteCandidate, WorkGoes
<1> HIDE DEF d
<1>3. /\ e \in Durables /\ e.target = "new" /\ e.registry = d.registry /\ e.job = d.job /\ e.receipts = d.receipts /\ e.mode = d.mode /\ e.lease = d.lease
      /\ f \in Durables /\ f.target = "old" /\ f.registry = d.registry /\ f.job = d.job /\ f.receipts = d.receipts /\ f.mode = d.mode /\ f.lease = d.lease
  BY <1>1, MovedFiles DEF Sequel
<1> HIDE DEF e, f
<1>4. Wj.meta.transition = "previous-retained" /\ durable.registry = "old" /\ Ops \ Wj.meta.plan \subseteq world.applied
  BY <1>1 DEF Placed, MetaFits
<1>5. Sequel(e) /\ Sequel(f)
  <2>1. MetaFits(d.job, e, world.applied) /\ MetaFits(d.job, f, world.applied)
    BY <1>1, <1>4 DEF MetaFits
  <2> QED
    BY <2>1, <1>1, <1>3, FilesMove
<1>6. j \in Jobs /\ j.meta.transition = "promoted" /\ j.meta.possibleWrite = Wj.meta.possibleWrite
      /\ j.meta.plan = Wj.meta.plan /\ j.meta.phase = Wj.meta.phase
  BY <1>1, JobFacts, MetaChanges DEF Transitions
<1> HIDE DEF j
<1>7. Placed("ap_promoted", e, world.applied, j.meta)
  BY <1>1, <1>3, <1>4, <1>6 DEF Placed, MetaFits, FilesAre, Bearing, Approving, Running
<1> QED
  BY <1>1, <1>2, <1>5, <1>6, <1>7, ActiveFail, Onward DEF WorkPcs, Executing

\* The candidate is registered.
LEMMA RegisterCandidateHolds ==
    ASSUME UpInv, WholeInv, RegisterCandidate
    PROVE  Outcome
<1> DEFINE d == Save(durable, Wj)
           e == [d EXCEPT !.registry = "new"]
           j == Transition(Wj, "registered")
<1>1. /\ co["work"].pc = "ap_promoted" /\ Active
      /\ Sequel(d) /\ d.job = Wj.meta /\ d.target = durable.target /\ d.registry = durable.registry
      /\ MetaFits(Wj.meta, durable, world.applied)
      /\ ~Wj.meta.possibleWrite /\ Wj.meta.phase \notin {"none", "completed", "cancelled"}
      /\ Placed("ap_promoted", durable, world.applied, Wj.meta) /\ Wj \in Jobs
  BY ApprovalSaved DEF RegisterCandidate
<1>2. WorkGoes(e, "ap_registered", j) \/ Fail(d)
  BY DEF RegisterCandidate, WorkGoes
<1> HIDE DEF d
<1>3. e \in Durables /\ e.registry = "new" /\ e.target = d.target /\ e.job = d.job /\ e.receipts = d.receipts /\ e.mode = d.mode /\ e.lease = d.lease
  BY <1>1, MovedFiles DEF Sequel
<1> HIDE DEF e
<1>4. Wj.meta.transition = "promoted" /\ durable.target = "new" /\ Ops \ Wj.meta.plan \subseteq world.applied
  BY <1>1 DEF Placed, MetaFits
<1>5. Sequel(e)
  BY <1>1, <1>3, <1>4, FilesMove DEF MetaFits
<1>6. j \in Jobs /\ j.meta.transition = "registered" /\ j.meta.possibleWrite = Wj.meta.possibleWrite
      /\ j.meta.plan = Wj.meta.plan /\ j.meta.phase = Wj.meta.phase
  BY <1>1, JobFacts, MetaChanges DEF Transitions
<1> HIDE DEF j
<1>7. Placed("ap_registered", e, world.applied, j.meta)
  BY <1>1, <1>3, <1>4, <1>6 DEF Placed, MetaFits, FilesAre, Bearing, Approving, Running
<1> QED
  BY <1>1, <1>2, <1>5, <1>6, <1>7, ActiveFail, Onward DEF WorkPcs, Executing

\* The promotion is saved, and the execution of the job follows.
LEMMA PromotedHolds ==
    ASSUME UpInv, WholeInv, Promoted \/ Approved
    PROVE  Outcome
<1> DEFINE d == Save(durable, Wj)
           j == Phase(Wj, "restarting")
<1>1. PICK place \in {"ap_registered", "ap_restart"} : Served("work", place)
  BY DEF Promoted, Approved
<1>2. /\ co["work"].pc = place /\ Active
      /\ Sequel(d) /\ d.job = Wj.meta /\ d.target = durable.target /\ d.registry = durable.registry
      /\ MetaFits(Wj.meta, durable, world.applied)
      /\ ~Wj.meta.possibleWrite /\ Wj.meta.phase \notin {"none", "completed", "cancelled"}
      /\ Placed(place, durable, world.applied, Wj.meta) /\ Wj \in Jobs
  BY <1>1, ApprovalSaved
<1>3. WorkGoes(d, "ap_restart", j) \/ Fail(d) \/ WorkGoes(d, "r_job", Wj)
  BY DEF Promoted, Approved, WorkGoes
<1> HIDE DEF d
<1>4. j \in Jobs /\ j.meta.transition = Wj.meta.transition /\ j.meta.possibleWrite = Wj.meta.possibleWrite
      /\ j.meta.plan = Wj.meta.plan /\ j.meta.phase = "restarting" /\ MetaFits(j.meta, durable, world.applied)
  BY <1>2, JobFacts, MetaChanges, PhaseFits DEF Phases
<1> HIDE DEF j
<1>5. Wj.meta.transition = "registered" /\ durable.target = "new"
  BY <1>2 DEF Placed
<1>6. Placed("ap_restart", d, world.applied, j.meta) /\ "ap_restart" \in WorkPcs
  BY <1>2, <1>4, <1>5 DEF Placed, MetaFits, FilesAre, Bearing, Approving, Running, WorkPcs, Executing
<1> QED
  BY <1>2, <1>3, <1>4, <1>6, LightPlaces, ActiveFail, Onward

-----------------------------------------------------------------------------
(* The upgrade: a whole world while a published job is executed *)

\* A copy of the job at rest, as the work reads it.
LEMMA ReadFits ==
    ASSUME UpInv, WholeInv
    PROVE  LET j == ReadJob(durable)
           IN /\ j \in Jobs /\ j.meta = durable.job /\ MetaFits(j.meta, durable, world.applied)
              /\ \A t \in Nat : LET k == [j EXCEPT !.meta.token = t]
                                IN /\ k \in Jobs /\ MetaFits(k.meta, durable, world.applied)
                                   /\ k.meta.possibleWrite = durable.job.possibleWrite
                                   /\ k.meta.transition = durable.job.transition
                                   /\ k.meta.phase = durable.job.phase
                                   /\ k.meta.approval = durable.job.approval /\ k.out = j.out
<1> DEFINE j == ReadJob(durable)
<1>1. j \in Jobs /\ j.meta = durable.job
  BY WorkTypes, ReadJobFacts
<1> HIDE DEF j
<1>2. MetaFits(j.meta, durable, world.applied)
  BY <1>1 DEF WholeInv, Whole, Sound
<1>3. ASSUME NEW t \in Nat
      PROVE  LET k == [j EXCEPT !.meta.token = t]
             IN /\ k \in Jobs /\ MetaFits(k.meta, durable, world.applied)
                /\ k.meta.possibleWrite = durable.job.possibleWrite
                /\ k.meta.transition = durable.job.transition
                /\ k.meta.phase = durable.job.phase
                /\ k.meta.approval = durable.job.approval /\ k.out = j.out
  <2> DEFINE k == [j EXCEPT !.meta.token = t]
  <2>1. k \in Jobs /\ k.meta.transition = j.meta.transition /\ k.meta.possibleWrite = j.meta.possibleWrite
        /\ k.meta.plan = j.meta.plan /\ k.meta.phase = j.meta.phase /\ k.meta.approval = j.meta.approval /\ k.out = j.out
    BY <1>1, JobFacts, MetaChanges
  <2> HIDE DEF k
  <2>2. MetaFits(k.meta, durable, world.applied)
    BY <1>2, <2>1 DEF MetaFits
  <2> QED
    BY <1>1, <2>1, <2>2 DEF k
<1> QED
  BY <1>1, <1>2, <1>3 DEF j

\* What is said of records is said of them under another lease.
LEMMA LeaseTaken ==
    ASSUME UpInv, WholeInv
    PROVE  LET d == TakeLease(durable)
           IN /\ SameJob(durable, d) /\ Claimed(d, proc.pid) /\ d.mode = durable.mode
              /\ d.job = durable.job /\ d.target = durable.target /\ d.issued \in Nat
              /\ \A m, done : MetaFits(m, durable, done) => MetaFits(m, d, done)
BY WorkTypes, SequelFacts, ModeChanges, SameJobFacts, LeaseFacts DEF SameJob, Sequel

\* An open job is not released.
LEMMA OpenFacts ==
    ASSUME WholeInv, durable.job.phase \notin Ended
    PROVE  ~Frees(durable.mode)
BY DEF WholeInv, Whole, Releases, Closed

\* reapprove.
LEMMA ReapproveReadHolds ==
    ASSUME UpInv, WholeInv, ReapproveRead
    PROVE  Outcome
<1> DEFINE j == ReadJob(durable)
           d == TakeLease(durable)
           k == [j EXCEPT !.meta.token = d.issued]
<1>1. co["work"].pc = "ra_read" /\ co["work"].pc \in Loose
  BY DEF ReapproveRead, Served, Loose
<1>2. /\ SameJob(durable, d) /\ Claimed(d, proc.pid) /\ d.mode = durable.mode /\ d.issued \in Nat
      /\ \A m, done : MetaFits(m, durable, done) => MetaFits(m, d, done)
      /\ durable \in Durables /\ SameJob(durable, durable)
  BY LeaseTaken, JobIsTwin, WorkTypes
<1>3. /\ j \in Jobs /\ j.meta = durable.job /\ MetaFits(j.meta, durable, world.applied)
      /\ k \in Jobs /\ MetaFits(k.meta, durable, world.applied) /\ k.meta.possibleWrite = durable.job.possibleWrite
  BY <1>2, ReadFits
<1>4. \/ WorkFails(durable)
      \/ /\ durable.job.phase = "recovery-required"
         /\ (Claimed(durable, proc.pid) /\ WorkGoes(durable, "ra_snapshot", j)) \/ WorkGoes(d, "ra_snapshot", k)
  BY <1>3 DEF ReapproveRead, WorkGoes, Held, Claimed
<1> HIDE DEF d, j, k
<1>5. Placed("ra_snapshot", durable, world.applied, j.meta) /\ Placed("ra_snapshot", d, world.applied, k.meta)
  BY <1>2, <1>3 DEF Placed, SameJob, Twin, Bearing, Approving, Running
<1>6. "ra_snapshot" \in WorkPcs
  BY DEF WorkPcs, Executing
<1>7. durable.job.phase = "recovery-required" => ~Frees(durable.mode) /\ ~Frees(d.mode)
  BY <1>2, OpenFacts DEF Ended
<1>8. CASE WorkFails(durable)
  BY <1>1, <1>2, <1>8, LooseFails
<1> QED
  BY <1>1, <1>2, <1>3, <1>4, <1>5, <1>6, <1>7, <1>8, TakenTo

\* The plan of the world as it is now.
LEMMA ReapproveSnapshotHolds ==
    ASSUME UpInv, WholeInv, ReapproveSnapshot
    PROVE  Outcome
<1> DEFINE rest == co["work"].mode.preview
           m == [Wj.meta EXCEPT !.approval = @ + 1, !.plan = rest, !.phase = "restarting"]
           j == [meta |-> m, out |-> NoOutcome]
<1>1. co["work"].pc = "ra_snapshot" /\ Active
  BY DEF ReapproveSnapshot, At, Active, Loose
<1>2. Placed("ra_snapshot", durable, world.applied, Wj.meta) /\ Wj \in Jobs /\ Sequel(durable)
  BY <1>1, ActiveFacts, WorkTypes, SequelFacts DEF WorkHolds, Wj
<1>3. CASE WorkFails(durable)
  BY <1>1, <1>2, <1>3, ActiveEnds
<1>4. CASE rest = Ops \ world.applied /\ WorkGoes(durable, "ra_save", j)
  <2>1. rest \in SUBSET Ops /\ Wj.meta \in Metas
    BY <1>2, WorkTypes DEF Modes, Jobs
  <2>2. Wj.meta.approval + 1 \in 1..MaxApprovals
    <3>1. Wj.meta.approval # MaxApprovals
      BY <1>1 DEF UpInv, UpWork, WorkFits, Wj
    <3>2. Wj.meta.approval \in 1..MaxApprovals /\ MaxApprovals \in Nat
      BY <2>1, BoundsAreNats DEF Metas
    <3> QED
      BY <3>1, <3>2
  <2>3. m \in Metas /\ m.phase = "restarting" /\ m.plan = rest /\ m.possibleWrite = Wj.meta.possibleWrite
        /\ m.transition = Wj.meta.transition
    BY <2>1, <2>2 DEF Metas, Phases
  <2> HIDE DEF m
  <2>4. j \in Jobs /\ j.meta = m
    BY <2>3, EmptyFacts DEF Jobs
  <2> HIDE DEF j
  <2>5. MetaFits(m, durable, world.applied)
    BY <1>2, <1>4, <2>3 DEF Placed, MetaFits, Bearing
  <2>6. Placed("ra_save", durable, world.applied, j.meta) /\ "ra_save" \in WorkPcs
    BY <1>2, <2>3, <2>4, <2>5 DEF Placed, Bearing, Approving, Running, WorkPcs, Executing
  <2> QED
    BY <1>1, <1>2, <1>4, <2>4, <2>6, Onward
<1> QED
  BY <1>3, <1>4 DEF ReapproveSnapshot, WorkGoes

\* The reviewed recovery is saved.
LEMMA ReapprovedHolds ==
    ASSUME UpInv, WholeInv, Reapproved
    PROVE  Outcome
<1>1. co["work"].pc = "ra_save" /\ Active /\ WorkGoes(Save(durable, Wj), "r_job", Wj)
  BY DEF Reapproved, Served, Active, Loose, WorkGoes
<1>2. Sequel(Save(durable, Wj)) /\ Wj \in Jobs
  BY <1>1, WorkSaves, WorkTypes DEF SavePcs
<1> QED
  BY <1>1, <1>2, LightPlaces, Onward

\* resume.
LEMMA ResumeHolds ==
    ASSUME UpInv, WholeInv, ResumeRead \/ ResumeSaved
    PROVE  Outcome
<1> DEFINE j == Phase(ReadJob(durable), "restarting")
           d == Save(durable, Wj)
<1>1. \/ co["work"].pc = "rs_read" /\ durable.job.phase = "recovery-required" /\ Step(durable, To("rs_save", j))
      \/ co["work"].pc = "rs_read" /\ WorkGoes(StageOf(durable, co["work"].mode, "executing"), "r_job", NoJob)
      \/ co["work"].pc = "rs_save" /\ Step(StageOf(d, co["work"].mode, "executing"), To("r_job", NoJob))
  BY WorkTypes, ReadJobFacts DEF ResumeRead, ResumeSaved, Served, WorkGoes
<1>2. CASE co["work"].pc = "rs_read" /\ durable.job.phase = "recovery-required" /\ Step(durable, To("rs_save", j))
  <2>1. j \in Jobs /\ MetaFits(j.meta, durable, world.applied) /\ j.meta.possibleWrite = durable.job.possibleWrite
        /\ j.meta.phase = "restarting"
    <3> DEFINE k == ReadJob(durable)
    <3>1. k \in Jobs /\ k.meta = durable.job /\ MetaFits(k.meta, durable, world.applied)
      BY ReadFits
    <3> HIDE DEF k
    <3>2. Phase(k, "restarting") \in Jobs /\ Phase(k, "restarting").meta.possibleWrite = k.meta.possibleWrite
          /\ Phase(k, "restarting").meta.phase = "restarting"
      BY <3>1, JobFacts, MetaChanges DEF Phases
    <3>3. MetaFits(Phase(k, "restarting").meta, durable, world.applied)
      BY <3>1, PhaseFits DEF Phases
    <3> QED
      BY <3>1, <3>2, <3>3 DEF k
  <2> HIDE DEF j
  <2> DEFINE l == To("rs_save", j)
  <2>2. l \in Locals /\ l.pc = "rs_save" /\ l.job = j /\ Step(durable, l)
    <3>1. "rs_save" \in Pcs
      BY DEF Pcs, WorkPcs, Executing
    <3>2. GoesOn(To("rs_save", j), "rs_save", j, co["work"].left)
      BY <2>1, <3>1, ToFacts
    <3> QED
      BY <1>2, <3>2 DEF GoesOn
  <2> HIDE DEF l
  <2>3. WorkHolds(durable, world.applied, l, proc.pid)
    BY <1>2, <2>1, <2>2 DEF WorkHolds, Placed, Bearing, Approving, Running, Ended
  <2>4. Firm /\ Sequel(durable)
    BY <1>2, SequelFacts DEF Firm, Ended
  <2> QED
    BY <2>2, <2>3, <2>4, FirmGoes DEF Step, Sequel
<1>3. CASE co["work"].pc = "rs_read" /\ WorkGoes(StageOf(durable, co["work"].mode, "executing"), "r_job", NoJob)
  BY <1>3, StageHolds DEF Loose
<1>4. CASE co["work"].pc = "rs_save" /\ Step(StageOf(d, co["work"].mode, "executing"), To("r_job", NoJob))
  <2> DEFINE e == StageOf(d, co["work"].mode, "executing")
             l == To("r_job", NoJob)
  <2>1. Sequel(d)
    BY <1>4, WorkSaves DEF SavePcs
  <2> HIDE DEF d
  <2>2. d \in Durables /\ co["work"].mode \in Modes /\ "executing" \in Stages
    BY <2>1, WorkTypes DEF Sequel, Stages
  <2>3. SameJob(d, e) /\ e.mode.stage = "executing"
    BY <2>2, ModeChanges
  <2>4. e.lease = d.lease
    BY <2>2, StageOfFacts
  <2>5. l \in Locals /\ l.pc = "r_job"
    BY EmptyFacts, ToFacts DEF GoesOn, Pcs, WorkPcs, Executing
  <2>6. Step(e, l)
    BY <1>4
  <2> HIDE DEF e, l
  <2>7. Sound(e, world) /\ Grows(durable, e) /\ ~Frees(e.mode) /\ Leased(e)
    BY <2>1, <2>3, <2>4, SameJobFacts, SequelFacts DEF Sequel, Leased, Claimed, Frees
  <2>8. WorkHolds(e, world.applied, l, proc.pid) /\ Firm
    BY <1>4, <2>5, LooseHolds DEF Firm, Loose
  <2> QED
    BY <2>5, <2>6, <2>7, <2>8, FirmGoes DEF Step
<1> QED
  BY <1>1, <1>2, <1>3, <1>4


\* The files of a job that runs are in place.
Runnable(d, j) ==
    /\ j \in Jobs /\ MetaFits(j.meta, d, world.applied) /\ (d.job.possibleWrite => j.meta.possibleWrite)
    /\ d.target = "new" /\ d.job.transition = "registered" /\ j.meta.transition = "registered"

\* A runnable job fits every place of the runner, in every phase and with every outcome.
LEMMA RunnableFacts ==
    ASSUME NEW d, NEW j, Runnable(d, j)
    PROVE  /\ \A place \in (Running \ {"r_completed"}) \cup {"r_loop"} : Placed(place, d, world.applied, j.meta)
           /\ \A p \in Phases \ {"none", "completed", "cancelled"} : Runnable(d, Phase(j, p))
           /\ \A b \in SUBSET Ops, s \in Outcomes : Runnable(d, Mark(j, b, s))
<1>1. \A place \in (Running \ {"r_completed"}) \cup {"r_loop"} : Placed(place, d, world.applied, j.meta)
  BY DEF Runnable, Placed, Bearing, Approving, Running
<1>2. \A p \in Phases \ {"none", "completed", "cancelled"} : Runnable(d, Phase(j, p))
  BY JobFacts, MetaChanges, PhaseFits DEF Runnable
<1>3. \A b \in SUBSET Ops, s \in Outcomes : Runnable(d, Mark(j, b, s))
  BY JobFacts DEF Runnable
<1> QED
  BY <1>1, <1>2, <1>3

\* Where the runner is, its copy is runnable, saved or not.
LEMMA RunningFacts ==
    ASSUME UpInv, WholeInv, co["work"].pc \in Running
    PROVE  /\ Active /\ Wj \in Jobs
           /\ Sequel(durable) /\ Runnable(durable, Wj)
           /\ co["work"].pc \in SavePcs => Sequel(Save(durable, Wj)) /\ Runnable(Save(durable, Wj), Wj)
<1>1. Active /\ co["work"].pc \in Bearing
  BY DEF Active, Loose, Running, Bearing
<1>2. Wj \in Jobs /\ Sequel(durable) /\ Placed(co["work"].pc, durable, world.applied, Wj.meta)
  BY <1>1, WorkTypes, SequelFacts, ActiveFacts DEF WorkHolds, Wj
<1>3. Runnable(durable, Wj)
  BY <1>1, <1>2 DEF Placed, Runnable
<1>4. ASSUME co["work"].pc \in SavePcs PROVE Sequel(Save(durable, Wj)) /\ Runnable(Save(durable, Wj), Wj)
  <2> DEFINE d == Save(durable, Wj)
  <2>1. Sequel(d) /\ d.job = Wj.meta /\ d.target = durable.target /\ d.registry = durable.registry
    BY <1>1, <1>4, WorkSaves
  <2> HIDE DEF d
  <2>2. Runnable(d, Wj)
    BY <2>1, <1>3 DEF Runnable, MetaFits, FilesAre
  <2> QED
    BY <2>1, <2>2 DEF d
<1> QED
  BY <1>1, <1>2, <1>3, <1>4

\* A runnable job runs on.
LEMMA RunsOn ==
    ASSUME UpInv, WholeInv, Active, NEW d, Sequel(d), NEW j, Runnable(d, j),
           NEW place \in (Running \ {"r_intent", "r_completed"}) \cup {"r_loop"}, WorkGoes(d, place, j)
    PROVE  Outcome
<1>1. place \in WorkPcs /\ place \notin {"r_intent", "rs_save"}
  BY DEF Running, WorkPcs, Executing
<1> QED
  BY <1>1, RunnableFacts, Onward DEF Runnable

\* What may run.
LEMMA RunsHolds ==
    ASSUME UpInv, WholeInv, Active, NEW d, Sequel(d), NEW j \in Jobs, d.target = "new",
           MetaFits(j.meta, d, world.applied), d.job.possibleWrite => j.meta.possibleWrite,
           j.meta.transition = d.job.transition, Runs(d, j)
    PROVE  Outcome
<1>1. CASE Fail(d)
  BY <1>1, ActiveFail
<1>2. CASE j.meta.transition = "registered"
           /\ (WorkGoes(d, "r_restart", Phase(j, "restarting")) \/ WorkGoes(d, "r_snapshot", j))
  <2>1. Runnable(d, j) /\ Runnable(d, Phase(j, "restarting"))
    <3>1. Runnable(d, j)
      BY <1>2 DEF Runnable
    <3>2. "restarting" \in Phases \ {"none", "completed", "cancelled"}
      BY DEF Phases
    <3> QED
      BY <3>1, <3>2, RunnableFacts
  <2> QED
    BY <1>2, <2>1, RunsOn DEF Running
<1> QED
  BY <1>1, <1>2 DEF Runs, WorkGoes

\* resume reads the job.
LEMMA RunnerReadHolds ==
    ASSUME UpInv, WholeInv, RunnerRead
    PROVE  Outcome
<1> DEFINE j == ReadJob(durable)
           d == TakeLease(durable)
           k == [j EXCEPT !.meta.token = d.issued]
<1>1. co["work"].pc = "r_job" /\ co["work"].pc \in Loose
  BY DEF RunnerRead, Served, Loose
<1>2. /\ SameJob(durable, d) /\ Claimed(d, proc.pid) /\ d.mode = durable.mode /\ d.issued \in Nat /\ d.target = durable.target
      /\ \A m, done : MetaFits(m, durable, done) => MetaFits(m, d, done)
      /\ durable \in Durables /\ SameJob(durable, durable) /\ Leased(durable)
  BY LeaseTaken, JobIsTwin, WorkTypes DEF Leased
<1>3. /\ j \in Jobs /\ j.meta = durable.job /\ MetaFits(j.meta, durable, world.applied)
      /\ k \in Jobs /\ MetaFits(k.meta, durable, world.applied) /\ k.meta.possibleWrite = durable.job.possibleWrite
  BY <1>2, ReadFits
<1>4. \/ WorkFails(durable) \/ WorkGoes(durable, "ex_done", j)
      \/ /\ durable.target = "new" /\ durable.job.phase \notin {"completed", "cancelled"}
         /\ \/ Claimed(durable, proc.pid) /\ (Runs(durable, j) \/ Fail(durable))
            \/ WorkGoes(d, "r_lease", k)
  BY <1>3 DEF RunnerRead, WorkGoes, Held, Acquirable, Claimed
<1> HIDE DEF d, j, k
<1>5. CASE WorkFails(durable) \/ WorkGoes(durable, "ex_done", j)
  BY <1>1, <1>2, <1>3, <1>5, LooseFails, LooseTo DEF Loose
<1>6. CASE durable.target = "new" /\ durable.job.phase \notin {"completed", "cancelled"}
  <2>1. durable.job.phase \notin Ended
    BY <1>3, <1>6 DEF MetaFits, FilesAre, Ended
  <2>2. ~Frees(durable.mode) /\ ~Frees(d.mode) /\ Sequel(durable)
    BY <1>2, <2>1, OpenFacts, SequelFacts
  <2>3. CASE WorkGoes(d, "r_lease", k)
    <3>1. Placed("r_lease", d, world.applied, k.meta) /\ "r_lease" \in WorkPcs
      BY <1>2, <1>3, <1>6 DEF Placed, SameJob, Twin, Bearing, Approving, Running, WorkPcs, Executing
    <3> QED
      BY <1>1, <1>2, <1>3, <2>2, <2>3, <3>1, TakenTo
  <2>4. CASE Claimed(durable, proc.pid) /\ (Runs(durable, j) \/ Fail(durable))
    <3>1. Active
      BY <1>1, <2>1, <2>4 DEF Active
    <3> QED
      BY <1>3, <1>6, <2>2, <2>4, <3>1, RunsHolds, ActiveFail
  <2> QED
    BY <1>1, <1>2, <1>4, <1>6, <2>3, <2>4, LooseFails, <1>5
<1> QED
  BY <1>4, <1>5, <1>6

\* The lease the runner took is in the job.
LEMMA RunnerOwnsHolds ==
    ASSUME UpInv, WholeInv, RunnerOwns
    PROVE  Outcome
<1> DEFINE d == Save(durable, Wj)
<1>1. co["work"].pc = "r_lease" /\ Active /\ Runs(d, Wj)
  BY DEF RunnerOwns, Served, Active, Loose
<1>2. /\ Sequel(d) /\ d.job = Wj.meta /\ d.target = durable.target /\ d.registry = durable.registry
      /\ MetaFits(Wj.meta, durable, world.applied) /\ Wj \in Jobs
  BY <1>1, WorkSaves, WorkTypes DEF SavePcs
<1>3. durable.target = "new"
  BY <1>1, ActiveFacts DEF WorkHolds, Placed
<1> HIDE DEF d
<1>4. MetaFits(Wj.meta, d, world.applied)
  BY <1>2 DEF MetaFits, FilesAre
<1> QED
  BY <1>1, <1>2, <1>3, <1>4, RunsHolds

\* The runner up to its loop.
LEMMA RunnerStartsHolds ==
    ASSUME UpInv, WholeInv, RunnerRestarts \/ RunnerSnapshot
    PROVE  Outcome
<1>1. co["work"].pc \in {"r_restart", "r_snapshot"} /\ co["work"].pc \in Running /\ (RunnerRestarts => co["work"].pc \in SavePcs)
  BY DEF RunnerRestarts, RunnerSnapshot, Served, At, Running, SavePcs
<1>2. /\ Active /\ Sequel(durable) /\ Runnable(durable, Wj)
      /\ RunnerRestarts => Sequel(Save(durable, Wj)) /\ Runnable(Save(durable, Wj), Wj)
  BY <1>1, RunningFacts
<1>3. Runnable(durable, Phase(Wj, "migrating"))
  BY <1>2, RunnableFacts DEF Phases
<1>4. \/ RunnerRestarts /\ (WorkGoes(Save(durable, Wj), "r_snapshot", Wj) \/ Fail(Save(durable, Wj)))
      \/ WorkGoes(durable, "r_migrating", Phase(Wj, "migrating")) \/ Fail(durable)
  BY DEF RunnerRestarts, RunnerSnapshot, WorkGoes
<1> QED
  BY <1>2, <1>3, <1>4, RunsOn, ActiveFail DEF Running

\* The top of the loop.
LEMMA LoopHolds ==
    ASSUME UpInv, WholeInv, Active, NEW d, Sequel(d), NEW j, Runnable(d, j),
           NEW left \in SUBSET Ops, Loop(d, j, left)
    PROVE  Outcome
<1>1. \/ WorkGoes(d, "r_verifying", Phase(j, "verifying"))
      \/ WorkGoes(d, "r_loop", j) \/ Fail(d)
  BY DEF Loop, WorkGoes
<1>2. Runnable(d, Phase(j, "verifying"))
  BY RunnableFacts DEF Phases
<1> QED
  BY <1>1, <1>2, RunsOn, ActiveFail DEF Running

\* The migration is recorded, and the loop begins; the confirmed operations are, and it goes on.
LEMMA LoopStepsHold ==
    ASSUME UpInv, WholeInv, Migrating \/ Confirmed
    PROVE  Outcome
<1> DEFINE d == Save(durable, Wj)
<1>1. co["work"].pc \in {"r_migrating", "r_confirm"} /\ co["work"].pc \in Running /\ co["work"].pc \in SavePcs
  BY DEF Migrating, Confirmed, Served, Running, SavePcs
<1>2. Active /\ Sequel(d) /\ Runnable(d, Wj) /\ Wj.meta.plan \in SUBSET Ops
  BY <1>1, RunningFacts DEF Jobs, Metas
<1>3. co["work"].left \ co["work"].batch \in SUBSET Ops
  BY WorkTypes
<1>4. Loop(d, Wj, Wj.meta.plan) \/ Loop(d, Wj, co["work"].left \ co["work"].batch)
  BY DEF Migrating, Confirmed
<1> HIDE DEF d
<1> QED
  BY <1>2, <1>3, <1>4, LoopHolds

\* The loop reads the job.
LEMMA LoopReadHolds ==
    ASSUME UpInv, WholeInv, LoopRead
    PROVE  Outcome
<1> DEFINE j == ReadJob(durable)
<1>1. co["work"].pc = "r_loop" /\ Active
  BY DEF LoopRead, Served, Active, Loose
<1>2. Fail(durable) \/ WorkGoes(durable, "r_source", j)
  BY DEF LoopRead, WorkGoes
<1>3. durable.target = "new" /\ durable.job.transition = "registered" /\ Sequel(durable)
  BY <1>1, ActiveFacts, SequelFacts DEF WorkHolds, Placed
<1>4. Runnable(durable, j)
  BY <1>3, ReadFits DEF Runnable
<1> HIDE DEF j
<1> QED
  BY <1>1, <1>2, <1>3, <1>4, RunsOn, ActiveFail DEF Running

\* The job in hand, before the world is read, was published and is not undone.
LEMMA SourceFits ==
    ASSUME UpInv, WholeInv, co["work"].pc = "r_source", NEW b \in SUBSET Ops, NEW l, l = [To("r_intent", Intents(Wj, b)) EXCEPT !.batch = b]
    PROVE  l \in Locals /\ l.pc = "r_intent" /\ WorkHolds(durable, world.applied, l, proc.pid)
<1> DEFINE k == Intents(Wj, b)
           t == To("r_intent", k)
<1>1. co["work"].pc \in Running /\ "r_intent" \in Pcs
  BY DEF Running, Pcs, WorkPcs, Executing
<1>2. Runnable(durable, Wj) /\ Wj \in Jobs /\ Active
  BY <1>1, RunningFacts
<1>3. Wj.meta.phase # "none"
  BY WorkTypes DEF Carrying, Wj
<1>4. k \in Jobs /\ k.meta.transition = Wj.meta.transition /\ k.meta.possibleWrite
      /\ k.meta.plan = Wj.meta.plan /\ k.meta.phase = Wj.meta.phase /\ \A o \in b : k.out[o] = "intent"
  BY <1>2, JobFacts, MetaChanges
<1> HIDE DEF k
<1>5. t \in Locals /\ t.pc = "r_intent" /\ t.job = k /\ t.mode = co["work"].mode
  BY <1>1, <1>4, ToFacts DEF GoesOn
<1>6. l = [t EXCEPT !.batch = b]
  BY DEF k
<1> HIDE DEF t
<1>7. l \in Locals /\ l.pc = "r_intent" /\ l.job = k /\ l.mode = co["work"].mode /\ l.batch = b
  BY <1>5, <1>6 DEF Locals
<1>8. MetaFits(k.meta, durable, world.applied)
  BY <1>2, <1>3, <1>4 DEF Runnable, MetaFits, FilesAre
<1>9. Placed("r_intent", durable, world.applied, k.meta)
  BY <1>2, <1>4, <1>8 DEF Placed, Runnable, Bearing, Approving, Running
<1>10. \A o \in b : k.out[o] # "none"
  BY <1>4
<1> QED
  BY <1>2, <1>4, <1>7, <1>9, <1>10, ActiveFacts DEF WorkHolds

\* The next operations are confirmed, sent or refused.
LEMMA SourceReadHolds ==
    ASSUME UpInv, WholeInv, SourceRead
    PROVE  Outcome
<1>1. co["work"].pc = "r_source" /\ co["work"].pc \in Running
  BY DEF SourceRead, At, Running
<1>2. Active /\ Sequel(durable) /\ Runnable(durable, Wj)
  BY <1>1, RunningFacts
<1>3. co["work"].left # {} /\ co["work"].left \in SUBSET Ops
  BY <1>1, WorkTypes DEF UpInv, UpWork, WorkFits
<1>4. ASSUME NEW b \in Batches(co["work"].left, Wj), Step(durable, [To("r_confirm", Mark(Wj, b, "confirmed")) EXCEPT !.batch = b])
      PROVE  Outcome
  <2>1. b \in SUBSET Ops
    BY <1>3, BatchFacts
  <2>2. Runnable(durable, Mark(Wj, b, "confirmed")) /\ WorkGoes(durable, "r_confirm", Mark(Wj, b, "confirmed"))
    BY <1>2, <1>4, <2>1, RunnableFacts DEF Outcomes, WorkGoes
  <2> QED
    BY <1>1, <1>2, <2>2, RunsOn DEF Running
<1>5. ASSUME NEW b \in Batches(co["work"].left, Wj), Step(durable, [To("r_intent", Intents(Wj, b)) EXCEPT !.batch = b])
      PROVE  Outcome
  <2> DEFINE l == [To("r_intent", Intents(Wj, b)) EXCEPT !.batch = b]
  <2>1. b \in SUBSET Ops
    BY <1>3, BatchFacts
  <2>2. l \in Locals /\ l.pc = "r_intent" /\ WorkHolds(durable, world.applied, l, proc.pid)
    BY <1>1, <2>1, SourceFits
  <2>3. Step(durable, l)
    BY <1>5
  <2> HIDE DEF l
  <2> QED
    BY <1>1, <1>2, <2>2, <2>3, ActiveStep
<1>6. Fail(durable) \/ \E b \in Batches(co["work"].left, Wj) :
             \/ Step(durable, [To("r_confirm", Mark(Wj, b, "confirmed")) EXCEPT !.batch = b])
             \/ Step(durable, [To("r_intent", Intents(Wj, b)) EXCEPT !.batch = b])
  BY DEF SourceRead
<1> QED
  BY <1>1, <1>2, <1>4, <1>5, <1>6, ActiveFail

\* A batch that could not be sent.
LEMMA SendFailedHolds ==
    ASSUME UpInv, WholeInv, Active, NEW d, Sequel(d), Runnable(d, Wj), SendFailed(d)
    PROVE  Outcome
<1> DEFINE j == Mark(Wj, co["work"].batch, "uncertain")
<1>1. WorkFails(d) \/ WorkGoes(d, "e_read", Wj) \/ WorkGoes(d, "e_save", j)
  BY DEF SendFailed, WorkGoes
<1>2. Wj \in Jobs /\ Runnable(d, j)
  BY WorkTypes, RunnableFacts DEF Outcomes
<1> HIDE DEF j
<1>3. Placed("e_save", d, world.applied, j.meta) /\ "e_save" \in WorkPcs
  BY <1>2 DEF Runnable, Placed, Bearing, Approving, Running, WorkPcs, Executing
<1>4. CASE WorkFails(d)
  BY <1>4, ActiveEnds
<1>5. CASE WorkGoes(d, "e_read", Wj)
  BY <1>2, <1>5, LightPlaces, Onward
<1>6. CASE WorkGoes(d, "e_save", j)
  BY <1>2, <1>3, <1>6, Onward DEF Runnable
<1> QED
  BY <1>1, <1>4, <1>5, <1>6

\* The batch is sent: its intents are on the disk.
LEMMA SendHolds ==
    ASSUME UpInv, WholeInv, Send
    PROVE  Outcome
<1> DEFINE d == Save(durable, Wj)
           l == To("r_send", Wj)
           b == co["work"].batch
<1>1. co["work"].pc = "r_intent" /\ co["work"].pc \in Running /\ co["work"].pc \in SavePcs
  BY DEF Send, Served, Running, SavePcs
<1>2. Active /\ Sequel(d) /\ Runnable(d, Wj) /\ Wj \in Jobs
  BY <1>1, RunningFacts
<1>3. d.job = Wj.meta /\ \A o \in Ops : Wj.out[o] # "none" => o \in DeclaredIn(d)
  BY <1>1, <1>2, WorkSaves
<1>4. Wj.meta.possibleWrite /\ \A o \in b : Wj.out[o] # "none"
  BY <1>1, <1>2, ActiveFacts DEF WorkHolds, Wj
<1>5. \/ Fail(d) \/ SendFailed(d)
      \/ Turn(d, [co EXCEPT !["work"] = l], {"work"}) /\ world' = [world EXCEPT !.flying = @ \cup b] /\ UNCHANGED <<proc, events>>
  BY DEF Send
<1>6. "r_send" \in Pcs /\ b \in SUBSET Ops
  BY WorkTypes DEF Pcs, WorkPcs, Executing
<1>7. l \in Locals /\ l.pc = "r_send" /\ l.job = Wj
  BY <1>2, <1>6, ToFacts DEF GoesOn
<1> HIDE DEF d, l
<1>8. CASE Turn(d, [co EXCEPT !["work"] = l], {"work"}) /\ world' = [world EXCEPT !.flying = @ \cup b] /\ UNCHANGED <<proc, events>>
  <2>1. world'.applied = world.applied /\ world'.flying = world.flying \cup b
    BY <1>8, WorkTypes DEF Worlds
  <2>2. Sound(d, world) /\ Grows(durable, d) /\ d.mode = durable.mode
    BY <1>2 DEF Sequel
  <2>3. Sent(world') \subseteq DeclaredIn(d)
    BY <1>3, <1>4, <1>6, <2>1, <2>2 DEF Sound, Sent
  <2>4. Sound(d, world')
    BY <1>3, <1>4, <2>1, <2>2, <2>3 DEF Sound
  <2>5. Placed("r_send", d, world.applied, Wj.meta)
    BY <1>2, RunnableFacts DEF Running
  <2>6. Leased(d) /\ Claimed(d, proc.pid)
    BY <1>2, ActiveFacts DEF Sequel, Leased, Claimed
  <2>7. WorkHolds(d, world.applied, l, proc.pid)
    BY <1>7, <2>5, <2>6 DEF WorkHolds
  <2>8. proc'.pid = proc.pid
    BY <1>8
  <2> QED
    BY <1>2, <1>7, <1>8, <2>1, <2>2, <2>4, <2>6, <2>7, <2>8, ActiveGoes
<1> QED
  BY <1>2, <1>5, <1>8, ActiveFail, SendFailedHolds

\* The answer to the batch, or none; the readback of it.
LEMMA SentHolds ==
    ASSUME UpInv, WholeInv, Acknowledged \/ Unacknowledged \/ Readback
    PROVE  Outcome
<1> DEFINE j == Mark(Wj, co["work"].batch, "confirmed")
<1>1. co["work"].pc \in {"r_send", "r_readback"} /\ co["work"].pc \in Running
  BY DEF Acknowledged, Unacknowledged, Readback, At, Running
<1>2. Active /\ Sequel(durable) /\ Runnable(durable, Wj)
  BY <1>1, RunningFacts
<1>3. Runnable(durable, j)
  BY <1>2, WorkTypes, RunnableFacts DEF Outcomes
<1>4. WorkGoes(durable, "r_readback", Wj) \/ SendFailed(durable) \/ WorkGoes(durable, "r_confirm", j) \/ Fail(durable)
  BY DEF Acknowledged, Unacknowledged, Readback, WorkGoes
<1> HIDE DEF j
<1> QED
  BY <1>2, <1>3, <1>4, RunsOn, SendFailedHolds, ActiveFail DEF Running

\* The operation that was sent is recorded as uncertain.
LEMMA UncertainHolds ==
    ASSUME UpInv, WholeInv, UncertainRead \/ UncertainSaved
    PROVE  Outcome
<1> DEFINE j == ReadJob(durable)
           b == {o \in co["work"].batch : j.out[o] # "none"}
           k == Mark(j, b, "uncertain")
<1>1. Active /\ (UncertainSaved => co["work"].pc = "e_save" /\ co["work"].pc \in SavePcs)
  BY DEF UncertainRead, UncertainSaved, Served, Active, Loose, SavePcs
<1>2. WorkGoes(durable, "e_save", k) \/ (UncertainSaved /\ Fail(Save(durable, Wj)))
  BY DEF UncertainRead, UncertainSaved, WorkGoes
<1>3. CASE WorkGoes(durable, "e_save", k)
  <2>1. b \in SUBSET Ops
    BY WorkTypes
  <2> HIDE DEF b
  <2>2. j \in Jobs /\ j.meta = durable.job /\ MetaFits(j.meta, durable, world.applied)
    BY ReadFits
  <2> HIDE DEF j
  <2>3. k \in Jobs /\ k.meta = j.meta
    BY <2>1, <2>2, JobFacts DEF Outcomes
  <2> HIDE DEF k
  <2>4. Placed("e_save", durable, world.applied, k.meta) /\ "e_save" \in WorkPcs
    BY <2>2, <2>3 DEF Placed, Bearing, Approving, Running, WorkPcs, Executing
  <2> QED
    BY <1>1, <1>3, <2>3, <2>4, SequelFacts, Onward
<1>4. CASE UncertainSaved /\ Fail(Save(durable, Wj))
  BY <1>1, <1>4, WorkSaves, ActiveFail
<1> QED
  BY <1>2, <1>3, <1>4

\* The world is verified: with the plan's operations it has them all.
LEMMA VerifiedHolds ==
    ASSUME UpInv, WholeInv, Verifying \/ Verified
    PROVE  Outcome
<1> DEFINE j == Phase(Wj, "completed")
<1>1. co["work"].pc \in {"r_verifying", "r_check"} /\ co["work"].pc \in Running /\ (Verifying => co["work"].pc \in SavePcs)
  BY DEF Verifying, Verified, Served, At, Running, SavePcs
<1>2. /\ Active /\ Sequel(durable) /\ Runnable(durable, Wj)
      /\ Verifying => Sequel(Save(durable, Wj)) /\ Runnable(Save(durable, Wj), Wj)
  BY <1>1, RunningFacts
<1>3. \/ Verifying /\ WorkGoes(Save(durable, Wj), "r_check", Wj)
      \/ Fail(durable)
      \/ Wj.meta.plan \subseteq world.applied /\ WorkGoes(durable, "r_completed", j)
  BY DEF Verifying, Verified, WorkGoes
<1>4. CASE Wj.meta.plan \subseteq world.applied /\ WorkGoes(durable, "r_completed", j)
  <2>1. Wj \in Jobs /\ world.applied \subseteq Ops /\ j \in Jobs
    BY WorkTypes, JobFacts DEF Worlds, Phases
  <2>2. j.meta.phase = "completed" /\ j.meta.possibleWrite = Wj.meta.possibleWrite /\ j.meta.transition = Wj.meta.transition
        /\ j.meta.plan = Wj.meta.plan
    BY <2>1, MetaChanges DEF Phases
  <2> HIDE DEF j
  <2>3. world.applied = Ops
    BY <1>2, <1>4, <2>1 DEF Runnable, MetaFits
  <2>4. Runnable(durable, j)
    BY <1>2, <2>1, <2>2, <2>3 DEF Runnable, MetaFits, FilesAre
  <2>5. Placed("r_completed", durable, world.applied, j.meta) /\ "r_completed" \in WorkPcs
    BY <2>2, <2>4 DEF Runnable, Placed, Bearing, Approving, Running, WorkPcs, Executing
  <2> QED
    BY <1>2, <1>4, <2>1, <2>5, Onward
<1> HIDE DEF j
<1>5. CASE Verifying /\ WorkGoes(Save(durable, Wj), "r_check", Wj)
  BY <1>2, <1>5, RunsOn DEF Running
<1> QED
  BY <1>2, <1>3, <1>4, <1>5, ActiveFail
\* A hook fails, or the completed job gives its lease back.
LEMMA CompletedHolds ==
    ASSUME UpInv, WholeInv, HookFails \/ Completed
    PROVE  Outcome
<1> DEFINE d == Save(durable, Wj)
<1>1. co["work"].pc \in Running /\ (Completed => co["work"].pc \in SavePcs)
  BY DEF HookFails, Completed, Served, Running, SavePcs
<1>2. /\ Active /\ Sequel(durable) /\ Wj \in Jobs
      /\ Completed => Sequel(d)
  BY <1>1, RunningFacts
<1>3. CASE HookFails
  BY <1>2, <1>3, ActiveFail DEF HookFails
<1>4. CASE Completed
  <2>1. Step(DropLease(d), To("ex_done", Wj)) \/ Fail(d)
    BY <1>4 DEF Completed
  <2> HIDE DEF d
  <2>2. CASE Fail(d)
    BY <1>2, <1>4, <2>2, ActiveFail
  <2>3. CASE Step(DropLease(d), To("ex_done", Wj))
    <3> DEFINE e == DropLease(d)
               l == To("ex_done", Wj)
    <3>1. Sequel(d) /\ d \in Durables /\ d.job = Wj.meta /\ co["work"].pc = "r_completed"
      BY <1>1, <1>2, <1>4, WorkSaves DEF Sequel, Completed, Served, d
    <3>2. SameJob(d, e) /\ e.mode = d.mode
      BY <3>1, ModeChanges
    <3>3. l \in Locals /\ l.pc = "ex_done"
      BY <1>2, ToFacts DEF GoesOn, Pcs, WorkPcs, Executing
    <3>4. Step(e, l)
      BY <2>3
    <3> HIDE DEF e, l
    <3>5. Sound(e, world) /\ Grows(durable, e) /\ e.job.phase = "completed"
      <4>1. Wj.meta.phase = "completed"
        BY <3>1, <1>2, ActiveFacts DEF WorkHolds, Placed, Wj
      <4> QED
        BY <4>1, <3>1, <3>2, SameJobFacts, SequelFacts DEF Sequel, SameJob, Twin
    <3>6. ~Frees(e.mode) /\ ~Frees(durable.mode)
      BY <1>2, <3>1, <3>2, ActiveFacts DEF Sequel
    <3>7. Closed(e, world, l)
      BY <3>3, <3>5 DEF Closed, WholeWorld, Sound, MetaFits, Ended, Loose
    <3>8. WorkHolds(e, world.applied, l, proc.pid) /\ CancelHolds(e, world.applied, co["cancel"])
      <4>1. co["work"].pc # "idle"
        BY <3>1
      <4> QED
        BY <4>1, <3>3, LooseHolds, WaitingHolds DEF Loose
    <3>9. Follows(durable, e) /\ Releases(e, world, l, co["poll"], proc.pid)
      BY <3>5, <3>6, <3>7 DEF Follows, Grows, Declared, Releases
    <3> QED
      BY <3>3, <3>4, <3>5, <3>8, <3>9, WorkTurn DEF Step
  <2> QED
    BY <2>1, <2>2, <2>3
<1> QED
  BY <1>3, <1>4

\* The completed job frees the world, which is whole.
LEMMA ExecutedHolds ==
    ASSUME UpInv, WholeInv, Executed
    PROVE  Outcome
<1>1. co["work"].pc = "ex_done" /\ co["work"].pc \in Loose /\ co["work"].pc # "idle" /\ ~durable.torn
  BY DEF Executed, Served, Refuses, Loose
<1>2. CASE WorkFails(durable)
  BY <1>1, <1>2, WorkTypes, JobIsTwin, LooseFails
<1>3. CASE /\ durable.job.phase = "completed"
           /\ Turn(Stage(durable, "activating"), [co EXCEPT !["work"] = Asleep], {"work"})
           /\ proc' = [proc EXCEPT !.aborted = FALSE, !.restarting = TRUE]
           /\ UNCHANGED <<world, events>>
  <2> DEFINE d == Stage(durable, "activating")
  <2>1. SameJob(durable, d) /\ Sound(durable, world)
    BY WorkTypes, ModeChanges DEF Stages, WholeInv, Whole
  <2>2. Turn(d, [co EXCEPT !["work"] = Asleep], {"work"}) /\ world' = world
    BY <1>3
  <2>3. proc'.pid = proc.pid
    BY <1>3, WorkTypes DEF Processes
  <2> HIDE DEF d
  <2>4. Sound(d, world) /\ Follows(durable, d) /\ d.job.phase = "completed" /\ ~d.torn
    BY <1>1, <1>3, <2>1, SameJobFacts DEF SameJob, Twin
  <2>5. Closed(d, world, Asleep)
    BY <2>4, AsleepHolds DEF Closed, WholeWorld, Sound, MetaFits, Ended
  <2>6. Releases(d, world, Asleep, co["poll"], proc.pid)
    BY <2>4, <2>5 DEF Releases
  <2> QED
    BY <1>1, <2>2, <2>3, <2>4, <2>6, AsleepHolds, WaitingHolds, WorkTurn
<1> QED
  BY <1>2, <1>3 DEF Executed

\* The failure of the work is recorded.
LEMMA FailHolds ==
    ASSUME UpInv, WholeInv, FailRead \/ FailSaved
    PROVE  Outcome
<1> DEFINE j == ReadJob(durable)
           k == Phase(j, "recovery-required")
<1>1. Active /\ (FailSaved => co["work"].pc = "f_save" /\ co["work"].pc \in SavePcs)
  BY DEF FailRead, FailSaved, Served, Active, Loose, SavePcs
<1>2. WorkFails(durable) \/ WorkGoes(durable, "f_save", k) \/ (FailSaved /\ WorkFails(Save(durable, Wj)))
  BY DEF FailRead, FailSaved, WorkGoes
<1>3. CASE WorkGoes(durable, "f_save", k)
  <2>1. j \in Jobs /\ j.meta = durable.job /\ MetaFits(j.meta, durable, world.applied)
    BY ReadFits
  <2> HIDE DEF j
  <2>2. k \in Jobs /\ k.meta.possibleWrite = j.meta.possibleWrite /\ MetaFits(k.meta, durable, world.applied)
    BY <2>1, JobFacts, MetaChanges, PhaseFits DEF Phases
  <2> HIDE DEF k
  <2>3. Placed("f_save", durable, world.applied, k.meta) /\ "f_save" \in WorkPcs
    BY <2>1, <2>2 DEF Placed, Bearing, Approving, Running, WorkPcs, Executing
  <2> QED
    BY <1>1, <1>3, <2>2, <2>3, SequelFacts, Onward
<1>4. CASE FailSaved /\ WorkFails(Save(durable, Wj))
  BY <1>1, <1>4, WorkSaves, ActiveEnds
<1>5. CASE WorkFails(durable)
  BY <1>1, <1>5, SequelFacts, ActiveEnds
<1> QED
  BY <1>2, <1>3, <1>4, <1>5

\* A rejected call of the work.
LEMMA WorkRejectedHolds ==
    ASSUME UpInv, WholeInv, WorkRejected
    PROVE  Outcome
<1>1. WorkFails(durable) /\ co["work"].pc # "idle"
  BY Stepping DEF WorkRejected, Coroutines, JournalPcs, SavePcs
<1>2. CASE co["work"].pc \in Loose
  BY <1>1, <1>2, WorkTypes, JobIsTwin, LooseFails
<1>3. CASE co["work"].pc \notin Loose
  BY <1>1, <1>3, SequelFacts, FirmEnds DEF Firm
<1> QED
  BY <1>2, <1>3

-----------------------------------------------------------------------------
(* The upgrade: a whole world while an operation begins *)

\* What an operation that begins does to the records: it takes no job in hand.
LEMMA BeginTells ==
    ASSUME NEW d \in Durables, Records(d), NEW op \in WorkOps
    PROVE  LET b == Begin(op, d)
           IN /\ SameJob(d, b.d) /\ b.d.lease = d.lease /\ (Frees(b.d.mode) => Frees(d.mode))
              /\ b.w \in Locals /\ b.w.pc \in Loose
<1> DEFINE e == Stage(d, "executing")
           r == RecoveryRequired(d)
           b == Begin(op, d)
<1>1. SameJob(d, e) /\ ~Frees(e.mode) /\ e.lease = d.lease /\ SameJob(d, r) /\ ~Frees(r.mode) /\ r.lease = d.lease
  <2>1. "executing" \in Stages /\ "recovery-required" \in Stages
    BY DEF Stages
  <2>2. SameJob(d, e) /\ e.mode.stage = "executing" /\ SameJob(d, r) /\ r.mode.stage = "recovery-required"
    BY <2>1, ModeChanges DEF RecoveryRequired
  <2>3. e.lease = d.lease /\ r.lease = d.lease
    BY <2>1, StageFacts DEF RecoveryRequired
  <2> QED
    BY <2>2, <2>3 DEF Frees
<1>2. b.w \in Locals
  BY BeginFits DEF Starts
<1>3. \/ b = Refusal(d)
      \/ \E place \in Openings : b = Started(op, d, place) \/ b = Started(op, e, place)
  BY DEF Begin, Openings
<1>4. Asleep \in Locals /\ Asleep.pc \in Loose
  BY AsleepHolds
<1>5. \A f, place : Started(op, f, place).d = f /\ Started(op, f, place).w.pc = place
  BY <1>4 DEF Started, Locals
<1>6. Refusal(d).d = r /\ Refusal(d).w = Asleep
  BY DEF Refusal
<1>7. SameJob(d, d) /\ Openings \subseteq Loose
  BY JobIsTwin DEF Openings, Loose
<1> HIDE DEF e, r, b
<1>8. CASE b = Refusal(d)
  BY <1>1, <1>2, <1>4, <1>6, <1>8 DEF b
<1>9. CASE \E place \in Openings : b = Started(op, d, place) \/ b = Started(op, e, place)
  <2>1. PICK place \in Openings, f \in {d, e} : b = Started(op, f, place)
    BY <1>9
  <2>2. b.d = f /\ b.w.pc \in Loose
    BY <1>5, <1>7, <2>1
  <2> QED
    BY <1>1, <1>2, <1>7, <2>2 DEF b
<1> QED
  BY <1>3, <1>8, <1>9

\* The same of a command, which reconciles a pending approval first.
LEMMA WorkingTells ==
    ASSUME NEW d \in Durables, Records(d), NEW op \in WorkOps
    PROVE  LET b == Working(op, d)
           IN /\ SameJob(d, b.d) /\ b.d.lease = d.lease /\ (Frees(b.d.mode) => Frees(d.mode))
              /\ b.w \in Locals /\ b.w.pc \in Loose
<1>1. CASE d.mode.intent
  <2>1. Working(op, d) = Started(op, d, "w_reconcile")
    BY <1>1 DEF Working
  <2>2. Asleep \in Locals /\ Working(op, d).w \in Locals
    BY AsleepHolds, WorkingFits DEF Starts
  <2>3. Started(op, d, "w_reconcile").d = d /\ Started(op, d, "w_reconcile").w.pc = "w_reconcile"
    BY <2>2 DEF Started, Locals
  <2>4. SameJob(d, d)
    BY JobIsTwin
  <2> QED
    BY <2>1, <2>2, <2>3, <2>4 DEF Loose
<1>2. CASE ~d.mode.intent
  <2>1. Working(op, d) = Begin(op, d)
    BY <1>2 DEF Working
  <2> QED
    BY <1>2, <2>1, BeginTells
<1> QED
  BY <1>1, <1>2

\* A command, wherever the poll is.
LEMMA CommandHolds ==
    ASSUME UpInv, WholeInv, NEW op \in {"plan", "approve", "resume"}, Command(op)
    PROVE  Outcome
<1> DEFINE b == Working(op, durable)
           d == b.d
           l == b.w
<1>1. Turn(d, [co EXCEPT !["work"] = l], {"work"}) /\ world' = world /\ proc' = proc
  BY DEF Command
<1>2. SameJob(durable, d) /\ d.lease = durable.lease /\ (Frees(d.mode) => Frees(durable.mode)) /\ l \in Locals /\ l.pc \in Loose
  BY WorkTypes, WorkingTells DEF UpInv, UpBound, WorkOps
<1> HIDE DEF d, l
<1> QED
  BY <1>1, <1>2, LooseGoes DEF Leased

\* An approval that is settled keeps the job and the lease.
LEMMA SettledTells ==
    ASSUME UpInv
    PROVE  LET s == Settled(durable)
           IN s \in Durables /\ SameJob(durable, s) /\ s.lease = durable.lease /\ s.mode.stage = durable.mode.stage
<1>1. durable \in Durables
  BY WorkTypes
<1>2. Settled(durable).lease = durable.lease
  BY <1>1 DEF Settled, Durables
<1> QED
  BY <1>1, <1>2, SettledFacts, ModeChanges

\* The work reconciles the approval, and begins.
LEMMA WorkReconcileHolds ==
    ASSUME UpInv, WholeInv, WorkReconcile
    PROVE  Outcome
<1> DEFINE s == Settled(durable)
           b == Begin(co["work"].op, s)
           d == b.d
           l == b.w
<1>1. co["work"].pc \in Loose
  BY DEF WorkReconcile, Served, Loose
<1>2. CASE WorkFails(durable)
  BY <1>1, <1>2, WorkTypes, JobIsTwin, LooseFails
<1>3. CASE Settles(durable) /\ Step(d, l)
  <2>1. durable \in Durables /\ co["work"].op \in WorkOps
    BY WorkTypes DEF Locals, WorkOps
  <2>2. s \in Durables /\ SameJob(durable, s) /\ s.lease = durable.lease /\ s.mode.stage = durable.mode.stage
    BY SettledTells
  <2>3. Records(s)
    <3>1. s.job = durable.job /\ (s.mode.bound <=> durable.job.phase # "none")
      BY <2>1, SettledFacts
    <3> HIDE DEF s
    <3> QED
      BY <3>1 DEF Records, Published, Named
  <2> HIDE DEF s
  <2>4. SameJob(s, d) /\ d.lease = s.lease /\ (Frees(d.mode) => Frees(s.mode)) /\ l \in Locals /\ l.pc \in Loose
    BY <2>1, <2>2, <2>3, BeginTells
  <2>5. Turn(d, [co EXCEPT !["work"] = l], {"work"}) /\ world' = world /\ proc' = proc
    BY <1>3 DEF Step
  <2> HIDE DEF d, l
  <2>6. SameJob(durable, d) /\ Leased(d) /\ (Frees(d.mode) => Frees(durable.mode))
    BY <2>2, <2>4 DEF SameJob, Twin, Leased, Frees
  <2> QED
    BY <2>4, <2>5, <2>6, LooseGoes
<1> QED
  BY <1>2, <1>3 DEF WorkReconcile

\* The approval is read back.
LEMMA RecoverHolds ==
    ASSUME UpInv, WholeInv, ApproveRecover
    PROVE  Outcome
<1>1. co["work"].pc \in Loose /\ (WorkFails(durable) \/ WorkFails(Settled(durable)))
  BY DEF ApproveRecover, Served, Loose
<1> QED
  BY <1>1, WorkTypes, JobIsTwin, SettledTells, LooseFails

\* Every step of the work leaves the world whole.
LEMMA WorkStepsHold ==
    ASSUME UpInv, WholeInv, WorkSteps
    PROVE  Outcome
BY PlanHolds, ApproveReadHolds, ApproveSavedHolds, ApproveUnacknowledgedHolds, ApproveSnapshotHolds, InstallingHolds,
   RetainPreviousHolds, PromoteCandidateHolds, RegisterCandidateHolds, PromotedHolds, ReapproveReadHolds,
   ReapproveSnapshotHolds, ReapprovedHolds, ResumeHolds, RunnerReadHolds, RunnerOwnsHolds, RunnerStartsHolds,
   LoopStepsHold, LoopReadHolds, SourceReadHolds, SendHolds, SentHolds, UncertainHolds, VerifiedHolds, CompletedHolds,
   ExecutedHolds, FailHolds, WorkRejectedHolds, WorkReconcileHolds, RecoverHolds
   DEF WorkSteps


-----------------------------------------------------------------------------
(* The upgrade: a whole world, and the poll *)

Histories == [commands : Nat, crashes : Nat, cuts : Nat, stale : BOOLEAN]

\* The work keeps what it holds, under the lease it has or one taken for its process.
LEMMA WorkStays ==
    ASSUME UpInv, WholeInv, NEW d, SameJob(durable, d), Leased(d)
    PROVE  /\ Sound(d, world) /\ WorkHolds(d, world.applied, co["work"], proc.pid)
           /\ CancelHolds(d, world.applied, co["cancel"]) /\ Follows(durable, d)
           /\ (Closed(durable, world, co["work"]) => Closed(d, world, co["work"]))
           /\ Releases(durable, world, co["work"], co["poll"], proc.pid)
<1>1. /\ Sound(durable, world) /\ WorkHolds(durable, world.applied, co["work"], proc.pid)
      /\ CancelHolds(durable, world.applied, co["cancel"]) /\ Releases(durable, world, co["work"], co["poll"], proc.pid)
  BY DEF WholeInv, Whole
<1>2. /\ Sound(d, world) /\ CancelHolds(d, world.applied, co["cancel"]) /\ Follows(durable, d)
      /\ (durable.job.phase \in Ended <=> d.job.phase \in Ended)
      /\ Placed(co["work"].pc, d, world.applied, co["work"].job.meta)
      /\ (Closed(durable, world, co["work"]) => Closed(d, world, co["work"]))
  BY <1>1, SameJobFacts DEF WorkHolds
<1>3. Claimed(durable, proc.pid) => Claimed(d, proc.pid)
  BY DEF Leased, Claimed
<1>4. WorkHolds(d, world.applied, co["work"], proc.pid)
  BY <1>1, <1>2, <1>3 DEF WorkHolds
<1> QED
  BY <1>1, <1>2, <1>4

\* A step of the poll that keeps the job.
LEMMA PollTurn ==
    ASSUME UpInv, WholeInv, NEW d, SameJob(durable, d), Leased(d),
           NEW p \in Locals, Releases(d, world, co["work"], p, proc.pid),
           PollTo(d, p), world' = world, proc'.pid = proc.pid
    PROVE  Outcome
<1> DEFINE cs == [co EXCEPT !["poll"] = p]
<1>1. cs \in [Coroutines -> Locals] /\ cs["work"] = co["work"] /\ cs["poll"] = p /\ cs["cancel"] = co["cancel"]
  BY DEF UpInv, UpTypes, Coroutines
<1>2. Turn(d, cs, {"poll"})
  BY DEF PollTo
<1> HIDE DEF cs
<1>3. Whole(d, world', cs["work"], cs["poll"], cs["cancel"], proc'.pid) /\ Follows(durable, d)
  BY <1>1, WorkStays DEF Whole
<1> QED
  BY <1>1, <1>2, <1>3, WholeTurn

\* One after which the poll holds no mode that it could write back.
LEMMA PollPasses ==
    ASSUME UpInv, WholeInv, NEW d, SameJob(durable, d), Leased(d), Frees(d.mode) => Frees(durable.mode),
           NEW p \in Locals, p.pc # "p_lease",
           PollTo(d, p), world' = world, proc'.pid = proc.pid
    PROVE  Outcome
<1>1. Releases(durable, world, co["work"], co["poll"], proc.pid) /\ d.torn = durable.torn
  BY WorkStays DEF SameJob
<1>2. Closed(durable, world, co["work"]) => Closed(d, world, co["work"])
  BY WorkStays
<1>3. Releases(d, world, co["work"], p, proc.pid)
  BY <1>1, <1>2 DEF Releases
<1> QED
  BY <1>3, PollTurn

\* The poll ends, and nothing else changes.
LEMMA PollFailsHolds ==
    ASSUME UpInv, WholeInv, PollFails(durable)
    PROVE  Outcome
<1> DEFINE d == RecoveryRequired(durable)
<1>1. PollTo(d, Asleep) /\ world' = world /\ proc' = proc
  BY DEF PollFails
<1>2. SameJob(durable, d) /\ d.mode.stage = "recovery-required" /\ d.lease = durable.lease
  BY WorkTypes, ModeChanges, RecoveryFacts DEF RecoveryRequired, Stages
<1> HIDE DEF d
<1>3. ~Frees(d.mode) /\ Leased(d)
  BY <1>2 DEF Frees, Leased
<1> QED
  BY <1>1, <1>2, <1>3, AsleepHolds, PollPasses

\* The poll goes on from the records as they are.
LEMMA PollOnward ==
    ASSUME UpInv, WholeInv, NEW p \in Locals, p.pc # "p_lease", PollTo(durable, p), world' = world, proc'.pid = proc.pid
    PROVE  Outcome
<1>1. SameJob(durable, durable) /\ Leased(durable)
  BY JobIsTwin DEF Leased
<1> QED
  BY <1>1, PollPasses

\* The poll begins.
LEMMA PollHolding ==
    ASSUME UpInv, WholeInv, Poll
    PROVE  Outcome
<1> DEFINE place == IF durable.mode.intent THEN "p_reconcile" ELSE "p_connect"
           l == [Idle(durable.mode) EXCEPT !.pc = place]
<1>1. PollTo(durable, l) /\ world' = world /\ proc' = proc
  BY DEF Poll
<1>2. place \in Pcs /\ durable.mode \in Modes /\ place # "p_lease"
  BY WorkTypes DEF Pcs, PollPcs
<1> HIDE DEF place
<1>3. l \in Locals /\ l.pc # "p_lease"
  BY <1>2, IdleFacts
<1> HIDE DEF l
<1> QED
  BY <1>1, <1>3, PollOnward

\* reconcile, by the poll.
LEMMA PollReconcileHolds ==
    ASSUME UpInv, WholeInv, PollReconcile
    PROVE  Outcome
<1> DEFINE d == Settled(durable)
           l == [Asleep EXCEPT !.pc = "p_connect"]
<1>1. PollFails(durable) \/ (PollTo(d, l) /\ UNCHANGED <<world, proc, events>>)
  BY DEF PollReconcile
<1>2. SameJob(durable, d) /\ d.lease = durable.lease /\ d.mode.stage = durable.mode.stage
  BY SettledTells
<1>3. l \in Locals /\ l.pc = "p_connect"
  BY AsleepFacts DEF Pcs, PollPcs
<1> HIDE DEF d, l
<1>4. (Frees(d.mode) => Frees(durable.mode)) /\ Leased(d)
  BY <1>2 DEF Frees, Leased
<1> QED
  BY <1>1, <1>2, <1>3, <1>4, PollFailsHolds, PollPasses

\* The poll connects the process, for the first time or again.
LEMMA PollConnectHolds ==
    ASSUME UpInv, WholeInv, PollConnect
    PROVE  Outcome
<1> DEFINE l == [Asleep EXCEPT !.pc = "p_seed"]
<1>1. CASE PollFails(durable)
  BY <1>1, PollFailsHolds
<1>2. CASE /\ PollTo(durable, l)
           /\ proc' = IF proc.connected THEN proc
                      ELSE [proc EXCEPT !.connected = TRUE, !.authority = TRUE, !.polled = FALSE]
           /\ UNCHANGED <<world, events>>
  <2>1. l \in Locals /\ l.pc = "p_seed"
    BY AsleepFacts DEF Pcs, PollPcs
  <2>2. proc'.pid = proc.pid
    BY <1>2, WorkTypes DEF Processes
  <2> QED
    BY <1>2, <2>1, <2>2, PollOnward
<1> QED
  BY <1>1, <1>2 DEF PollConnect

\* The poll reads the mode.
LEMMA PollSeedHolds ==
    ASSUME UpInv, WholeInv, PollSeed
    PROVE  Outcome
<1> DEFINE l == [Idle(durable.mode) EXCEPT !.pc = "p_lease"]
           w == [co["work"] EXCEPT !.fresh = FALSE]
           cs == [co EXCEPT !["poll"] = l, !["work"].fresh = FALSE]
<1>1. CASE PollFails(durable)
  BY <1>1, PollFailsHolds
<1>2. CASE /\ Turn(durable, cs, {"poll"})
           /\ proc' = [proc EXCEPT !.configured = TRUE]
           /\ UNCHANGED <<world, events>>
  <2>1. l \in Locals /\ l.pc = "p_lease" /\ l.mode = durable.mode
    BY WorkTypes, IdleFacts DEF Pcs, PollPcs
  <2>2. w \in Locals /\ Same(w, co["work"])
    BY WorkTypes DEF Locals, Same, Alike
  <2>3. cs = [co EXCEPT !["poll"] = l, !["work"] = w]
    BY DEF UpInv, UpTypes, Coroutines
  <2> HIDE DEF l, w, cs
  <2>4. cs \in [Coroutines -> Locals] /\ cs["poll"] = l /\ cs["work"] = w /\ cs["cancel"] = co["cancel"]
    <3>1. co \in [Coroutines -> Locals]
      BY DEF UpInv, UpTypes
    <3> QED
      BY <2>1, <2>2, <2>3, <3>1 DEF Coroutines
  <2>5. SameJob(durable, durable) /\ Leased(durable)
    BY JobIsTwin DEF Leased
  <2>6. Releases(durable, world, co["work"], l, proc.pid)
    BY <2>1, <2>5, WorkStays DEF Releases
  <2>7. Whole(durable, world, co["work"], l, co["cancel"], proc.pid) /\ Follows(durable, durable)
    BY <2>5, <2>6, WorkStays DEF Whole
  <2>8. Same(l, l) /\ Same(co["cancel"], co["cancel"])
    BY DEF Same, Alike
  <2>9. Whole(durable, world, w, l, co["cancel"], proc.pid)
    BY <2>2, <2>7, <2>8, SeenAlike
  <2>10. proc'.pid = proc.pid /\ world' = world
    BY <1>2, WorkTypes DEF Processes
  <2> QED
    BY <1>2, <2>4, <2>7, <2>9, <2>10, WholeTurn
<1> QED
  BY <1>1, <1>2 DEF PollSeed

\* The mode is saved as it was read before the takeover: what it frees was whole then and, no lease taken since, is now.
LEMMA PollLeaseHolds ==
    ASSUME UpInv, WholeInv, PollLease
    PROVE  Outcome
<1>1. co["poll"].pc = "p_lease" /\ ~durable.torn
  BY DEF PollLease, Served, Refuses
<1> DEFINE a == TakeLease(durable)
           m == [Pm EXCEPT !.token = a.issued]
           e == [a EXCEPT !.mode = m]
           place(mode) == IF mode.bound THEN "p_job" ELSE "p_kick"
           l(mode) == [Idle(mode) EXCEPT !.pc = place(mode)]
<1>2. \/ PollFails(durable)
      \/ PollTo(durable, l(Pm)) /\ UNCHANGED <<world, proc, events>>
      \/ Acquirable(durable) /\ PollTo(e, l(m)) /\ UNCHANGED <<world, proc, events>>
  BY DEF PollLease
<1>3. Pm \in Modes /\ Pm = co["poll"].mode
  BY WorkTypes DEF Pm
<1>4. a \in Durables /\ a.issued \in Nat /\ SameJob(durable, a) /\ Claimed(a, proc.pid)
  <2>1. durable \in Durables /\ proc \in Processes
    BY WorkTypes
  <2>2. Claimed(a, proc.pid)
    BY <2>1 DEF TakeLease, Durables, Claimed
  <2> QED
    BY <2>1, <2>2, LeaseFacts, ModeChanges
<1> HIDE DEF a
<1>5. m \in Modes /\ m.stage = Pm.stage
  BY <1>3, <1>4 DEF Modes
<1> HIDE DEF m
<1>6. SameJob(durable, e) /\ e.mode = m /\ Claimed(e, proc.pid)
  BY <1>4 DEF Durables, SameJob, Twin, Claimed
<1> HIDE DEF e
<1>7. ASSUME NEW k \in Modes PROVE l(k) \in Locals /\ l(k).pc # "p_lease"
  <2>1. place(k) \in Pcs /\ place(k) # "p_lease"
    BY DEF Pcs, PollPcs
  <2> HIDE DEF place
  <2>2. l(k) \in Locals /\ l(k).pc = place(k)
    BY <2>1, IdleFacts
  <2> QED
    BY <2>1, <2>2
<1> HIDE DEF l
<1>8. CASE PollFails(durable)
  BY <1>8, PollFailsHolds
<1>9. CASE PollTo(durable, l(Pm)) /\ UNCHANGED <<world, proc, events>>
  BY <1>3, <1>7, <1>9, PollOnward
<1>10. CASE Acquirable(durable) /\ PollTo(e, l(m)) /\ UNCHANGED <<world, proc, events>>
  <2>1. ~Claimed(durable, proc.pid)
    BY <1>10 DEF Acquirable, Claimed
  <2>2. Leased(e) /\ ~e.torn
    BY <1>1, <1>6 DEF Leased, SameJob
  <2>3. Frees(e.mode) => Closed(e, world, co["work"])
    BY <1>1, <1>3, <1>5, <1>6, <2>1, <2>2, WorkStays DEF Frees, Releases
  <2>4. Releases(e, world, co["work"], l(m), proc.pid)
    BY <1>5, <1>7, <2>2, <2>3 DEF Releases
  <2> QED
    BY <1>5, <1>6, <1>7, <1>10, <2>2, <2>4, PollTurn
<1> QED
  BY <1>2, <1>8, <1>9, <1>10

\* The poll reads the job.
LEMMA PollJobHolds ==
    ASSUME UpInv, WholeInv, PollJob
    PROVE  Outcome
<1> DEFINE j == [ReadJob(durable) EXCEPT !.meta.token = Pm.token]
           l == [co["poll"] EXCEPT !.pc = "p_save", !.job = j]
<1>1. PollFails(durable) \/ (PollTo(durable, l) /\ UNCHANGED <<world, proc, events>>)
  BY DEF PollJob
<1>2. j \in Jobs
  <2>1. Pm.token \in Nat
    BY WorkTypes DEF Pm, Modes
  <2> QED
    BY <2>1, ReadFits
<1> HIDE DEF j
<1>3. l \in Locals /\ l.pc = "p_save"
  <2>1. "p_save" \in Pcs /\ co["poll"] \in Locals
    BY WorkTypes DEF Pcs, PollPcs
  <2> QED
    BY <1>2, <2>1, LocalFacts
<1> QED
  BY <1>1, <1>3, PollFailsHolds, PollOnward

\* The poll starts the work it finds interrupted.
LEMMA KickHolds ==
    ASSUME UpInv, WholeInv, NEW d \in Durables, Records(d), SameJob(durable, d), d.mode = durable.mode, d.lease = durable.lease,
           Kick(d)
    PROVE  Outcome
<1> DEFINE op == IF d.mode.bound THEN "resume" ELSE "plan"
           b == Working(op, d)
           kicks == ~proc.retried /\ d.mode.stage \in {"entering", "isolated", "planning", "executing"}
<1>1. proc'.pid = proc.pid /\ world' = world
  <2>1. proc' = [proc EXCEPT !.polled = proc.connected, !.retried = @ \/ kicks] /\ world' = world
    BY DEF Kick
  <2> HIDE DEF kicks
  <2> QED
    BY <2>1, WorkTypes DEF Processes
<1>2. CASE PollTo(d, Asleep)
  BY <1>1, <1>2, AsleepHolds, PollPasses DEF Leased
<1>3. CASE At("work", "idle") /\ Turn(b.d, [co EXCEPT !["poll"] = Asleep, !["work"] = b.w], {"poll", "work"})
  <2> DEFINE e == b.d
             l == b.w
             cs == [co EXCEPT !["poll"] = Asleep, !["work"] = l]
  <2>1. op \in WorkOps
    BY DEF WorkOps
  <2> HIDE DEF op
  <2>2. SameJob(d, e) /\ e.lease = d.lease /\ (Frees(e.mode) => Frees(d.mode)) /\ l \in Locals /\ l.pc \in Loose
    BY <2>1, WorkingTells
  <2>3. Turn(e, cs, {"poll", "work"})
    BY <1>3
  <2> HIDE DEF b, e, l
  <2>4. cs \in [Coroutines -> Locals] /\ cs["work"] = l /\ cs["poll"] = Asleep /\ cs["cancel"] = co["cancel"]
    BY <2>2, AsleepHolds DEF UpInv, UpTypes, Coroutines
  <2> HIDE DEF cs
  <2>5. SameJob(durable, e) /\ Leased(e) /\ e.torn = durable.torn
    BY <2>2 DEF SameJob, Twin, Leased
  <2>6. Closed(durable, world, co["work"]) => Closed(e, world, l)
    <3>1. Closed(durable, world, co["work"]) => Closed(e, world, co["work"])
      BY <2>5, SameJobFacts
    <3> QED
      BY <2>2, <3>1 DEF Closed
  <2>7. Releases(e, world, l, Asleep, proc.pid)
    BY <2>2, <2>5, <2>6, AsleepHolds, WorkStays DEF Releases
  <2>8. Whole(e, world, l, Asleep, co["cancel"], proc.pid) /\ Follows(durable, e)
    BY <2>2, <2>5, <2>7, WorkStays, LooseHolds DEF Whole
  <2> QED
    BY <1>1, <2>3, <2>4, <2>8, WholeTurn
<1> QED
  BY <1>2, <1>3 DEF Kick

\* A copy that is the job of the disk but for its token is saved without loss.
LEMMA LatestSaves ==
    ASSUME UpInv, NEW j \in Jobs, [j EXCEPT !.meta.token = durable.job.token] = ReadJob(durable)
    PROVE  SameJob(durable, Save(durable, j))
<1> DEFINE d == Save(durable, j)
           t == durable.job.token
           k == [j EXCEPT !.meta.token = t]
<1>1. durable \in Durables /\ j.meta \in Metas /\ t \in Nat
  BY WorkTypes DEF Jobs, Metas
<1>2. k.meta = durable.job /\ k.out = durable.receipts[durable.job.approval]
  BY DEF ReadJob
<1>3. /\ k.meta.transition = j.meta.transition /\ k.meta.possibleWrite = j.meta.possibleWrite
      /\ k.meta.plan = j.meta.plan /\ k.meta.phase = j.meta.phase
      /\ k.meta.approval = j.meta.approval /\ k.out = j.out
  BY <1>1, MetaChanges
<1> HIDE DEF k
<1>4. Twin(durable.job, j.meta)
  BY <1>2, <1>3 DEF Twin
<1>5. j.out = durable.receipts[j.meta.approval]
  BY <1>2, <1>3
<1>6. d.job = j.meta /\ d.target = durable.target /\ d.registry = durable.registry /\ d.torn = durable.torn
      /\ d.receipts = durable.receipts
  BY <1>1, <1>5, SaveFacts, SaveDeclares
<1> QED
  BY <1>4, <1>6 DEF SameJob

\* The poll saves the job, unless it puts an older one back, and starts the work.
LEMMA PollSaveHolds ==
    ASSUME UpInv, WholeInv, events \in Histories, PollSave \/ PollUnbound, ~events'.stale
    PROVE  Outcome
<1>1. CASE PollSave
  <2> DEFINE j == co["poll"].job
             d == Save(durable, j)
  <2>1. co["poll"].pc = "p_save" /\ Kick(d)
    BY <1>1 DEF PollSave, Served
  <2>2. ~Older("poll")
    <3>1. events' = [events EXCEPT !.stale = @ \/ Older("poll")]
      BY <2>1 DEF Kick
    <3> QED
      BY <3>1 DEF Histories
  <2>3. SameJob(durable, d)
    BY <2>1, <2>2, LatestSaves, WorkTypes DEF Older
  <2>4. Records(d) /\ d \in Durables /\ d.mode = durable.mode /\ d.lease = durable.lease
    <3>1. Kept(d) /\ d.mode = durable.mode /\ d.lease = durable.lease
      BY <2>1, Saving, WorkTypes DEF SavePcs
    <3> QED
      BY <3>1 DEF Kept
  <2> HIDE DEF d
  <2> QED
    BY <2>1, <2>3, <2>4, KickHolds
<1>2. CASE PollUnbound
  <2>1. Kick(durable) /\ SameJob(durable, durable) /\ durable \in Durables /\ Records(durable)
    BY <1>2, WorkTypes, JobIsTwin DEF PollUnbound, UpInv, UpBound
  <2> QED
    BY <2>1, KickHolds
<1> QED
  BY <1>1, <1>2

\* Every step of the poll leaves the world whole.
LEMMA PollStepsHold ==
    ASSUME UpInv, WholeInv, events \in Histories, PollSteps, ~events'.stale
    PROVE  Outcome
<1>1. PollRejected => PollFails(durable)
  BY DEF PollRejected
<1> QED
  BY <1>1, PollHolding, PollReconcileHolds, PollConnectHolds, PollSeedHolds, PollLeaseHolds, PollJobHolds, PollSaveHolds,
     PollFailsHolds DEF PollSteps

-----------------------------------------------------------------------------
(* The upgrade: a whole world, and its cancellation *)

\* A step of the cancellation, with the work at rest.
LEMMA CancelTurn ==
    ASSUME UpInv, WholeInv, co["work"].pc = "idle", NEW d, Sound(d, world), Follows(durable, d),
           NEW l \in Locals, CancelHolds(d, world.applied, l), Releases(d, world, co["work"], co["poll"], proc.pid),
           Turn(d, [co EXCEPT !["cancel"] = l], {"cancel"}), proc'.pid = proc.pid, world' = world
    PROVE  Outcome
<1> DEFINE cs == [co EXCEPT !["cancel"] = l]
<1>1. cs \in [Coroutines -> Locals] /\ cs["work"] = co["work"] /\ cs["poll"] = co["poll"] /\ cs["cancel"] = l
  BY DEF UpInv, UpTypes, Coroutines
<1>2. Turn(d, cs, {"cancel"})
  OBVIOUS
<1> HIDE DEF cs
<1>3. WorkHolds(d, world.applied, co["work"], proc.pid)
  BY LooseHolds DEF Loose
<1>4. Whole(d, world', cs["work"], cs["poll"], cs["cancel"], proc'.pid)
  BY <1>1, <1>3 DEF Whole
<1> QED
  BY <1>1, <1>2, <1>4, WholeTurn

\* One that leaves the job as it is.
LEMMA CancelKeeps ==
    ASSUME UpInv, WholeInv, co["work"].pc = "idle", NEW d, SameJob(durable, d), Leased(d), Frees(d.mode) => Frees(durable.mode),
           NEW l \in Locals, CancelHolds(d, world.applied, l),
           Turn(d, [co EXCEPT !["cancel"] = l], {"cancel"}), proc'.pid = proc.pid, world' = world
    PROVE  Outcome
<1>1. Sound(d, world) /\ Follows(durable, d) /\ Releases(durable, world, co["work"], co["poll"], proc.pid)
      /\ (Closed(durable, world, co["work"]) => Closed(d, world, co["work"])) /\ d.torn = durable.torn
  BY WorkStays DEF SameJob
<1>2. Claimed(durable, proc.pid) => Claimed(d, proc.pid)
  BY DEF Leased, Claimed
<1>3. Releases(d, world, co["work"], co["poll"], proc.pid)
  BY <1>1, <1>2 DEF Releases
<1> QED
  BY <1>1, <1>3, CancelTurn

\* One of an open job, under the lease.
LEMMA CancelOpen ==
    ASSUME UpInv, WholeInv, co["work"].pc = "idle", durable.job.phase \notin Ended,
           NEW d, Sound(d, world), Grows(durable, d), d.mode = durable.mode \/ ~Frees(d.mode), Leased(d),
           NEW l \in Locals, CancelHolds(d, world.applied, l),
           Turn(d, [co EXCEPT !["cancel"] = l], {"cancel"}), proc'.pid = proc.pid, world' = world
    PROVE  Outcome
<1>1. ~Closed(durable, world, co["work"])
  BY DEF Closed
<1>2. ~Frees(durable.mode) /\ (co["poll"].pc = "p_lease" /\ Frees(co["poll"].mode) => Claimed(durable, proc.pid))
  BY <1>1 DEF WholeInv, Whole, Releases
<1>3. ~Frees(d.mode) /\ (co["poll"].pc = "p_lease" /\ Frees(co["poll"].mode) => Claimed(d, proc.pid))
  BY <1>2 DEF Leased, Claimed
<1>4. Releases(d, world, co["work"], co["poll"], proc.pid)
  BY <1>3 DEF Releases
<1>5. Follows(durable, d)
  BY <1>2, <1>3 DEF Follows, Grows, Declared
<1> QED
  BY <1>4, <1>5, CancelTurn

\* One that leaves a job that has ended and a whole world.
LEMMA CancelCloses ==
    ASSUME UpInv, WholeInv, co["work"].pc = "idle", NEW d, Sound(d, world), Follows(durable, d),
           WholeWorld(d, world), d.job.phase \in Ended, ~d.torn,
           Turn(d, [co EXCEPT !["cancel"] = Asleep], {"cancel"}), proc'.pid = proc.pid, world' = world
    PROVE  Outcome
<1>1. Releases(d, world, co["work"], co["poll"], proc.pid)
  BY DEF Releases, Closed, Loose
<1> QED
  BY <1>1, AsleepHolds, CancelTurn

\* What the cancellation knows once it has read the mode.
LEMMA CancelKnows ==
    ASSUME UpInv, WholeInv, co["cancel"].pc \notin {"idle", "c_wait"}
    PROVE  /\ co["work"].pc = "idle" /\ CancelHolds(durable, world.applied, co["cancel"])
           /\ SameJob(durable, durable) /\ Leased(durable) /\ Sequel(durable) /\ durable \in Durables
           /\ co["cancel"].pc \in CancelSaves => Agrees(durable, world.applied, Cj) /\ Cj \in Jobs
<1>1. co["work"].pc = "idle"
  BY DEF UpInv, UpCancel
<1>2. CancelHolds(durable, world.applied, co["cancel"])
  BY DEF WholeInv, Whole
<1> QED
  BY <1>1, <1>2, WorkTypes, JobIsTwin, SequelFacts DEF CancelHolds, Cj, Leased

\* The cancellation fails.
LEMMA CancelFailsHolds ==
    ASSUME UpInv, WholeInv, co["work"].pc = "idle", NEW d \in Durables, SameJob(durable, d), d.lease = durable.lease,
           CancelFails(d)
    PROVE  Outcome
<1> DEFINE e == RecoveryRequired(d)
<1>1. Turn(e, [co EXCEPT !["cancel"] = Asleep], {"cancel"}) /\ world' = world /\ proc' = proc
  BY DEF CancelFails, CancelTo
<1>2. SameJob(d, e) /\ e.mode.stage = "recovery-required" /\ e.lease = d.lease
  BY ModeChanges, RecoveryFacts DEF RecoveryRequired, Stages
<1> HIDE DEF e
<1>3. SameJob(durable, e) /\ ~Frees(e.mode) /\ Leased(e)
  BY <1>2 DEF SameJob, Twin, Frees, Leased
<1> QED
  BY <1>1, <1>3, AsleepHolds, CancelKeeps

\* The end of a cancellation: the mode it read is written back in another stage.
LEMMA StoppedTells ==
    ASSUME UpInv, NEW d \in Durables, NEW possibleWrite \in BOOLEAN, Stopped(d, possibleWrite)
    PROVE  \E e \in Durables : /\ SameJob(d, e) /\ e.lease = d.lease /\ (Frees(e.mode) => ~possibleWrite)
                               /\ Turn(e, [co EXCEPT !["cancel"] = Asleep], {"cancel"}) /\ world' = world /\ proc'.pid = proc.pid
<1> DEFINE s == IF possibleWrite THEN "recovery-required" ELSE "activating"
           e == StageOf(d, Cm, s)
<1>1. Cm \in Modes /\ s \in Stages /\ (s # "recovery-required" => ~possibleWrite)
  BY WorkTypes DEF Cm, Stages
<1>2. Turn(e, [co EXCEPT !["cancel"] = Asleep], {"cancel"}) /\ world' = world
      /\ (proc' = proc \/ proc' = [proc EXCEPT !.restarting = TRUE])
  BY DEF Stopped, CancelTo
<1>3. proc'.pid = proc.pid
  BY <1>2, WorkTypes DEF Processes
<1> HIDE DEF s
<1>4. SameJob(d, e) /\ e.mode.stage = s /\ e.lease = d.lease /\ e \in Durables
  BY <1>1, ModeChanges, StageOfFacts
<1> HIDE DEF e
<1>5. Frees(e.mode) => ~possibleWrite
  BY <1>1, <1>4 DEF Frees
<1> QED
  BY <1>2, <1>3, <1>4, <1>5

\* The cancellation reads the mode.
LEMMA CancelReadsHolds ==
    ASSUME UpInv, WholeInv, co["work"].pc = "idle", NEW d \in {durable, Settled(durable)}, ~d.mode.intent, CancelReads(d)
    PROVE  Outcome
<1> DEFINE place == IF d.mode.bound THEN "c_job" ELSE "c_preview"
           l == [Idle(d.mode) EXCEPT !.pc = place]
<1>1. d \in Durables /\ SameJob(durable, d) /\ d.lease = durable.lease /\ d.mode.stage = durable.mode.stage
  BY WorkTypes, SettledTells, JobIsTwin
<1>2. (Frees(d.mode) => Frees(durable.mode)) /\ Leased(d)
  BY <1>1 DEF Frees, Leased
<1>3. CASE CancelFails(d)
  BY <1>1, <1>3, CancelFailsHolds
<1>4. CASE CancelTo(d, l)
  <2>1. place \in Pcs /\ place \in {"c_job", "c_preview"} /\ (place = "c_preview" => ~Named(d.mode)) /\ d.mode \in Modes
    BY <1>1 DEF Pcs, CancelPcs, Undoing, Durables, Named
  <2> HIDE DEF place
  <2>2. l \in Locals /\ l.pc = place /\ l.mode = d.mode
    BY <2>1, IdleFacts
  <2>3. Turn(d, [co EXCEPT !["cancel"] = l], {"cancel"}) /\ proc' = proc /\ world' = world
    BY <1>4 DEF CancelTo
  <2> HIDE DEF l
  <2>4. CancelHolds(d, world.applied, l)
    BY <2>1, <2>2 DEF CancelHolds, CancelSaves
  <2> QED
    BY <1>1, <1>2, <2>2, <2>3, <2>4, CancelKeeps
<1> QED
  BY <1>3, <1>4 DEF CancelReads

\* The work has ended: the cancellation reconciles, and reads.
LEMMA CancelBeginsHolds ==
    ASSUME UpInv, WholeInv, CancelWaits \/ CancelReconcile
    PROVE  Outcome
<1>1. co["work"].pc = "idle"
  BY DEF CancelWaits, CancelReconcile, At, Served, UpInv, UpCancel
<1>2. SameJob(durable, durable) /\ Leased(durable) /\ durable \in Durables /\ ~Settled(durable).mode.intent
  BY WorkTypes, JobIsTwin, SettledFacts DEF Leased
<1> DEFINE l == [Asleep EXCEPT !.pc = "c_reconcile"]
<1>3. \/ ~durable.mode.intent /\ CancelReads(durable)
      \/ CancelReads(Settled(durable)) \/ CancelFails(durable)
      \/ CancelTo(durable, l)
  BY DEF CancelWaits, CancelReconcile, CancelBegins
<1>4. CASE CancelTo(durable, l)
  <2>1. l \in Locals /\ l.pc = "c_reconcile"
    BY AsleepFacts DEF Pcs, CancelPcs
  <2>2. Turn(durable, [co EXCEPT !["cancel"] = l], {"cancel"}) /\ proc' = proc /\ world' = world
    BY <1>4 DEF CancelTo
  <2> HIDE DEF l
  <2>3. CancelHolds(durable, world.applied, l)
    BY <2>1 DEF CancelHolds, CancelSaves
  <2> QED
    BY <1>1, <1>2, <2>1, <2>2, <2>3, CancelKeeps
<1> HIDE DEF l
<1>5. CASE CancelFails(durable)
  BY <1>1, <1>2, <1>5, CancelFailsHolds
<1>6. CASE ~durable.mode.intent /\ CancelReads(durable)
  BY <1>1, <1>6, CancelReadsHolds
<1>7. CASE CancelReads(Settled(durable))
  BY <1>1, <1>2, <1>7, CancelReadsHolds
<1> QED
  BY <1>3, <1>4, <1>5, <1>6, <1>7

\* A world without a job is whole.
LEMMA CancelUnboundHolds ==
    ASSUME UpInv, WholeInv, CancelUnbound
    PROVE  Outcome
<1> DEFINE d == DropLease(durable)
<1>1. co["cancel"].pc = "c_preview" /\ ~durable.torn
  BY DEF CancelUnbound, Served, Refuses
<1>2. co["work"].pc = "idle" /\ CancelHolds(durable, world.applied, co["cancel"]) /\ ~Named(Cm)
      /\ SameJob(durable, durable) /\ durable \in Durables
  BY <1>1, CancelKnows DEF CancelHolds, Cm
<1>3. d \in Durables /\ SameJob(durable, d)
  BY WorkTypes, LeaseFacts, ModeChanges
<1>4. CASE CancelFails(durable)
  BY <1>2, <1>4, CancelFailsHolds
<1>5. CASE Stopped(d, FALSE)
  <2> HIDE DEF d
  <2>1. durable.job.phase = "none"
    BY <1>1, <1>2 DEF UpInv, UpCancel, Cm, Published
  <2>2. Sound(durable, world) /\ WholeWorld(durable, world)
    BY <2>1 DEF WholeInv, Whole, Sound, MetaFits, WholeWorld
  <2>3. PICK e \in Durables : /\ SameJob(d, e)
                              /\ Turn(e, [co EXCEPT !["cancel"] = Asleep], {"cancel"}) /\ world' = world /\ proc'.pid = proc.pid
    BY <1>3, <1>5, StoppedTells
  <2>4. SameJob(durable, e)
    BY <1>3, <2>3 DEF SameJob, Twin
  <2>5. Closed(durable, world, co["work"])
    BY <1>2, <2>1, <2>2 DEF Closed, Ended, Loose
  <2>6. Sound(e, world) /\ Closed(e, world, co["work"]) /\ Follows(durable, e) /\ ~e.torn
    BY <1>1, <2>2, <2>4, <2>5, SameJobFacts DEF SameJob
  <2> QED
    BY <1>2, <2>3, <2>6, CancelCloses DEF Closed
<1> QED
  BY <1>4, <1>5 DEF CancelUnbound

\* Another phase of a job that is not completed agrees as well.
LEMMA PhaseAgrees ==
    ASSUME NEW d, NEW done, NEW j \in Jobs, Agrees(d, done, j), d.job.phase # "completed",
           NEW p \in {"recovery-required", "cancelled"}, p = "cancelled" => ~d.job.possibleWrite /\ FilesAre(d, "old")
    PROVE  LET k == Phase(j, p)
           IN k \in Jobs /\ Agrees(d, done, k) /\ k.meta.phase = p /\ k.meta.possibleWrite = j.meta.possibleWrite
<1> DEFINE k == Phase(j, p)
<1>1. /\ k \in Jobs /\ k.meta.phase = p /\ k.meta.possibleWrite = j.meta.possibleWrite /\ k.meta.transition = j.meta.transition
      /\ k.meta.plan = j.meta.plan /\ k.meta.approval = j.meta.approval /\ k.out = j.out
  <2>1. p \in Phases
    BY DEF Phases
  <2> QED
    BY <2>1, JobFacts, MetaChanges
<1> HIDE DEF k
<1>2. MetaFits(k.meta, d, done)
  BY <1>1 DEF Agrees, MetaFits
<1>3. Agrees(d, done, k)
  BY <1>1, <1>2 DEF Agrees
<1> QED
  BY <1>1, <1>3 DEF k

\* A copy of the job with another token agrees with it.
LEMMA CopyAgrees ==
    ASSUME UpInv, WholeInv
    PROVE  LET j == ReadJob(durable)
           IN /\ j \in Jobs /\ j.meta = durable.job /\ Agrees(durable, world.applied, j)
              /\ \A t \in Nat : LET k == [j EXCEPT !.meta.token = t]
                                IN k \in Jobs /\ Agrees(durable, world.applied, k) /\ k.meta.phase = durable.job.phase
<1> DEFINE j == ReadJob(durable)
<1>1. j \in Jobs /\ j.meta = durable.job /\ MetaFits(j.meta, durable, world.applied) /\ j.out = durable.receipts[durable.job.approval]
  BY ReadFits DEF ReadJob
<1>2. ASSUME NEW t \in Nat
      PROVE  LET k == [j EXCEPT !.meta.token = t]
             IN k \in Jobs /\ Agrees(durable, world.applied, k) /\ k.meta.phase = durable.job.phase
  <2> DEFINE k == [j EXCEPT !.meta.token = t]
  <2>1. /\ k \in Jobs /\ MetaFits(k.meta, durable, world.applied) /\ k.meta.possibleWrite = durable.job.possibleWrite
        /\ k.meta.phase = durable.job.phase /\ k.meta.approval = durable.job.approval /\ k.out = j.out
    BY ReadFits
  <2> HIDE DEF j, k
  <2>2. Agrees(durable, world.applied, k)
    BY <1>1, <2>1 DEF Agrees
  <2> QED
    BY <2>1, <2>2 DEF k
<1> HIDE DEF j
<1>3. Agrees(durable, world.applied, j)
  BY <1>1 DEF Agrees
<1> QED
  BY <1>1, <1>2, <1>3 DEF j

\* A copy that agrees is as sound when it is saved, and no receipt changes.
LEMMA AgreeSaves ==
    ASSUME UpInv, WholeInv, NEW j \in Jobs, Agrees(durable, world.applied, j)
    PROVE  LET d == Save(durable, j)
           IN /\ Sequel(d) /\ d.lease = durable.lease /\ d.job = j.meta /\ d.torn = durable.torn
              /\ Agrees(d, world.applied, j) /\ SaveReceipts(durable, j) = durable
<1> DEFINE d == Save(durable, j)
<1>1. durable \in Durables /\ Sound(durable, world)
  BY WorkTypes DEF WholeInv, Whole
<1>2. d \in Durables /\ d.mode = durable.mode /\ d.job = j.meta /\ d.lease = durable.lease
  BY <1>1, SaveFacts
<1>3. \A o \in Ops : j.out[o] # "none" => durable.receipts[j.meta.approval][o] = j.out[o]
  BY DEF Agrees
<1>4. d.target = durable.target /\ d.registry = durable.registry /\ d.torn = durable.torn
      /\ SaveReceipts(durable, j) = durable /\ d.receipts = durable.receipts
  BY <1>1, <1>3, SaveDeclares
<1> HIDE DEF d
<1>5. MetaFits(j.meta, d, world.applied) /\ DeclaredIn(d) = DeclaredIn(durable)
  BY <1>4 DEF Agrees, MetaFits, FilesAre, DeclaredIn
<1>6. Sound(d, world) /\ Grows(durable, d)
  BY <1>1, <1>2, <1>5 DEF Sound, Grows, Agrees
<1>7. Agrees(d, world.applied, j)
  BY <1>2, <1>3, <1>4, <1>5 DEF Agrees
<1> QED
  BY <1>2, <1>4, <1>6, <1>7 DEF Sequel, Leased, d

\* The cancellation goes on with a copy of an open job.
LEMMA CancelGoesOn ==
    ASSUME UpInv, WholeInv, co["work"].pc = "idle", durable.job.phase \notin Ended, NEW d, Sequel(d), d.job.phase \notin Ended,
           NEW place \in {"c_lease", "c_fread", "c_fsave", "c_fence"}, NEW j \in Jobs,
           place # "c_fread" => Agrees(d, world.applied, j) /\ j.meta.phase \notin Ended, place = "c_fence" => ~j.meta.possibleWrite,
           CancelTo(d, [co["cancel"] EXCEPT !.pc = place, !.job = j])
    PROVE  Outcome
<1> DEFINE l == [co["cancel"] EXCEPT !.pc = place, !.job = j]
<1>1. Turn(d, [co EXCEPT !["cancel"] = l], {"cancel"}) /\ proc' = proc /\ world' = world
  BY DEF CancelTo
<1>2. place \in Pcs /\ co["cancel"] \in Locals
  BY WorkTypes DEF Pcs, CancelPcs, Undoing
<1>3. l \in Locals /\ l.pc = place /\ l.job = j
  <2> DEFINE k == co["cancel"]
  <2>1. k \in Locals
    BY <1>2
  <2> HIDE DEF k
  <2>2. /\ [k EXCEPT !.pc = place, !.job = j] \in Locals
        /\ [k EXCEPT !.pc = place, !.job = j].pc = place /\ [k EXCEPT !.pc = place, !.job = j].job = j
    BY <1>2, <2>1 DEF Locals
  <2> QED
    BY <2>2 DEF k
<1> HIDE DEF l
<1>4. CancelHolds(d, world.applied, l)
  BY <1>3 DEF CancelHolds, CancelSaves
<1> QED
  BY <1>1, <1>3, <1>4, CancelOpen DEF Sequel

\* Files go back only for a job that wrote nothing.
LEMMA CancelDecidesHolds ==
    ASSUME UpInv, WholeInv, co["work"].pc = "idle", durable.job.phase \notin Ended, NEW d, Sequel(d), d.job.phase \notin Ended,
           NEW j \in Jobs, Agrees(d, world.applied, j), CancelDecides(d, j)
    PROVE  Outcome
<1> DEFINE k == Phase(j, "recovery-required")
<1>1. k \in Jobs /\ Agrees(d, world.applied, k) /\ k.meta.possibleWrite = j.meta.possibleWrite /\ k.meta.phase \notin Ended
  BY PhaseAgrees DEF Ended
<1>2. \/ j.meta.possibleWrite /\ CancelTo(d, [co["cancel"] EXCEPT !.pc = "c_fread", !.job = j])
      \/ ~j.meta.possibleWrite /\ CancelTo(d, [co["cancel"] EXCEPT !.pc = "c_fence", !.job = k])
  BY DEF CancelDecides
<1> HIDE DEF k
<1> QED
  BY <1>1, <1>2, CancelGoesOn

\* A cancellation that stops leaves the job as the step leaves it.
LEMMA StopsHolds ==
    ASSUME UpInv, WholeInv, co["work"].pc = "idle", NEW d \in Durables, Stopped(d, TRUE),
           (SameJob(durable, d) /\ d.lease = durable.lease) \/ (durable.job.phase \notin Ended /\ Sequel(d))
    PROVE  Outcome
<1>1. PICK e \in Durables : /\ SameJob(d, e) /\ e.lease = d.lease /\ ~Frees(e.mode)
                            /\ Turn(e, [co EXCEPT !["cancel"] = Asleep], {"cancel"}) /\ world' = world /\ proc'.pid = proc.pid
  BY StoppedTells
<1>2. CASE SameJob(durable, d) /\ d.lease = durable.lease
  <2>1. SameJob(durable, e) /\ Leased(e)
    BY <1>1, <1>2 DEF SameJob, Twin, Leased
  <2> QED
    BY <1>1, <2>1, AsleepHolds, CancelKeeps
<1>3. CASE durable.job.phase \notin Ended /\ Sequel(d)
  <2>1. Sound(e, world) /\ Grows(durable, e) /\ Leased(e)
    BY <1>1, <1>3, SameJobFacts, SequelFacts DEF Sequel, Leased, Claimed
  <2> QED
    BY <1>1, <1>3, <2>1, AsleepHolds, CancelOpen
<1> QED
  BY <1>2, <1>3

\* The job is read: one that has ended is released as it ended.
LEMMA CancelJobHolds ==
    ASSUME UpInv, WholeInv, CancelJob
    PROVE  Outcome
<1> DEFINE j == ReadJob(durable)
           d == TakeLease(durable)
           k == [j EXCEPT !.meta.token = d.issued]
<1>1. co["cancel"].pc = "c_job" /\ ~durable.torn
  BY DEF CancelJob, Served, Refuses
<1>2. co["work"].pc = "idle" /\ SameJob(durable, durable) /\ Sequel(durable) /\ durable \in Durables
  BY <1>1, CancelKnows
<1>3. Sequel(d) /\ d.job = durable.job /\ d.issued \in Nat /\ SameJob(durable, d)
  BY WorkTypes, LeaseFacts, ModeChanges, SequelFacts
<1>4. j \in Jobs /\ j.meta = durable.job /\ Agrees(durable, world.applied, j)
  BY CopyAgrees
<1>5. durable.job.phase # "none"
  BY <1>1 DEF UpInv, UpCancel, Undoing, Published
<1>6. \/ durable.job.phase \in {"completed", "cancelled"} /\ Stopped(durable, durable.job.possibleWrite)
      \/ durable.job.phase \notin Ended /\ CancelDecides(durable, j)
      \/ durable.job.phase \notin Ended /\ CancelTo(d, [co["cancel"] EXCEPT !.pc = "c_lease", !.job = k])
      \/ CancelFails(durable)
  BY <1>4, <1>5 DEF CancelJob, Ended
<1>7. CASE CancelFails(durable)
  BY <1>2, <1>7, CancelFailsHolds
<1>8. CASE durable.job.phase \in {"completed", "cancelled"} /\ Stopped(durable, durable.job.possibleWrite)
  <2>1. durable.job.possibleWrite \in BOOLEAN
    BY WorkTypes DEF Metas
  <2>2. CASE durable.job.possibleWrite
    BY <1>2, <1>8, <2>1, <2>2, StopsHolds
  <2>3. CASE ~durable.job.possibleWrite
    <3>1. Sound(durable, world) /\ WholeWorld(durable, world)
      BY <1>8, <2>3 DEF WholeInv, Whole, Sound, MetaFits, WholeWorld
    <3>2. PICK e \in Durables : /\ SameJob(durable, e)
                                /\ Turn(e, [co EXCEPT !["cancel"] = Asleep], {"cancel"}) /\ world' = world /\ proc'.pid = proc.pid
      BY <1>2, <1>8, <2>1, StoppedTells
    <3>3. Closed(durable, world, co["work"])
      BY <1>2, <1>8, <3>1 DEF Closed, Ended, Loose
    <3>4. Sound(e, world) /\ Closed(e, world, co["work"]) /\ Follows(durable, e) /\ ~e.torn
      BY <1>1, <3>1, <3>2, <3>3, SameJobFacts DEF SameJob
    <3> QED
      BY <1>2, <3>2, <3>4, CancelCloses DEF Closed
  <2> QED
    BY <2>1, <2>2, <2>3
<1>9. CASE durable.job.phase \notin Ended /\ CancelDecides(durable, j)
  <2> HIDE DEF j
  <2> QED
    BY <1>2, <1>4, <1>9, CancelDecidesHolds
<1>10. CASE durable.job.phase \notin Ended /\ CancelTo(d, [co["cancel"] EXCEPT !.pc = "c_lease", !.job = k])
  <2>1. k \in Jobs /\ Agrees(durable, world.applied, k) /\ k.meta.phase = durable.job.phase
    BY <1>3, CopyAgrees
  <2> HIDE DEF d, k
  <2>2. Agrees(d, world.applied, k)
    BY <1>3, <2>1, SameJobFacts
  <2> QED
    BY <1>2, <1>3, <1>10, <2>1, <2>2, CancelGoesOn
<1> QED
  BY <1>6, <1>7, <1>8, <1>9, <1>10

\* The copy in hand, saved by the cancellation.
LEMMA CancelSaved ==
    ASSUME UpInv, WholeInv, co["cancel"].pc \in CancelSaves
    PROVE  LET d == Save(durable, Cj)
           IN /\ co["work"].pc = "idle" /\ CancelHolds(durable, world.applied, co["cancel"])
              /\ Cj \in Jobs /\ Agrees(durable, world.applied, Cj)
              /\ Sequel(d) /\ d.lease = durable.lease /\ d.job = Cj.meta /\ d.torn = durable.torn /\ d \in Durables
              /\ Agrees(d, world.applied, Cj)
<1>1. /\ co["work"].pc = "idle" /\ CancelHolds(durable, world.applied, co["cancel"])
      /\ Cj \in Jobs /\ Agrees(durable, world.applied, Cj)
  BY CancelKnows DEF CancelSaves
<1> QED
  BY <1>1, AgreeSaves DEF Sequel

\* The lease is in the job; the failure is recorded.
LEMMA CancelSavesHold ==
    ASSUME UpInv, WholeInv, CancelOwns \/ CancelFailRead \/ CancelFailSaved
    PROVE  Outcome
<1> DEFINE d == Save(durable, Cj)
           j == ReadJob(durable)
           k == Phase(j, "recovery-required")
<1>1. CASE CancelOwns
  <2>1. co["cancel"].pc = "c_lease" /\ co["cancel"].pc \in CancelSaves /\ CancelDecides(d, Cj)
    BY <1>1 DEF CancelOwns, Served, CancelSaves
  <2>2. /\ co["work"].pc = "idle" /\ CancelHolds(durable, world.applied, co["cancel"])
        /\ Sequel(d) /\ d.job = Cj.meta /\ Cj \in Jobs /\ Agrees(d, world.applied, Cj)
    BY <2>1, CancelSaved
  <2> HIDE DEF d
  <2>3. durable.job.phase \notin Ended /\ d.job.phase \notin Ended
    BY <2>1, <2>2 DEF CancelHolds, Cj
  <2> QED
    BY <2>1, <2>2, <2>3, CancelDecidesHolds
<1>2. CASE CancelFailSaved
  <2>1. co["cancel"].pc = "c_fsave" /\ co["cancel"].pc \in CancelSaves /\ Stopped(d, TRUE)
    BY <1>2 DEF CancelFailSaved, Served, CancelSaves
  <2>2. co["work"].pc = "idle" /\ CancelHolds(durable, world.applied, co["cancel"]) /\ Sequel(d) /\ d \in Durables
    BY <2>1, CancelSaved
  <2> HIDE DEF d
  <2>3. durable.job.phase \notin Ended
    BY <2>1, <2>2 DEF CancelHolds
  <2> QED
    BY <2>1, <2>2, <2>3, StopsHolds
<1>3. CASE CancelFailRead
  <2>1. co["cancel"].pc = "c_fread"
    BY <1>3 DEF CancelFailRead, Served
  <2>2. co["work"].pc = "idle" /\ durable.job.phase \notin Ended /\ Sequel(durable) /\ durable \in Durables
    BY <2>1, CancelKnows DEF CancelHolds
  <2>3. Stopped(durable, TRUE) \/ CancelTo(durable, [co["cancel"] EXCEPT !.pc = "c_fsave", !.job = k])
    BY <1>3 DEF CancelFailRead
  <2>4. CASE Stopped(durable, TRUE)
    BY <2>2, <2>4, StopsHolds
  <2>5. CASE CancelTo(durable, [co["cancel"] EXCEPT !.pc = "c_fsave", !.job = k])
    <3>1. j \in Jobs /\ Agrees(durable, world.applied, j)
      BY CopyAgrees
    <3> HIDE DEF j
    <3>2. k \in Jobs /\ Agrees(durable, world.applied, k) /\ k.meta.phase \notin Ended
      BY <2>2, <3>1, PhaseAgrees DEF Ended
    <3> HIDE DEF k
    <3> QED
      BY <2>2, <2>5, <3>2, CancelGoesOn
  <2> QED
    BY <2>3, <2>4, <2>5
<1> QED
  BY <1>1, <1>2, <1>3

\* The files go back under a job that wrote nothing.
LEMMA CancelFencedHolds ==
    ASSUME UpInv, WholeInv, CancelFenced
    PROVE  Outcome
<1> DEFINE s == Save(durable, Cj)
           d == RollBackFiles(s, Cj)
           j == Phase(Cj, "cancelled")
           l == [co["cancel"] EXCEPT !.pc = "c_cancelled", !.job = j]
           done == world.applied
<1>1. co["cancel"].pc = "c_fence" /\ co["cancel"].pc \in CancelSaves /\ CancelTo(d, l)
  BY DEF CancelFenced, Served, CancelSaves
<1>2. /\ co["work"].pc = "idle" /\ CancelHolds(durable, done, co["cancel"])
      /\ s \in Durables /\ Sequel(s) /\ s.lease = durable.lease /\ s.job = Cj.meta
      /\ Cj \in Jobs /\ Agrees(s, done, Cj)
  BY <1>1, CancelSaved
<1>3. ~Cj.meta.possibleWrite /\ durable.job.phase \notin Ended /\ Cj.meta.phase \notin Ended
  BY <1>1, <1>2 DEF CancelHolds, Cj
<1> HIDE DEF s
<1>4. /\ d.mode = s.mode /\ d.job = s.job /\ d.receipts = s.receipts /\ d.torn = s.torn /\ d.lease = s.lease /\ FilesAre(d, "old")
  <2>1. CASE Cj.meta.transition = "none"
    BY <1>2, <2>1 DEF RollBackFiles, Agrees, MetaFits, FilesAre
  <2>2. CASE Cj.meta.transition # "none"
    BY <1>2, <2>2 DEF RollBackFiles, Durables, FilesAre
  <2> QED
    BY <2>1, <2>2
<1> HIDE DEF d
<1>5. Sound(s, world) /\ Grows(durable, s) /\ s.mode = durable.mode
  BY <1>2 DEF Sequel
<1>6. ~s.job.possibleWrite /\ ~d.job.possibleWrite
  BY <1>2, <1>3, <1>4
<1>7. \A m \in Metas : MetaFits(m, s, done) /\ ~m.possibleWrite /\ m.phase # "completed" => MetaFits(m, d, done)
  BY <1>4 DEF MetaFits, FilesAre
<1>8. Sound(d, world)
  <2>1. MetaFits(d.job, d, done)
    BY <1>2, <1>3, <1>4, <1>5, <1>6, <1>7 DEF Sound, Durables, Ended
  <2>2. Sent(world) = {}
    BY <1>5, <1>6 DEF Sound
  <2> QED
    BY <2>1, <2>2 DEF Sound
<1>9. Grows(durable, d) /\ d.mode = durable.mode /\ Leased(d)
  BY <1>2, <1>4, <1>5 DEF Grows, DeclaredIn, Leased
<1>10. Agrees(d, done, Cj)
  BY <1>2, <1>3, <1>4, <1>6, <1>7 DEF Agrees, Jobs, Ended
<1>11. j \in Jobs /\ Agrees(d, done, j) /\ j.meta.phase = "cancelled" /\ ~j.meta.possibleWrite
  <2>1. d.job.phase # "completed" /\ ~d.job.possibleWrite /\ FilesAre(d, "old") /\ Cj \in Jobs
    BY <1>2, <1>3, <1>4, <1>6 DEF Ended
  <2> HIDE DEF done
  <2>2. j \in Jobs /\ Agrees(d, done, j) /\ j.meta.phase = "cancelled" /\ j.meta.possibleWrite = Cj.meta.possibleWrite
    BY <1>10, <2>1, PhaseAgrees
  <2> QED
    BY <1>3, <2>2
<1> HIDE DEF j
<1>12. l \in Locals /\ l.pc = "c_cancelled" /\ l.job = j
  <2>1. "c_cancelled" \in Pcs /\ co["cancel"] \in Locals
    BY WorkTypes DEF Pcs, CancelPcs, Undoing
  <2> QED
    BY <1>11, <2>1, LocalFacts
<1> HIDE DEF l
<1>13. CancelHolds(d, done, l)
  BY <1>11, <1>12 DEF CancelHolds, CancelSaves
<1>14. Turn(d, [co EXCEPT !["cancel"] = l], {"cancel"}) /\ proc' = proc /\ world' = world
  BY <1>1 DEF CancelTo
<1> QED
  BY <1>2, <1>3, <1>8, <1>9, <1>12, <1>13, <1>14, CancelOpen

\* The cancelled job is recorded, and the world is whole as it was.
LEMMA CancelledHolds ==
    ASSUME UpInv, WholeInv, Cancelled
    PROVE  Outcome
<1> DEFINE d == Save(durable, Cj)
           e == DropLease(d)
<1>1. co["cancel"].pc = "c_cancelled" /\ co["cancel"].pc \in CancelSaves /\ ~durable.torn
  BY DEF Cancelled, Served, Refuses, CancelSaves
<1>2. /\ co["work"].pc = "idle" /\ CancelHolds(durable, world.applied, co["cancel"])
      /\ Agrees(durable, world.applied, Cj)
      /\ Sequel(d) /\ d.job = Cj.meta /\ d.torn = durable.torn /\ d \in Durables /\ Agrees(d, world.applied, Cj)
  BY <1>1, CancelSaved
<1>3. ~Cj.meta.possibleWrite /\ Cj.meta.phase = "cancelled"
  BY <1>1, <1>2 DEF CancelHolds, Cj
<1> HIDE DEF d
<1>4. PICK f : /\ SameJob(d, f)
               /\ Turn(f, [co EXCEPT !["cancel"] = Asleep], {"cancel"}) /\ world' = world /\ proc'.pid = proc.pid
  <2>1. CASE CancelFails(d)
    <3>1. SameJob(d, RecoveryRequired(d))
      BY <1>2, ModeChanges DEF RecoveryRequired
    <3> QED
      BY <2>1, <3>1 DEF CancelFails, CancelTo
  <2>2. CASE Stopped(e, FALSE)
    <3>1. e \in Durables /\ SameJob(d, e)
      BY <1>2, WorkTypes, LeaseFacts, ModeChanges
    <3> HIDE DEF e
    <3>2. PICK g \in Durables : /\ SameJob(e, g)
                                /\ Turn(g, [co EXCEPT !["cancel"] = Asleep], {"cancel"}) /\ world' = world /\ proc'.pid = proc.pid
      BY <2>2, <3>1, StoppedTells
    <3>3. SameJob(d, g)
      BY <3>1, <3>2 DEF SameJob, Twin
    <3> QED
      BY <3>2, <3>3
  <2> QED
    BY <2>1, <2>2 DEF Cancelled, d
<1>5. Sound(d, world) /\ FilesAre(d, "old") /\ ~d.job.possibleWrite /\ ~durable.job.possibleWrite
  BY <1>2, <1>3 DEF Sequel, Agrees, MetaFits
<1>6. Sound(f, world) /\ f.job.phase = "cancelled" /\ ~f.job.possibleWrite /\ FilesAre(f, "old") /\ ~f.torn
  BY <1>1, <1>2, <1>3, <1>4, <1>5, SameJobFacts DEF SameJob, Twin, FilesAre
<1>7. WholeWorld(f, world) /\ f.job.phase \in Ended
  BY <1>6 DEF Sound, WholeWorld, Ended
<1>8. Follows(durable, f)
  BY <1>2, <1>3, <1>5, <1>6 DEF Follows, Declared, Agrees
<1> QED
  BY <1>2, <1>4, <1>6, <1>7, <1>8, CancelCloses

\* Every step of the cancellation leaves the world whole.
LEMMA CancelStepsHold ==
    ASSUME UpInv, WholeInv, CancelSteps
    PROVE  Outcome
<1>1. CASE CancelRejected
  <2>1. co["cancel"].pc \notin {"idle", "c_wait"} /\ CancelFails(durable)
    BY <1>1, Stepping, WorkTypes DEF CancelRejected, JournalPcs, SavePcs
  <2> QED
    BY <2>1, CancelKnows, CancelFailsHolds
<1> QED
  BY <1>1, CancelBeginsHolds, CancelUnboundHolds, CancelJobHolds, CancelSavesHold, CancelFencedHolds, CancelledHolds DEF CancelSteps

-----------------------------------------------------------------------------
(* The upgrade: saves cut short, the process and the world *)

\* The coroutines stay as they are.
LEMMA WholeKept ==
    ASSUME UpInv, Whole(durable', world', co["work"], co["poll"], co["cancel"], proc'.pid), Follows(durable, durable'),
           world'.applied = world.applied, \A u \in Coroutines : Same(co'[u], co[u])
    PROVE  Outcome
<1> DEFINE k == co'["work"]
           p == co'["poll"]
           c == co'["cancel"]
           d == durable'
           w == world'
           pr == proc'
<1>1. Same(k, co["work"]) /\ Same(p, co["poll"]) /\ Same(c, co["cancel"])
  BY DEF Coroutines
<1>2. Whole(d, w, co["work"], co["poll"], co["cancel"], pr.pid)
  OBVIOUS
<1> HIDE DEF k, p, c, d, w, pr
<1>3. Whole(d, w, k, p, c, pr.pid)
  BY <1>1, <1>2, SeenAlike
<1> QED
  BY <1>3 DEF Outcome, WholeInv, k, p, c, d, w, pr

\* Records that tell the same of the job, under the same lease.
LEMMA SameWhole ==
    ASSUME UpInv, WholeInv, NEW d, SameJob(durable, d), Leased(d), Frees(d.mode) => Frees(durable.mode)
    PROVE  Whole(d, world, co["work"], co["poll"], co["cancel"], proc.pid) /\ Follows(durable, d)
<1>1. /\ Sound(d, world) /\ WorkHolds(d, world.applied, co["work"], proc.pid) /\ CancelHolds(d, world.applied, co["cancel"])
      /\ Follows(durable, d) /\ (Closed(durable, world, co["work"]) => Closed(d, world, co["work"]))
      /\ Releases(durable, world, co["work"], co["poll"], proc.pid) /\ d.torn = durable.torn
  BY WorkStays DEF SameJob
<1>2. Claimed(durable, proc.pid) => Claimed(d, proc.pid)
  BY DEF Leased, Claimed
<1>3. Releases(d, world, co["work"], co["poll"], proc.pid)
  BY <1>1, <1>2 DEF Releases
<1> QED
  BY <1>1, <1>3 DEF Whole

\* Records of a world that is not closed, under the same mode and lease.
LEMMA OpenStays ==
    ASSUME UpInv, WholeInv, ~Closed(durable, world, co["work"]),
           NEW d, Grows(durable, d), d.mode = durable.mode, d.lease = durable.lease
    PROVE  Releases(d, world, co["work"], co["poll"], proc.pid) /\ Follows(durable, d)
<1>1. ~Frees(durable.mode) /\ (co["poll"].pc = "p_lease" /\ Frees(co["poll"].mode) => Claimed(durable, proc.pid))
  BY DEF WholeInv, Whole, Releases
<1>2. ~Frees(d.mode) /\ (co["poll"].pc = "p_lease" /\ Frees(co["poll"].mode) => Claimed(d, proc.pid))
  BY <1>1 DEF Claimed
<1> QED
  BY <1>1, <1>2 DEF Releases, Follows, Grows, Declared

\* A save of the work cut short: what it holds fits the job before the save and after it.
LEMMA WorkLanded ==
    ASSUME UpInv, WholeInv, co["work"].pc \in SavePcs, NEW e \in Landings(durable, Wj)
    PROVE  Whole(e, world, co["work"], co["poll"], co["cancel"], proc.pid) /\ Follows(durable, e)
<1> DEFINE s == Save(durable, Wj)
           r == SaveReceipts(durable, Wj)
           t == [durable EXCEPT !.torn = TRUE]
           k == co["work"]
           m == Wj.meta
           done == world.applied
<1>1. co["work"].pc # "idle" /\ co["work"].pc \notin Loose /\ ~Closed(durable, world, co["work"])
  BY DEF Loose, SavePcs, Closed
<1>2. durable \in Durables /\ Wj \in Jobs
  BY WorkTypes
<1>3. /\ e \in {durable, r, s, t}
      /\ t.job = durable.job /\ t.receipts = durable.receipts /\ t.target = durable.target /\ t.registry = durable.registry
      /\ t.mode = durable.mode /\ t.lease = durable.lease
  BY <1>2 DEF Landings, Durables
<1>4. r.job = durable.job /\ s.job = m /\ r.mode = durable.mode /\ s.mode = durable.mode /\ r.lease = durable.lease /\ s.lease = durable.lease
  BY <1>2, SaveFacts
<1>5. \A f \in {r, s} : f.target = durable.target /\ f.registry = durable.registry /\ DeclaredIn(durable) \subseteq DeclaredIn(f)
  BY <1>2, SaveDeclares
<1>6. DeclaredIn(t) = DeclaredIn(durable)
  BY <1>3 DEF DeclaredIn
<1>7. k.pc \in Bearing /\ k.pc # "r_loop" /\ MetaFits(m, durable, done) /\ (durable.job.possibleWrite => m.possibleWrite)
  BY WorkSaves DEF SavePcs
<1> HIDE DEF r, s, t
<1>8. e.mode = durable.mode /\ e.lease = durable.lease /\ e.target = durable.target /\ e.registry = durable.registry
      /\ e.job \in {durable.job, m} /\ DeclaredIn(durable) \subseteq DeclaredIn(e)
  BY <1>3, <1>4, <1>5, <1>6
<1>9. Sound(durable, world) /\ WorkHolds(durable, done, k, proc.pid)
  BY DEF WholeInv, Whole
<1>10. CancelHolds(e, done, co["cancel"])
  BY <1>1, WaitingHolds
<1> HIDE DEF m, k, done
<1>11. \A n : MetaFits(n, durable, done) => MetaFits(n, e, done)
  BY <1>8 DEF MetaFits, FilesAre
<1>12. e.job.possibleWrite => m.possibleWrite
  BY <1>7, <1>8
<1>13. Sound(e, world) /\ Grows(durable, e)
  BY <1>7, <1>8, <1>9, <1>11 DEF Sound, Grows, done
<1>14. Placed(k.pc, e, done, m)
  <2>1. Placed(k.pc, durable, done, m)
    BY <1>9 DEF WorkHolds, m, k, Wj
  <2>2. k.pc \in Running => e.job.transition = "registered"
    BY <1>8, <2>1 DEF Placed
  <2>3. k.pc \in Bearing => MetaFits(m, e, done) /\ (e.job.possibleWrite => m.possibleWrite)
    BY <1>7, <1>11, <1>12
  <2> QED
    BY <1>7, <1>8, <2>1, <2>2, <2>3 DEF Placed, FilesAre
<1>15. k.pc = "rs_save" => e.job.phase \notin Ended
  BY <1>8, <1>9 DEF WorkHolds, Ended, m, k, Wj
<1>16. WorkHolds(e, done, k, proc.pid)
  BY <1>8, <1>9, <1>14, <1>15 DEF WorkHolds, Claimed, m, k, Wj
<1>17. Releases(e, world, k, co["poll"], proc.pid) /\ Follows(durable, e)
  BY <1>1, <1>8, <1>13, OpenStays DEF k
<1> QED
  BY <1>10, <1>13, <1>16, <1>17 DEF Whole, k, done

\* A save of the cancellation cut short: the records say what they said, or what its copy says.
LEMMA CancelLanded ==
    ASSUME UpInv, WholeInv, co["cancel"].pc \in CancelSaves, NEW e \in Landings(durable, Cj)
    PROVE  Whole(e, world, co["work"], co["poll"], co["cancel"], proc.pid) /\ Follows(durable, e)
<1> DEFINE s == Save(durable, Cj)
           k == co["work"]
           c == co["cancel"]
<1>1. /\ k.pc = "idle" /\ CancelHolds(durable, world.applied, c) /\ Cj \in Jobs /\ Agrees(durable, world.applied, Cj)
      /\ Sequel(s) /\ s.lease = durable.lease /\ s.job = Cj.meta /\ s.torn = durable.torn /\ Agrees(s, world.applied, Cj)
  BY CancelSaved
<1>2. SaveReceipts(durable, Cj) = durable
  BY <1>1, AgreeSaves
<1>3. e \in {durable, s}
  BY <1>2 DEF Landings
<1>4. CASE e = durable
  BY <1>4, SameJobFacts, JobIsTwin DEF WholeInv
<1>5. CASE e = s
  <2>1. WorkHolds(s, world.applied, k, proc.pid) /\ Sound(s, world) /\ Grows(durable, s) /\ s.mode = durable.mode
    BY <1>1, LooseHolds DEF Loose, Sequel
  <2>2. c.job = Cj
    BY DEF Cj
  <2> HIDE DEF s
  <2>3. CASE c.pc # "c_cancelled"
    <3>1. durable.job.phase \notin Ended /\ s.job.phase \notin Ended
      BY <1>1, <2>2, <2>3 DEF CancelHolds, CancelSaves
    <3>2. CancelHolds(s, world.applied, c)
      BY <1>1, <2>2, <2>3, <3>1 DEF CancelHolds, CancelSaves
    <3>3. Releases(s, world, k, co["poll"], proc.pid) /\ Follows(durable, s)
      BY <1>1, <2>1, <3>1, OpenStays DEF Closed
    <3> QED
      BY <1>5, <2>1, <3>2, <3>3 DEF Whole
  <2>4. CASE c.pc = "c_cancelled"
    <3>1. s.job.phase = "cancelled" /\ ~s.job.possibleWrite /\ ~durable.job.possibleWrite
          /\ (s.job.phase = "completed" <=> durable.job.phase = "completed")
      BY <1>1, <2>2, <2>4 DEF CancelHolds, Agrees
    <3>2. WholeWorld(s, world) /\ s.job.phase \in Ended
      BY <2>1, <3>1 DEF Sound, MetaFits, WholeWorld, Ended
    <3>3. Closed(s, world, k)
      BY <1>1, <3>2 DEF Closed, Loose
    <3>4. Releases(s, world, k, co["poll"], proc.pid)
      BY <1>1, <2>1, <3>3 DEF WholeInv, Whole, Releases
    <3>5. CancelHolds(s, world.applied, c)
      BY <1>1, <2>2, <2>4, <3>1 DEF CancelHolds
    <3>6. Follows(durable, s)
      BY <3>1 DEF Follows, Declared
    <3> QED
      BY <1>5, <2>1, <3>4, <3>5, <3>6 DEF Whole
  <2> QED
    BY <2>3, <2>4
<1> QED
  BY <1>3, <1>4, <1>5

\* A save of the poll cut short, of a copy that is the disk's job but for its token.
LEMMA PollLanded ==
    ASSUME UpInv, WholeInv, NEW j \in Jobs, [j EXCEPT !.meta.token = durable.job.token] = ReadJob(durable),
           NEW e \in Landings(durable, j)
    PROVE  Whole(e, world, co["work"], co["poll"], co["cancel"], proc.pid) /\ Follows(durable, e)
<1> DEFINE s == Save(durable, j)
<1>1. durable \in Durables /\ s.mode = durable.mode /\ s.lease = durable.lease /\ SameJob(durable, s)
  BY WorkTypes, SaveFacts, LatestSaves
<1>2. SaveReceipts(durable, j) = durable
  <2> DEFINE k == [j EXCEPT !.meta.token = durable.job.token]
  <2>1. k.meta = durable.job /\ k.out = durable.receipts[durable.job.approval]
    BY DEF ReadJob
  <2>2. k.meta.approval = j.meta.approval /\ k.out = j.out
    BY MetaChanges, WorkTypes DEF Metas
  <2> HIDE DEF k
  <2>3. \A o \in Ops : j.out[o] # "none" => durable.receipts[j.meta.approval][o] = j.out[o]
    BY <2>1, <2>2
  <2> QED
    BY <1>1, <2>3, SaveDeclares
<1>3. e \in {durable, s}
  BY <1>2 DEF Landings
<1> HIDE DEF s
<1>4. SameJob(durable, e) /\ Leased(e) /\ e.mode = durable.mode
  BY <1>1, <1>3, JobIsTwin DEF Leased
<1> QED
  BY <1>4, SameWhole

\* Any save cut short, unless it puts an older job back.
LEMMA CutShort ==
    ASSUME UpInv, WholeInv, queue # <<>>, co[Head(queue)].pc \in SavePcs, ~OlderLands,
           NEW e \in Landings(durable, co[Head(queue)].job)
    PROVE  e.mode = durable.mode /\ Whole(e, world, co["work"], co["poll"], co["cancel"], proc.pid) /\ Follows(durable, e)
<1>1. Head(queue) \in Coroutines
  BY DEF UpInv, UpLine, Line
<1>2. e.mode = durable.mode
  BY Landed
<1>3. CASE Head(queue) = "work"
  BY <1>2, <1>3, WorkLanded DEF Wj
<1>4. CASE Head(queue) = "poll"
  <2>1. co["poll"].pc = "p_save"
    BY <1>4 DEF UpInv, UpPoll, PollPcs, SavePcs
  <2>2. [co["poll"].job EXCEPT !.meta.token = durable.job.token] = ReadJob(durable)
    BY <1>4, <2>1 DEF OlderLands, Older
  <2> QED
    BY <1>2, <1>4, <2>2, PollLanded, WorkTypes
<1>5. CASE Head(queue) = "cancel"
  <2>1. co["cancel"].pc \in CancelSaves
    BY <1>5 DEF UpInv, UpCancel, CancelPcs, Undoing, SavePcs, CancelSaves
  <2> QED
    BY <1>2, <1>5, <2>1, CancelLanded DEF Cj
<1> QED
  BY <1>1, <1>3, <1>4, <1>5 DEF Coroutines

\* A history that stays clean tells that no older job landed.
LEMMA CleanLandings ==
    ASSUME events \in Histories, Cancel \/ WorkerExits \/ Crash \/ Restart, ~events'.stale
    PROVE  ~OlderLands
BY DEF Histories, Cancel, WorkerExits, Crash, Restart

\* The cancellation is asked for.
LEMMA CancelHoldsBack ==
    ASSUME UpInv, WholeInv, Cancel, ~OlderLands
    PROVE  Outcome
<1>1. world' = world /\ proc'.pid = proc.pid
  BY WorkTypes DEF Cancel, Processes
<1>2. CASE ~durable.mode.drained /\ Turn(RecoveryRequired(durable), co, {}) /\ UNCHANGED proc
  <2> DEFINE d == RecoveryRequired(durable)
  <2>1. SameJob(durable, d) /\ d.mode.stage = "recovery-required" /\ d.lease = durable.lease
    BY WorkTypes, ModeChanges, StageFacts DEF RecoveryRequired, Stages
  <2>2. durable' = d /\ co' = co
    BY <1>2 DEF Turn, UpInv, UpTypes
  <2> HIDE DEF d
  <2>3. Whole(d, world, co["work"], co["poll"], co["cancel"], proc.pid) /\ Follows(durable, d)
    BY <2>1, SameWhole DEF Frees, Leased
  <2>4. \A u \in Coroutines : Same(co'[u], co[u])
    BY <2>2 DEF Same, Alike
  <2> QED
    BY <1>1, <2>2, <2>3, <2>4, WholeKept
<1> DEFINE l == [Asleep EXCEPT !.pc = "c_wait"]
<1>3. ASSUME NEW d, d = durable \/ d \in InService, Turn(d, [co EXCEPT !["cancel"] = l], {"cancel"})
      PROVE  Outcome
  <2> DEFINE cs == [co EXCEPT !["cancel"] = l]
  <2>1. l \in Locals /\ l.pc = "c_wait"
    BY AsleepFacts DEF Pcs, CancelPcs, Undoing
  <2>2. cs \in [Coroutines -> Locals] /\ cs["work"] = co["work"] /\ cs["poll"] = co["poll"] /\ cs["cancel"] = l
    BY <2>1 DEF UpInv, UpTypes, Coroutines
  <2>3. Turn(d, cs, {"cancel"})
    BY <1>3
  <2> HIDE DEF l, cs
  <2>4. Whole(d, world, co["work"], co["poll"], co["cancel"], proc.pid) /\ Follows(durable, d)
    <3>1. CASE d = durable
      BY <3>1, SameJobFacts, JobIsTwin DEF WholeInv
    <3>2. CASE d # durable
      BY <1>3, <3>2, CutShort DEF InService
    <3> QED
      BY <3>1, <3>2
  <2>5. Whole(d, world, co["work"], co["poll"], l, proc.pid)
    BY <2>1, <2>4 DEF Whole, CancelHolds, CancelSaves
  <2> QED
    BY <1>1, <2>2, <2>3, <2>4, <2>5, WholeTurn
<1>4. \/ ~durable.mode.drained /\ Turn(RecoveryRequired(durable), co, {}) /\ UNCHANGED proc
      \/ \E d : (d = durable \/ d \in InService) /\ Turn(d, [co EXCEPT !["cancel"] = l], {"cancel"})
  BY DEF Cancel
<1> QED
  BY <1>2, <1>3, <1>4

\* The worker exits, or the connection is lost.
LEMMA CutsHold ==
    ASSUME UpInv, WholeInv, (WorkerExits /\ ~OlderLands) \/ Disconnect
    PROVE  Outcome
<1>1. Whole(durable, world, co["work"], co["poll"], co["cancel"], proc.pid)
  BY DEF WholeInv
<1>2. Follows(durable, durable)
  BY SameJobFacts, JobIsTwin
<1>3. CASE WorkerExits /\ ~OlderLands
  <2> DEFINE w == Head(queue)
             k == [co[w] EXCEPT !.refused = TRUE]
  <2>1. queue # <<>> /\ world' = world /\ proc' = proc /\ co' = [co EXCEPT ![w] = k]
    BY <1>3 DEF WorkerExits
  <2>2. w \in Coroutines
    BY <2>1 DEF UpInv, UpLine, Line
  <2>3. Whole(durable', world, co["work"], co["poll"], co["cancel"], proc.pid) /\ Follows(durable, durable')
    <3>1. durable' = durable \/ (co[w].pc \in SavePcs /\ durable' \in Landings(durable, co[w].job))
      BY <1>3 DEF WorkerExits
    <3> QED
      BY <1>1, <1>2, <1>3, <2>1, <3>1, CutShort
  <2>4. \A u \in Coroutines : Same(co'[u], co[u])
    <3>1. Same(k, co[w])
      BY <2>2, WorkTypes DEF Locals, Same, Alike
    <3>2. \A u \in Coroutines : Same(co[u], co[u])
      BY DEF Same, Alike
    <3> HIDE DEF k, w
    <3> QED
      BY <2>1, <3>1, <3>2 DEF UpInv, UpTypes
  <2> QED
    BY <2>1, <2>3, <2>4, WholeKept
<1>4. CASE Disconnect
  <2> DEFINE k == [co["work"] EXCEPT !.fresh = FALSE]
  <2>1. durable' = durable /\ world' = world /\ co' = [co EXCEPT !["work"] = k] /\ proc'.pid = proc.pid
    BY <1>4, WorkTypes DEF Disconnect, Processes
  <2>2. \A u \in Coroutines : Same(co'[u], co[u])
    <3>1. Same(k, co["work"])
      BY WorkTypes DEF Locals, Same, Alike
    <3>2. \A u \in Coroutines : Same(co[u], co[u])
      BY DEF Same, Alike
    <3> HIDE DEF k
    <3> QED
      BY <2>1, <3>1, <3>2 DEF UpInv, UpTypes
  <2> QED
    BY <1>1, <1>2, <2>1, <2>2, WholeKept
<1> QED
  BY <1>3, <1>4

\* Nothing but the records survives the process.
LEMMA DiesHolds ==
    ASSUME UpInv, WholeInv, Dies, ~OlderLands
    PROVE  Outcome
<1>1. co' = [w \in Coroutines |-> Asleep] /\ world' = world
  BY DEF Dies
<1>2. Whole(durable', world, co["work"], co["poll"], co["cancel"], proc.pid) /\ Follows(durable, durable')
  <2>1. CASE durable' = durable
    BY <2>1, SameJobFacts, JobIsTwin DEF WholeInv
  <2>2. CASE queue # <<>> /\ co[Head(queue)].pc \in SavePcs /\ durable' \in Landings(durable, co[Head(queue)].job)
    BY <2>2, CutShort
  <2> QED
    BY <2>1, <2>2 DEF Dies
<1>3. co'["work"] = Asleep /\ co'["poll"] = Asleep /\ co'["cancel"] = Asleep
  BY <1>1 DEF Coroutines
<1>4. ASSUME NEW pid PROVE Whole(durable', world, Asleep, Asleep, Asleep, pid)
  BY <1>2, AsleepHolds DEF Whole, Releases, Closed
<1> QED
  BY <1>1, <1>2, <1>3, <1>4 DEF Outcome, WholeInv

\* The drain, and normal serving.
LEMMA DrainHolds ==
    ASSUME UpInv, WholeInv, Drained \/ DrainTimesOut \/ WorldReady
    PROVE  Outcome
<1> DEFINE m == [durable.mode EXCEPT !.drained = TRUE]
           d == [durable EXCEPT !.mode = m]
           e == RecoveryRequired(durable)
           f == Stage(durable, "serving")
<1>1. world' = world /\ co' = co /\ proc'.pid = proc.pid
  BY WorkTypes DEF Drained, DrainTimesOut, WorldReady, Processes
<1>2. m.stage = durable.mode.stage
  BY WorkTypes DEF Modes
<1> HIDE DEF m
<1>3. SameJob(durable, d) /\ d.mode = m /\ d.lease = durable.lease
  BY WorkTypes, JobIsTwin DEF Durables
<1>4. SameJob(durable, e) /\ e.mode.stage = "recovery-required" /\ e.lease = durable.lease
  BY WorkTypes, ModeChanges, StageFacts DEF RecoveryRequired, Stages
<1>5. SameJob(durable, f) /\ f.lease = durable.lease
  BY WorkTypes, ModeChanges, StageFacts DEF Stages
<1>6. \/ durable' = d
      \/ durable' = e
      \/ durable.mode.stage = "activating" /\ durable' = f
  BY DEF Drained, DrainTimesOut, WorldReady, m
<1> HIDE DEF d, e, f
<1>7. SameJob(durable, durable') /\ Leased(durable') /\ (Frees(durable'.mode) => Frees(durable.mode))
  BY <1>2, <1>3, <1>4, <1>5, <1>6 DEF Frees, Leased
<1> DEFINE g == durable'
<1>8. SameJob(durable, g) /\ Leased(g) /\ (Frees(g.mode) => Frees(durable.mode))
  BY <1>7
<1> HIDE DEF g
<1>9. Whole(g, world, co["work"], co["poll"], co["cancel"], proc.pid) /\ Follows(durable, g)
  BY <1>8, SameWhole
<1>10. \A u \in Coroutines : Same(co'[u], co[u])
  BY <1>1 DEF Same, Alike
<1> QED
  BY <1>1, <1>9, <1>10, WholeKept DEF g

\* A new process reads the records.
LEMMA BootHolds ==
    ASSUME UpInv, WholeInv, Boot
    PROVE  Outcome
<1> DEFINE r == RestoreUpgradeMaintenance(durable)
           i == IF r.mode.stage = "entering" THEN Stage(r, "isolated") ELSE r
           d == RestoreMode(r)
<1>1. durable' = d /\ world' = world /\ co' = co /\ proc.up = "down"
  BY DEF Boot
<1>2. co["work"].pc = "idle" /\ co["poll"].pc = "idle" /\ co["cancel"].pc = "idle"
  BY <1>1 DEF UpInv, UpDown, Coroutines
<1>3. r \in Durables /\ SameJob(durable, r) /\ r.mode = durable.mode
  <2>1. DropLease(durable) \in Durables /\ SameJob(durable, DropLease(durable)) /\ DropLease(durable).mode = durable.mode
    BY WorkTypes, LeaseFacts, ModeChanges
  <2> QED
    BY <2>1, WorkTypes, JobIsTwin DEF RestoreUpgradeMaintenance
<1> HIDE DEF r
<1>4. i \in Durables /\ SameJob(durable, i) /\ (Frees(i.mode) => Frees(durable.mode))
  <2> DEFINE s == Stage(r, "isolated")
  <2>1. s \in Durables /\ SameJob(r, s) /\ s.mode.stage = "isolated"
    BY <1>3, StageFacts, ModeChanges DEF Stages
  <2>2. i \in {r, s}
    OBVIOUS
  <2> HIDE DEF s, i
  <2>3. SameJob(durable, s)
    BY <1>3, <2>1 DEF SameJob, Twin
  <2> QED
    BY <1>3, <2>1, <2>2, <2>3 DEF Frees
<1>5. d \in {i, Settled(i), RecoveryRequired(i)}
  BY DEF RestoreMode
<1> HIDE DEF i, d
<1>6. /\ SameJob(i, Settled(i)) /\ Settled(i).mode.stage = i.mode.stage
      /\ SameJob(i, RecoveryRequired(i)) /\ RecoveryRequired(i).mode.stage = "recovery-required"
  BY <1>4, ModeChanges DEF RecoveryRequired, Stages
<1>7. SameJob(durable, d) /\ (Frees(d.mode) => Frees(durable.mode))
  BY <1>4, <1>5, <1>6 DEF SameJob, Twin, Frees
<1>8. /\ Sound(d, world) /\ Follows(durable, d) /\ d.torn = durable.torn
      /\ (Closed(durable, world, co["work"]) => Closed(d, world, co["work"]))
      /\ (Frees(durable.mode) => Closed(durable, world, co["work"]) /\ ~durable.torn)
  BY <1>7, SameJobFacts DEF WholeInv, Whole, Releases, SameJob
<1>9. ASSUME NEW pid PROVE Whole(d, world, co["work"], co["poll"], co["cancel"], pid)
  <2>1. WorkHolds(d, world.applied, co["work"], pid)
    BY <1>2, LooseHolds DEF Loose
  <2>2. CancelHolds(d, world.applied, co["cancel"])
    BY <1>2 DEF CancelHolds, CancelSaves
  <2>3. Releases(d, world, co["work"], co["poll"], pid)
    BY <1>2, <1>7, <1>8 DEF Releases
  <2> QED
    BY <1>8, <2>1, <2>2, <2>3 DEF Whole
<1>10. \A u \in Coroutines : Same(co'[u], co[u])
  BY <1>1 DEF Same, Alike
<1> QED
  BY <1>1, <1>8, <1>9, <1>10, WholeKept

-----------------------------------------------------------------------------
(* The upgrade: a whole world, its messages, and the theorems *)

\* What Foundry has applied it never loses, and it has nothing that was not sent.
LEMMA WorldMoves ==
    ASSUME NEW d, NEW w, NEW v, NEW k, NEW p, NEW c, NEW pid, Whole(d, w, k, p, c, pid),
           w.applied \subseteq v.applied, v.applied \subseteq Ops, Sent(v) \subseteq Sent(w)
    PROVE  Whole(d, v, k, p, c, pid)
<1>1. \A m : MetaFits(m, d, w.applied) => MetaFits(m, d, v.applied)
  BY DEF MetaFits
<1>2. Sound(d, v)
  BY <1>1 DEF Whole, Sound
<1>3. \A j : Agrees(d, w.applied, j) => Agrees(d, v.applied, j)
  BY <1>1 DEF Agrees
<1>4. WorkHolds(d, v.applied, k, pid)
  <2>1. Placed(k.pc, d, w.applied, k.job.meta)
    BY DEF Whole, WorkHolds
  <2>2. Placed(k.pc, d, v.applied, k.job.meta)
    BY <1>1, <2>1 DEF Placed
  <2> QED
    BY <2>2 DEF Whole, WorkHolds
<1>5. CancelHolds(d, v.applied, c)
  BY <1>3 DEF Whole, CancelHolds
<1>6. Closed(d, w, k) => Closed(d, v, k)
  BY DEF WholeWorld, Closed
<1>7. Releases(d, v, k, p, pid)
  BY <1>6 DEF Whole, Releases
<1> QED
  BY <1>2, <1>4, <1>5, <1>7 DEF Whole

\* A message is applied, or lost.
LEMMA MessagesHold ==
    ASSUME UpInv, WholeInv, NEW o \in Ops, Applied(o) \/ Lost(o)
    PROVE  WholeInv' /\ durable' = durable
<1>1. durable' = durable /\ co' = co /\ proc' = proc /\ o \in world.flying
  BY DEF Applied, Lost
<1>2. world.applied \subseteq world'.applied /\ world'.applied \subseteq Ops /\ Sent(world') \subseteq Sent(world)
  BY <1>1, WorkTypes DEF Applied, Lost, Worlds, Sent
<1>3. Whole(durable, world', co["work"], co["poll"], co["cancel"], proc.pid)
  <2> DEFINE v == world'
  <2>1. world.applied \subseteq v.applied /\ v.applied \subseteq Ops /\ Sent(v) \subseteq Sent(world)
    BY <1>2
  <2> HIDE DEF v
  <2>2. Whole(durable, v, co["work"], co["poll"], co["cancel"], proc.pid)
    BY <2>1, WorldMoves DEF WholeInv
  <2> QED
    BY <2>2 DEF v
<1> QED
  BY <1>1, <1>3 DEF WholeInv

\* The world is whole at the start.
LEMMA WholeStarts ==
    ASSUME UpgradeInit
    PROVE  WholeInv /\ events \in Histories
<1>1. PICK b \in BOOLEAN :
        /\ durable = [mode |-> EnteredMode(b), job |-> NoMeta, receipts |-> [a \in 1..MaxApprovals |-> NoOutcome],
                      torn |-> FALSE, lease |-> [token |-> 1, pid |-> 1], issued |-> 1, target |-> "old", registry |-> "old"]
        /\ world = [applied |-> {}, flying |-> {}]
        /\ co = [w \in Coroutines |-> Asleep]
        /\ events = [commands |-> 0, crashes |-> 0, cuts |-> 0, stale |-> FALSE]
  BY DEF UpgradeInit
<1>2. co["work"] = Asleep /\ co["poll"] = Asleep /\ co["cancel"] = Asleep
  BY <1>1 DEF Coroutines
<1>3. Sound(durable, world)
  BY <1>1 DEF Sound, MetaFits, NoMeta, FilesAre, Sent
<1>4. durable.mode.stage = "entering"
  BY <1>1 DEF EnteredMode
<1>5. ~Frees(durable.mode)
  BY <1>4 DEF Frees
<1>6. Whole(durable, world, Asleep, Asleep, Asleep, proc.pid)
  BY <1>3, <1>5, AsleepHolds DEF Whole, Releases
<1>7. events \in Histories
  BY <1>1 DEF Histories
<1> QED
  BY <1>2, <1>6, <1>7 DEF WholeInv

\* The work and the cancellation add nothing to the history.
LEMMA WorkHistory ==
    ASSUME WorkSteps
    PROVE  events' = events
<1>1. \A d : WorkFails(d) \/ Fail(d) => events' = events
  BY DEF WorkFails, Fail, Step
<1>2. \A d, l : Step(d, l) => events' = events
  BY DEF Step
<1>3. \A d, j : Runs(d, j) => events' = events
  BY <1>1, <1>2 DEF Runs
<1>4. \A d, j, left : Loop(d, j, left) => events' = events
  BY <1>1, <1>2 DEF Loop
<1>5. \A d : SendFailed(d) => events' = events
  BY <1>1, <1>2 DEF SendFailed
<1>6. WorkReconcile \/ PlanRead \/ PlanPreview \/ PlanSaved \/ ApproveRead \/ ApproveSaved \/ ApproveUnacknowledged \/ ApproveRecover
      \/ ApproveSnapshot \/ Installing \/ RetainPrevious \/ PromoteCandidate \/ RegisterCandidate \/ Promoted \/ Approved => events' = events
  BY <1>1, <1>2 DEF WorkReconcile, PlanRead, PlanPreview, PlanSaved, ApproveRead, ApproveSaved, ApproveUnacknowledged, ApproveRecover,
     ApproveSnapshot, Installing, RetainPrevious, PromoteCandidate, RegisterCandidate, Promoted, Approved
<1>7. ReapproveRead \/ ReapproveSnapshot \/ Reapproved \/ ResumeRead \/ ResumeSaved \/ RunnerRead \/ RunnerOwns \/ RunnerRestarts
      \/ RunnerSnapshot \/ Migrating \/ LoopRead => events' = events
  BY <1>1, <1>2, <1>3, <1>4 DEF ReapproveRead, ReapproveSnapshot, Reapproved, ResumeRead, ResumeSaved, RunnerRead, RunnerOwns, RunnerRestarts,
     RunnerSnapshot, Migrating, LoopRead
<1>8. SourceRead => events' = events
  BY <1>1, <1>2 DEF SourceRead
<1>9. Send \/ Acknowledged \/ Unacknowledged \/ UncertainRead \/ UncertainSaved \/ Readback \/ Confirmed => events' = events
  BY <1>1, <1>2, <1>4, <1>5 DEF Send, Acknowledged, Unacknowledged, UncertainRead, UncertainSaved, Readback, Confirmed
<1>10. Verifying \/ Verified \/ HookFails \/ Completed \/ Executed \/ FailRead \/ FailSaved \/ WorkRejected => events' = events
  BY <1>1, <1>2 DEF Verifying, Verified, HookFails, Completed, Executed, FailRead, FailSaved, WorkRejected
<1> QED
  BY <1>6, <1>7, <1>8, <1>9, <1>10 DEF WorkSteps

LEMMA CancelHistory ==
    ASSUME CancelSteps
    PROVE  events' = events
<1>1. \A d, l : CancelTo(d, l) => events' = events
  BY DEF CancelTo
<1>2. \A d : CancelFails(d) \/ CancelReads(d) => events' = events
  BY <1>1 DEF CancelFails, CancelReads
<1>3. \A d, b : Stopped(d, b) => events' = events
  BY <1>1 DEF Stopped
<1>4. \A d, j : CancelDecides(d, j) => events' = events
  BY <1>1 DEF CancelDecides
<1>5. CancelBegins => events' = events
  BY <1>1, <1>2 DEF CancelBegins
<1> QED
  BY <1>1, <1>2, <1>3, <1>4, <1>5 DEF CancelSteps, CancelWaits, CancelReconcile, CancelUnbound, CancelJob, CancelOwns, CancelFailRead,
     CancelFailSaved, CancelFenced, Cancelled, CancelRejected

\* A history that is no longer clean stays so.
LEMMA HistoryKept ==
    ASSUME events \in Histories, [UpgradeNext]_upgradeVars
    PROVE  events' \in Histories /\ (events.stale => events'.stale)
<1>1. \/ events' = events
      \/ events' = [events EXCEPT !.commands = @ + 1]
      \/ events' = [events EXCEPT !.cuts = @ + 1]
      \/ \E b \in {OlderLands, Older("poll")} :
            \/ events' = [events EXCEPT !.commands = @ + 1, !.stale = @ \/ b]
            \/ events' = [events EXCEPT !.crashes = @ + 1, !.stale = @ \/ b]
            \/ events' = [events EXCEPT !.stale = @ \/ b]
  <2>1. CASE UNCHANGED upgradeVars
    BY <2>1 DEF upgradeVars
  <2>2. CASE \E op \in {"plan", "approve", "resume"} : Command(op)
    BY <2>2 DEF Command
  <2>3. CASE Cancel \/ Crash \/ WorkerExits \/ Disconnect
    BY <2>3 DEF Cancel, Crash, WorkerExits, Disconnect
  <2>4. CASE WorkSteps
    BY <2>4, WorkHistory
  <2>5. CASE PollSteps
    BY <2>5 DEF PollSteps, Poll, PollReconcile, PollConnect, PollSeed, PollLease, PollJob, PollSave, PollUnbound, PollRejected,
       PollFails, Kick
  <2>6. CASE CancelSteps
    BY <2>6, CancelHistory
  <2>7. CASE Process
    BY <2>7 DEF Process, Drained, DrainTimesOut, Restart, Boot, WorldReady
  <2>8. CASE \E o \in Ops : Applied(o) \/ Lost(o)
    BY <2>8 DEF Applied, Lost
  <2> QED
    BY <2>1, <2>2, <2>3, <2>4, <2>5, <2>6, <2>7, <2>8 DEF UpgradeNext
<1>2. Older("poll") \in BOOLEAN /\ OlderLands \in BOOLEAN
  BY DEF Older, OlderLands
<1>3. ASSUME NEW b \in BOOLEAN
      PROVE  \A e : \/ e = [events EXCEPT !.commands = @ + 1, !.stale = @ \/ b]
                   \/ e = [events EXCEPT !.crashes = @ + 1, !.stale = @ \/ b]
                   \/ e = [events EXCEPT !.stale = @ \/ b]
                   => e \in Histories /\ (events.stale => e.stale)
  <2> DEFINE s == events.stale \/ b
  <2>1. s \in BOOLEAN /\ (events.stale => s)
    BY DEF Histories
  <2>2. /\ [events EXCEPT !.commands = @ + 1, !.stale = @ \/ b] = [events EXCEPT !.commands = @ + 1, !.stale = s]
        /\ [events EXCEPT !.crashes = @ + 1, !.stale = @ \/ b] = [events EXCEPT !.crashes = @ + 1, !.stale = s]
        /\ [events EXCEPT !.stale = @ \/ b] = [events EXCEPT !.stale = s]
    BY DEF Histories
  <2> HIDE DEF s
  <2>3. ASSUME NEW h \in Histories, NEW t \in BOOLEAN
        PROVE  LET e == [h EXCEPT !.stale = t] IN e \in Histories /\ e.stale = t
    BY DEF Histories
  <2>4. [events EXCEPT !.commands = @ + 1] \in Histories /\ [events EXCEPT !.crashes = @ + 1] \in Histories
    BY DEF Histories
  <2>5. /\ [events EXCEPT !.commands = @ + 1, !.stale = s] = [[events EXCEPT !.commands = @ + 1] EXCEPT !.stale = s]
        /\ [events EXCEPT !.crashes = @ + 1, !.stale = s] = [[events EXCEPT !.crashes = @ + 1] EXCEPT !.stale = s]
    BY DEF Histories
  <2> QED
    BY <2>1, <2>2, <2>3, <2>4, <2>5
<1>4. /\ [events EXCEPT !.commands = @ + 1] \in Histories /\ [events EXCEPT !.cuts = @ + 1] \in Histories
      /\ [events EXCEPT !.commands = @ + 1].stale = events.stale /\ [events EXCEPT !.cuts = @ + 1].stale = events.stale
  BY DEF Histories
<1> QED
  BY <1>1, <1>2, <1>3, <1>4

\* A step that leaves the history clean leaves the world whole, and follows the declarations and the verdict before it.
LEMMA WholeKeeps ==
    ASSUME UpInv, WholeInv, events \in Histories, [UpgradeNext]_upgradeVars, ~events'.stale
    PROVE  WholeInv' /\ (Outcome \/ UNCHANGED upgradeVars \/ \E o \in Ops : Applied(o) \/ Lost(o))
<1>1. CASE UNCHANGED upgradeVars
  BY <1>1 DEF upgradeVars, WholeInv
<1>2. CASE \E o \in Ops : Applied(o) \/ Lost(o)
  BY <1>2, MessagesHold
<1>3. CASE \E op \in {"plan", "approve", "resume"} : Command(op)
  BY <1>3, CommandHolds DEF Outcome
<1>4. CASE WorkSteps
  BY <1>4, WorkStepsHold DEF Outcome
<1>5. CASE PollSteps
  BY <1>5, PollStepsHold DEF Outcome
<1>6. CASE CancelSteps
  BY <1>6, CancelStepsHold DEF Outcome
<1>7. CASE Cancel \/ WorkerExits \/ Disconnect
  BY <1>7, CleanLandings, CancelHoldsBack, CutsHold DEF Outcome
<1>8. CASE Crash \/ Process
  <2>1. CASE Crash \/ Restart
    BY <2>1, CleanLandings, DiesHolds DEF Outcome, Crash, Restart
  <2> QED
    BY <1>8, <2>1, DrainHolds, BootHolds DEF Outcome, Process
<1> QED
  BY <1>1, <1>2, <1>3, <1>4, <1>5, <1>6, <1>7, <1>8 DEF UpgradeNext

\* Both invariants of the upgrade together, the second one until the poll puts an older job back.
UpWhole == UpInv /\ events \in Histories /\ (events.stale \/ WholeInv)

LEMMA WholeStep ==
    ASSUME UpWhole, [UpgradeNext]_upgradeVars
    PROVE  UpWhole' /\ (events'.stale \/ (WholeInv /\ WholeInv' /\ (Outcome \/ UNCHANGED upgradeVars \/ \E o \in Ops : Applied(o) \/ Lost(o))))
<1>1. UpInv' /\ events' \in Histories /\ (events.stale => events'.stale)
  BY UpgradeKeeps, HistoryKept DEF UpWhole
<1>2. CASE events'.stale
  BY <1>1, <1>2 DEF UpWhole
<1>3. CASE ~events'.stale
  <2>1. UpInv /\ WholeInv /\ events \in Histories
    BY <1>1, <1>3 DEF UpWhole
  <2>2. WholeInv' /\ (Outcome \/ UNCHANGED upgradeVars \/ \E o \in Ops : Applied(o) \/ Lost(o))
    BY <1>3, <2>1, WholeKeeps
  <2> QED
    BY <1>1, <2>1, <2>2 DEF UpWhole
<1> QED
  BY <1>2, <1>3

THEOREM UpgradeWholeness == UpgradeSpec => []UpWhole
<1>1. UpgradeInit => UpWhole
  BY UpgradeStarts, WholeStarts DEF UpWhole
<1>2. UpWhole /\ [UpgradeNext]_upgradeVars => UpWhole'
  BY WholeStep
<1> QED
  BY <1>1, <1>2, PTL DEF UpgradeSpec

\* From the first native write on, whatever is cancelled, retried, cut or restarted, the previous files are never
\* put back under data already migrated, unless the poll has put an older job back.
THEOREM FilesStay == UpgradeSpec => []FilesStayForWrites
<1>1. UpWhole => FilesStayForWrites
  <2>1. HAVE UpWhole
  <2>2. CASE events.stale
    BY <2>2 DEF FilesStayForWrites
  <2>3. CASE ~events.stale
    <3>1. Sound(durable, world)
      BY <2>1, <2>3 DEF UpWhole, WholeInv, Whole
    <3> QED
      BY <3>1 DEF Sound, MetaFits, FilesAre, Sent, FilesStayForWrites, Written
  <2> QED
    BY <2>2, <2>3
<1> QED
  BY <1>1, UpgradeWholeness, PTL

\* Core releases the world only when every operation is in it under the new files, or when nothing was sent to it
\* and the previous files are back; and never over a torn ledger of receipts; unless the poll has put an older job back.
THEOREM WholeWorldsAreReleased == UpgradeSpec => []OnlyWholeWorldsAreReleased
<1>1. UpWhole => OnlyWholeWorldsAreReleased
  <2>1. HAVE UpWhole
  <2>2. CASE events.stale
    BY <2>2 DEF OnlyWholeWorldsAreReleased
  <2>3. CASE ~events.stale
    <3>1. Frees(durable.mode) => WholeWorld(durable, world) /\ ~durable.torn
      BY <2>1, <2>3 DEF UpWhole, WholeInv, Whole, Releases, Closed
    <3> QED
      BY <3>1 DEF Frees, Released, WholeWorld, FilesAre, Sent, OnlyWholeWorldsAreReleased, Written
  <2> QED
    BY <2>2, <2>3
<1> QED
  BY <1>1, UpgradeWholeness, PTL

\* What the ledger sees of a step.
LEMMA LedgerSteps ==
    ASSUME UpInv, WholeInv, UpInv', WholeInv', Outcome \/ UNCHANGED upgradeVars \/ \E o \in Ops : Applied(o) \/ Lost(o)
    PROVE  [Ledger!Next]_(Ledger!vars)
<1> DEFINE declared == Declared(durable)
           verdict == IF ~Released THEN "none" ELSE IF durable.job.phase = "completed" THEN "done" ELSE "undone"
<1>1. \A d : Declared(d) \subseteq Ops
  BY DEF Declared, DeclaredIn
<1>2. Released <=> Frees(durable.mode)
  BY DEF Released, Frees
<1>3. (Released <=> Frees(durable.mode))'
  BY DEF Released, Frees
<1>4. ASSUME durable' = durable, world'.applied = world.applied
      PROVE  UNCHANGED Ledger!vars
  BY <1>4 DEF Ledger!vars, Released
<1>5. ASSUME NEW o \in Ops, Applied(o)
      PROVE  Ledger!Apply(o)
  <2>1. durable' = durable /\ world'.applied = world.applied \cup {o} /\ o \in Sent(world)
    BY <1>5, WorkTypes DEF Applied, Worlds, Sent
  <2>2. o \in DeclaredIn(durable) /\ durable.job.possibleWrite
    BY <2>1 DEF WholeInv, Whole, Sound
  <2> QED
    BY <2>1, <2>2 DEF Ledger!Apply, DeclaredIn, Released
<1>6. CASE Outcome
  <2>1. world'.applied = world.applied /\ declared \subseteq declared'
        /\ (Frees(durable.mode) \/ Frees(durable'.mode) => declared' = declared)
        /\ (Frees(durable.mode) /\ Frees(durable'.mode) => (durable.job.phase = "completed" <=> durable'.job.phase = "completed"))
    BY <1>6 DEF Outcome, Follows
  <2>2. declared' \in SUBSET Ops /\ declared' = declared \cup declared'
    BY <1>1, <2>1
  <2>3. CASE ~Released /\ ~Released'
    <3>1. verdict = "none" /\ verdict' = "none"
      BY <2>3
    <3>2. PICK S \in SUBSET Ops : declared' = declared \cup S
      BY <2>2
    <3>3. Ledger!Declare(S)
      BY <2>1, <3>1, <3>2 DEF Ledger!Declare, Declared, DeclaredIn
    <3> QED
      BY <3>3 DEF Ledger!Next
  <2>4. CASE Released /\ Released'
    <3>1. verdict' = verdict /\ declared' = declared
      BY <1>2, <1>3, <2>1, <2>4
    <3> QED
      BY <2>1, <3>1 DEF Ledger!vars, Declared, DeclaredIn
  <2>5. CASE Released /\ ~Released'
    <3>1. verdict # "none" /\ verdict' = "none" /\ declared' = declared
      BY <1>2, <2>1, <2>5
    <3>2. Ledger!Withdraw
      BY <2>1, <3>1 DEF Ledger!Withdraw, Declared, DeclaredIn
    <3> QED
      BY <3>2 DEF Ledger!Next
  <2>6. CASE ~Released /\ Released'
    <3>1. verdict = "none" /\ declared' = declared
      BY <1>3, <2>1, <2>6
    <3>2. (Sound(durable, world) /\ WholeWorld(durable, world))'
      BY <1>3, <2>6 DEF WholeInv, Whole, Releases, Closed
    <3>3. CASE durable'.job.phase = "completed"
      <4>1. world'.applied = Ops /\ verdict' = "done"
        BY <2>6, <3>2, <3>3 DEF Sound, MetaFits
      <4>2. Ledger!Finish
        BY <2>1, <3>1, <4>1 DEF Ledger!Finish, Declared, DeclaredIn
      <4> QED
        BY <4>2 DEF Ledger!Next
    <3>4. CASE durable'.job.phase # "completed"
      <4>1. verdict' = "undone"
        BY <2>6, <3>4
      <4>2. ~durable'.job.possibleWrite
        BY <3>2, <3>4 DEF Sound, MetaFits, WholeWorld, FilesAre
      <4>3. declared' = {}
        BY <4>2 DEF Declared
      <4>4. Ledger!Undo
        BY <2>1, <3>1, <4>1, <4>3 DEF Ledger!Undo, Declared, DeclaredIn
      <4> QED
        BY <4>4 DEF Ledger!Next
    <3> QED
      BY <3>3, <3>4
  <2> QED
    BY <2>3, <2>4, <2>5, <2>6
<1>7. CASE UNCHANGED upgradeVars
  BY <1>4, <1>7 DEF upgradeVars
<1>8. CASE \E o \in Ops : Lost(o)
  BY <1>4, <1>8, WorkTypes DEF Lost, Worlds
<1>9. CASE \E o \in Ops : Applied(o)
  BY <1>5, <1>9 DEF Ledger!Next
<1> QED
  BY <1>6, <1>7, <1>8, <1>9

\* The upgrade keeps the promise of UpgradeLedger, step by step until the poll puts an older job back: a write is
\* declared before Foundry can have it, a declaration is never taken back, and players come back to the whole
\* upgrade or to a world nothing was declared for.
THEOREM LedgerIsKept == UpgradeSpec => ImplementsLedger
<1>1. UpgradeInit => Ledger!Init
  BY DEF UpgradeInit, Ledger!Init, Released, NoMeta, EnteredMode
<1>2. UpWhole /\ UpWhole' /\ [UpgradeNext]_upgradeVars => [events.stale' \/ Ledger!Next]_(Ledger!vars)
  <2>1. HAVE UpWhole /\ UpWhole' /\ [UpgradeNext]_upgradeVars
  <2>2. events.stale' \/ [Ledger!Next]_(Ledger!vars)
    BY <2>1, WholeStep, LedgerSteps DEF UpWhole
  <2> QED
    BY <2>2
<1> QED
  BY <1>1, <1>2, UpgradeWholeness, PTL DEF UpgradeSpec, ImplementsLedger

====
