------------------------- MODULE EncounterLifecycle -------------------------
(***************************************************************************)
(* The documents of managed encounters (CombatManagerService.ts,           *)
(* EncounterCommandGuard.ts): the Combat and its flag, the Folder and the  *)
(* Actors copied into it from compendiums, from the creation of an         *)
(* encounter to the cleanup that deletes what it owns.                     *)
(*                                                                         *)
(* A command is a chain of native writes without a transaction.  The       *)
(* encounter's lock lets one command at a time change an encounter, but    *)
(* its creation does not hold it.  Any write may be refused, or land       *)
(* without an answer, and the server may restart between any two: lock,    *)
(* names taken and commands are forgotten, the documents stay.             *)
(* A flag is read when a command begins and written back whole; Foundry    *)
(* merges it into the old one.  The stores hold what Foundry holds (see    *)
(* DocumentMirror), and nobody touches these documents outside the server. *)
(***************************************************************************)
EXTENDS Integers, FiniteSets

CONSTANTS
    E,           \* encounters, 1..E in the order of their creation
    Labels,      \* normalized names
    Copies,      \* ids of copied Actors
    Requests,    \* commands under way at once
    MaxFaults    \* writes refused or unanswered, restarts

ASSUME BoundsAreNats == {E, MaxFaults} \subseteq Nat
ASSUME CopiesFinite  == IsFiniteSet(Copies)
ASSUME NoLabelApart  == "none" \notin Labels

VARIABLES
    combat,     \* the Combat documents: their flags
    folders,    \* the encounters that have an Actor Folder with their marker
    home,       \* where a copied Actor is: its encounter
    roots,      \* SheetDelver Actor roots
    req,        \* the commands under way
    creating,   \* the names being taken: creatingNames
    early,      \* the encounters that were completed or deleted while they were being created
    faults      \* faults so far

docs   == <<combat, folders, home, roots>>
vars   == <<docs, req, creating, early, faults>>

Encounters == 1..E
Unborn     == 0
Dead       == -1
NoLabel    == "none"

Absent == [status |-> "absent", label |-> NoLabel, keep |-> FALSE, folder |-> FALSE, copies |-> {}, del |-> FALSE]
There(e) == combat[e].status \notin {"absent", "deleted"}

\* e: the encounter; label: the name it takes; flag: the flag it read; copy: the copied Actor;
\* left: Actors to be copied, or deleted.
Free == [kind |-> "none", stage |-> "idle", e |-> 0, label |-> NoLabel, flag |-> Absent, copy |-> Unborn,
         many |-> 0, doomed |-> {}]

Init ==
    /\ combat = [e \in Encounters |-> Absent]
    /\ folders = {}
    /\ home = [c \in Copies |-> Unborn]
    /\ roots = 0
    /\ req = [r \in Requests |-> Free]
    /\ creating = {}
    /\ early = {}
    /\ faults = 0

-----------------------------------------------------------------------------
(* Writes                                                                  *)

\* The Actors in an encounter's Folder.
Inside(e) == {c \in Copies : home[c] = e}

\* Foundry merges a flag: what it does not have stays.
Merge(e, flag) == [flag EXCEPT !.del = @ \/ combat[e].del]

\* The documents a write leaves.
SaveFlag(e, flag)  == /\ combat' = [combat EXCEPT ![e] = Merge(e, flag)]
                      /\ UNCHANGED <<folders, home, roots>>
NewCombat(e, flag) == combat' = [combat EXCEPT ![e] = flag] /\ UNCHANGED <<folders, home, roots>>
DropCombat(e)      == combat' = [combat EXCEPT ![e].status = "deleted"] /\ UNCHANGED <<folders, home, roots>>
NewFolder(e)       == folders' = folders \union {e} /\ UNCHANGED <<combat, home, roots>>
DropFolder(e)      == folders' = folders \ {e} /\ UNCHANGED <<combat, home, roots>>
NewCopy(c, e)      == home' = [home EXCEPT ![c] = e] /\ UNCHANGED <<combat, folders, roots>>
DropCopy(c)        == home' = [home EXCEPT ![c] = Dead] /\ UNCHANGED <<combat, folders, roots>>
NewRoot            == roots' = roots + 1 /\ UNCHANGED <<combat, folders, home>>
Nothing            == UNCHANGED docs

\* A write is answered, or it is refused or lands without an answer: it throws.
Write(effect, answered, thrown) ==
    \/ effect /\ answered /\ UNCHANGED faults
    \/ /\ faults < MaxFaults /\ faults' = faults + 1
       /\ effect \/ Nothing
       /\ thrown

-----------------------------------------------------------------------------
(* Commands                                                                *)

\* withEncounterLock
Locked(e) == \E r \in Requests : req[r].kind \notin {"none", "create"} /\ req[r].e = e
Creates(e) == \E r \in Requests : req[r].kind = "create" /\ req[r].e = e

Becomes(r, m)  == req' = [req EXCEPT ![r] = m] /\ UNCHANGED <<creating, early>>
Goes(r, stage) == Becomes(r, [req[r] EXCEPT !.stage = stage])

\* A command ends, well or not, and gives back the name it was taking.
Finish(R) == /\ req' = [r \in Requests |-> IF r \in R THEN Free ELSE req[r]]
             /\ creating' = creating \ {req[r].label : r \in R}
             /\ UNCHANGED early
Ends(r) == Finish({r})

\* The lock is taken and the flag read; nothing is written yet.
Begins(r, m) ==
    /\ req[r] = Free /\ ~Locked(m.e)
    /\ req' = [req EXCEPT ![r] = [m EXCEPT !.flag = combat[m.e]]]
    /\ UNCHANGED <<docs, faults>>

Active(e) == combat[e].status = "active"

\* No encounter but e has the name, and no command is giving it to one.
\* Fault: names that commands are taking are not looked at.
FreeNow(l, e) == \A f \in Encounters \ {e} : There(f) => combat[f].label # l
FreeName(l, e) == l \notin creating /\ \A f \in Encounters \ {e} : There(f) => combat[f].label # l

-----------------------------------------------------------------------------
(* create                                                                  *)

\* Commands that share the creation of the root.
Sharing == {r \in Requests : req[r].stage \in {"root", "joined"}}

Create(r) ==
    /\ req[r] = Free
    /\ \E l \in Labels, keep \in BOOLEAN :
        /\ FreeName(l, 0)
        /\ Cardinality({e \in Encounters : combat[e] = Absent}) > Cardinality({q \in Requests : req[q].kind = "create" /\ req[q].e = 0})
        /\ creating' = creating \union {l}
        /\ req' = [req EXCEPT ![r] = [Free EXCEPT !.kind = "create", !.label = l,
                      !.flag = [Absent EXCEPT !.status = "provisioning", !.label = l, !.keep = keep],
                      !.stage = IF Sharing # {} THEN "joined" ELSE IF roots = 0 THEN "root" ELSE "combat"]]
    /\ UNCHANGED <<docs, early, faults>>

CreateRoot(r) ==
    /\ req[r].stage = "root"
    /\ Write(NewRoot,
             /\ req' = [q \in Requests |-> IF q \in Sharing THEN [req[q] EXCEPT !.stage = "combat"] ELSE req[q]]
             /\ UNCHANGED <<creating, early>>,
             Finish(Sharing))

CreateCombat(r) ==
    /\ req[r].stage = "combat"
    /\ \E e \in Encounters :
        /\ combat[e] = Absent /\ \A f \in 1..(e - 1) : combat[f] # Absent
        /\ Write(NewCombat(e, req[r].flag), Becomes(r, [req[r] EXCEPT !.e = e, !.stage = "folder"]), Ends(r))

CreateFolder(r) ==
    /\ req[r].stage = "folder"
    /\ Write(NewFolder(req[r].e), Goes(r, "open"), Ends(r))

\* updateFlag throws when the Combat is gone.
CreateOpen(r) ==
    /\ req[r].stage = "open"
    /\ IF There(req[r].e)
       THEN Write(SaveFlag(req[r].e, [req[r].flag EXCEPT !.status = "active", !.folder = TRUE]), Ends(r), Ends(r))
       ELSE Ends(r) /\ Nothing /\ UNCHANGED faults

-----------------------------------------------------------------------------
(* rename, setTurnPolicy, setPlayerActions                                 *)

Rename(r) ==
    \E e \in Encounters, l \in Labels :
        /\ Active(e) /\ combat[e].folder /\ e \in folders
        /\ FreeName(l, e)
        /\ Begins(r, [Free EXCEPT !.kind = "rename", !.e = e, !.label = l, !.stage = "nameFolder"])
        /\ creating' = creating \union {l}
        /\ UNCHANGED early

NameFolder(r) == /\ req[r].stage = "nameFolder"
                 /\ Write(Nothing, Goes(r, "nameFlag"), Ends(r))

NameFlag(r) == /\ req[r].stage = "nameFlag"
               /\ Write(SaveFlag(req[r].e, [req[r].flag EXCEPT !.label = req[r].label]), Ends(r), Ends(r))

SetPolicy(r) ==
    \E e \in Encounters :
        /\ Active(e)
        /\ Begins(r, [Free EXCEPT !.kind = "policy", !.e = e, !.stage = "policy"])
        /\ UNCHANGED <<creating, early>>

SavePolicy(r) == /\ req[r].stage = "policy"
                 /\ Write(SaveFlag(req[r].e, req[r].flag), Ends(r), Ends(r))

-----------------------------------------------------------------------------
(* addPackActor                                                            *)

AddPackActor(r) ==
    \E e \in Encounters, quantity \in 1..Cardinality(Copies) :
        /\ Active(e) /\ combat[e].folder
        /\ Begins(r, [Free EXCEPT !.kind = "add", !.e = e, !.many = quantity, !.stage = "copy"])
        /\ UNCHANGED <<creating, early>>

\* Foundry's ids run out with Copies: then it refuses.
CreateActor(r) ==
    /\ req[r].stage = "copy"
    /\ \/ \E c \in Copies :
            /\ home[c] = Unborn
            /\ Write(NewCopy(c, req[r].e), Becomes(r, [req[r] EXCEPT !.copy = c, !.stage = "record"]), Ends(r))
       \/ /\ \A c \in Copies : home[c] # Unborn
          /\ Nothing /\ Ends(r) /\ UNCHANGED faults

RecordCopy(r) ==
    /\ req[r].stage = "record"
    /\ LET flag == [req[r].flag EXCEPT !.copies = @ \union {req[r].copy}] IN
       Write(SaveFlag(req[r].e, flag), Becomes(r, [req[r] EXCEPT !.flag = flag, !.stage = "row"]), Goes(r, "undo"))

RemoveCopy(r) ==
    /\ req[r].stage = "undo"
    /\ Write(DropCopy(req[r].copy), Ends(r), Ends(r))

\* The copy's Combatant, which is EncounterTurns' subject.
CreateRow(r) ==
    /\ req[r].stage = "row"
    /\ Write(Nothing,
             IF req[r].many = 1 THEN Ends(r) ELSE Becomes(r, [req[r] EXCEPT !.many = @ - 1, !.stage = "copy"]),
             Ends(r))

-----------------------------------------------------------------------------
(* complete and destroy                                                    *)

\* What follows the deletion's mark: the retention as history, or the cleanup, of the Folder too
\* that the flag does not name but whose marker names the encounter.
\* Fault: only the Folder that the flag names is cleaned up.
ProceedsByFlag(m) == IF m.flag.keep /\ m.flag.status = "active" THEN [m EXCEPT !.stage = "retain"]
                     ELSE [m EXCEPT !.stage = "clean", !.flag.status = "cleaning"]
Proceeds(m) == IF m.flag.keep /\ m.flag.status = "active" THEN [m EXCEPT !.stage = "retain"]
               ELSE [m EXCEPT !.stage = "clean", !.flag.status = "cleaning", !.flag.folder = @ \/ m.e \in folders]

\* The flag with the deletion's mark.
\* Fault: the mark leaves the status.
MarkOnly(flag) == [flag EXCEPT !.del = TRUE]
Marked(flag) == [flag EXCEPT !.status = "cleaning", !.del = TRUE]

Complete(r) ==
    \E e \in Encounters, force \in BOOLEAN :
        LET m == [Free EXCEPT !.kind = "complete", !.e = e, !.flag = combat[e]] IN
        /\ There(e)
        /\ req[r] = Free /\ ~Locked(e)
        /\ \/ /\ force /\ ~combat[e].del
              /\ req' = [req EXCEPT ![r] = [m EXCEPT !.flag = Marked(@), !.stage = "mark"]]
           \/ /\ force = combat[e].del
              /\ combat[e].status # "completed"
              /\ req' = [req EXCEPT ![r] = Proceeds(m)]
        /\ early' = IF Creates(e) THEN early \union {e} ELSE early
        /\ UNCHANGED <<docs, creating, faults>>

Mark(r) ==
    /\ req[r].stage = "mark"
    /\ Write(SaveFlag(req[r].e, req[r].flag), Becomes(r, Proceeds(req[r])), Ends(r))

Retain(r) ==
    /\ req[r].stage = "retain"
    /\ Write(SaveFlag(req[r].e, [req[r].flag EXCEPT !.status = "completed"]), Ends(r), Ends(r))

\* The writes left when `home` is h, or the refusal of a Folder that is not empty.
Sweeps(m, h) ==
    IF \E c \in m.doomed : h[c] = m.e THEN [m EXCEPT !.stage = "purge"]
    ELSE IF m.flag.folder /\ m.e \in folders
         THEN IF \E c \in Copies : h[c] = m.e THEN Free ELSE [m EXCEPT !.stage = "dropFolder"]
         ELSE [m EXCEPT !.stage = "dropCombat"]

\* The Folder holds no Actor that the flag does not list, and the listed ones are in it.
Owned(m) == /\ m.flag.folder => Inside(m.e) \subseteq m.flag.copies
            /\ (m.flag.folder /\ m.e \in folders) \/ \A c \in m.flag.copies : home[c] # m.e

Clean(r) ==
    /\ req[r].stage = "clean"
    /\ Write(SaveFlag(req[r].e, req[r].flag),
             IF Owned(req[r]) THEN Becomes(r, Sweeps([req[r] EXCEPT !.doomed = @ \union req[r].flag.copies], home))
             ELSE Ends(r),
             Ends(r))

DeleteActor(r) ==
    /\ req[r].stage = "purge"
    /\ \E c \in req[r].doomed :
        /\ home[c] = req[r].e
        /\ Write(DropCopy(c), Becomes(r, Sweeps(req[r], home')), Ends(r))

DeleteFolder(r) ==
    /\ req[r].stage = "dropFolder"
    /\ Write(DropFolder(req[r].e), Goes(r, "dropCombat"), Ends(r))

DeleteCombat(r) ==
    /\ req[r].stage = "dropCombat"
    /\ Write(DropCombat(req[r].e), Ends(r), Ends(r))

-----------------------------------------------------------------------------

\* The server restarts.
Restart ==
    /\ \E r \in Requests : req[r] # Free
    /\ faults < MaxFaults /\ faults' = faults + 1
    /\ req' = [r \in Requests |-> Free]
    /\ creating' = {}
    /\ UNCHANGED <<docs, early>>

Next ==
    \/ \E r \in Requests :
        \/ Create(r) \/ CreateRoot(r) \/ CreateCombat(r) \/ CreateFolder(r) \/ CreateOpen(r)
        \/ Rename(r) \/ NameFolder(r) \/ NameFlag(r) \/ SetPolicy(r) \/ SavePolicy(r)
        \/ AddPackActor(r) \/ CreateActor(r) \/ RecordCopy(r) \/ RemoveCopy(r) \/ CreateRow(r)
        \/ Complete(r) \/ Mark(r) \/ Retain(r) \/ Clean(r)
        \/ DeleteActor(r) \/ DeleteFolder(r) \/ DeleteCombat(r)
    \/ Restart

Spec == Init /\ [][Next]_vars

-----------------------------------------------------------------------------
(* Properties                                                              *)

Flags == [status: {"absent", "provisioning", "active", "cleaning", "completed", "deleted"},
          label: Labels \union {NoLabel}, keep: BOOLEAN, folder: BOOLEAN, copies: SUBSET Copies, del: BOOLEAN]

\* The documents and the commands have their types.
TypeOK ==
    /\ combat \in [Encounters -> Flags]
    /\ folders \subseteq Encounters
    /\ home \in [Copies -> Encounters \union {Unborn, Dead}]
    /\ roots \in Nat
    /\ req \in [Requests -> [kind: {"none", "create", "rename", "policy", "add", "complete"},
                 stage: {"idle", "root", "joined", "combat", "folder", "open", "nameFolder", "nameFlag", "policy",
                         "copy", "record", "undo", "row", "mark", "retain", "clean", "purge", "dropFolder", "dropCombat"},
                 e: Encounters \union {0}, label: Labels \union {NoLabel}, flag: Flags,
                 copy: Copies \union {Unborn}, many: Nat, doomed: SUBSET Copies]]
    /\ creating \subseteq Labels
    /\ early \subseteq Encounters
    /\ faults \in 0..MaxFaults

\* When the cleanup deletes a Combat, none of its copied Actors is left, and its Folder neither
\* unless it was being created when the cleanup began: whatever was refused, unanswered or cut
\* off before, in whatever command.  (complete, addPackActor, create)
NothingOutlivesTheCombat ==
    \A e \in Encounters : combat[e].status = "deleted" =>
        Inside(e) = {} /\ (e \in folders => e \in early)

\* Once the deletion of an encounter has been asked for and stored, the encounter is neither
\* active nor history again ("Interrupted attempts cannot later fall through the normal retention
\* path", CombatManagerService.ts:1053), unless it was being created at the time.  (complete,
\* destroy, updateFlag)
DeletionIsNeverForgotten ==
    \A e \in Encounters \ early : combat[e].del => combat[e].status \in {"cleaning", "deleted"}

\* No two encounters have the same name, whatever creations and renames run at once, fail or are
\* cut off.  (create, rename, creatingNames)
NamesStayUnique ==
    \A e, f \in Encounters : e # f /\ There(e) /\ There(f) => combat[e].label # combat[f].label
=============================================================================
