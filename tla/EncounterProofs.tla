--------------------------- MODULE EncounterProofs ---------------------------
(***************************************************************************)
(* The safety of managed encounters for any number of encounters, names,   *)
(* copied Actors, combatants, scores, rounds, commands and faults: first   *)
(* EncounterLifecycle, then EncounterTurns.                                *)
(*                                                                         *)
(* Lifecycle (IInv).                                                       *)
(* A command that holds an encounter's lock finds the flag as it read it,  *)
(* but for what the encounter's creation, which holds no lock, does to it  *)
(* meanwhile (Holding, Making); only a deletion overlaps a creation, and   *)
(* then the encounter is early.  A name being taken is in creatingNames    *)
(* and nobody else has it (Reserved, Apart).  A copied Actor has a Folder  *)
(* that the flag names (Homes), and the cleanup's later steps know what is *)
(* left in it (Sweeping).                                                  *)
(*                                                                         *)
(* Turns (TurnInv).                                                        *)
(* Whoever is due comes after the turn in the order of the rows, or after  *)
(* the place of the combatant that is paused (DocFits): one row that       *)
(* changes moves another by one place at most (OneRowMoves), and the turn  *)
(* goes to the first row of those that may have it (FirstRow), so nobody   *)
(* due is passed over.  At each stage a command knows whom it must give    *)
(* the turn back to and that it can (Fits).                                *)
(***************************************************************************)
EXTENDS EncounterLifecycle, EncounterTurns, FiniteSetTheorems, TLAPS

Holds(r) == req[r].kind \in {"rename", "policy", "add", "complete"}
Makes(r) == req[r].kind = "create" /\ req[r].e # 0

\* The commands look as the code that writes them leaves them.
Shaped(m) ==
    /\ m.kind = "none" => m = Free
    /\ m.kind = "create" => \/ m.stage \in {"root", "joined", "combat"} /\ m.e = 0
                            \/ m.stage \in {"folder", "open"} /\ m.e \in Encounters
    /\ m.kind = "create" => m.flag.status = "provisioning"
    /\ m.kind \in {"rename", "policy", "add"} => m.flag.status = "active"
    /\ m.kind = "rename" => m.stage \in {"nameFolder", "nameFlag"}
    /\ m.kind = "policy" => m.stage = "policy"
    /\ m.kind = "add" => m.stage \in {"copy", "record", "undo", "row"} /\ m.many > 0
    /\ m.kind = "complete" => m.stage \in {"mark", "retain", "clean", "purge", "dropFolder", "dropCombat"}
    /\ m.kind \notin {"none", "create"} => m.e \in Encounters
    /\ m.kind \in {"create", "rename"} => m.label \in Labels
    /\ m.kind \notin {"create", "rename"} => m.label = NoLabel
    /\ m.kind = "create" => m.flag.label = m.label /\ ~m.flag.del
    /\ m.stage \in {"mark", "clean"} => m.flag.status = "cleaning"
    /\ m.stage \in {"record", "undo"} => m.copy \in Copies

Shapes == \A r \in Requests : Shaped(req[r])

\* No two commands hold one lock, make one encounter or take one name.
Apart ==
    \A r, q \in Requests : r # q =>
        /\ Holds(r) /\ Holds(q) => req[r].e # req[q].e
        /\ Makes(r) /\ Makes(q) => req[r].e # req[q].e
        /\ req[r].label = req[q].label => req[r].label = NoLabel

\* A name being taken is nobody else's.
Reserved ==
    \A r \in Requests : req[r].label # NoLabel =>
        /\ req[r].label \in creating
        /\ \A f \in Encounters \ {req[r].e} : There(f) => combat[f].label # req[r].label

\* Behind a lock the encounter is there, under the name the flag says; one that adds Actors has a Folder.
Holding ==
    \A r \in Requests : Holds(r) =>
        /\ There(req[r].e)
        /\ req[r].flag.label = combat[req[r].e].label
        /\ req[r].kind = "add" => req[r].flag.folder /\ combat[req[r].e].folder

\* What is not a deletion met no deletion.
Undeleted ==
    \A r \in Requests : Holds(r) /\ (req[r].kind # "complete" \/ req[r].stage = "retain") /\ req[r].e \notin early =>
        ~combat[req[r].e].del /\ ~req[r].flag.del

\* An encounter being created is not open yet, and untouched unless it is early.
Making ==
    \A r \in Requests : Makes(r) =>
        /\ combat[req[r].e].label = req[r].label
        /\ combat[req[r].e].status \in {"provisioning", "cleaning", "deleted"}
        /\ req[r].e \notin early => combat[req[r].e].status = "provisioning" /\ ~combat[req[r].e].del
        /\ \A q \in Requests : Holds(q) /\ req[q].e = req[r].e =>
              req[q].kind = "complete" /\ req[q].stage # "retain" /\ req[r].e \in early

\* A copied Actor's encounter is there and knows its Folder.
Homes ==
    \A c \in Copies : home[c] \in Encounters =>
        /\ There(home[c])
        /\ combat[home[c]].folder
        /\ \A r \in Requests : Holds(r) /\ req[r].e = home[c] => req[r].flag.folder

\* What the cleanup knows of the Folder at its later steps.
Sweeping ==
    \A r \in Requests : req[r].kind = "complete" =>
        LET m == req[r] IN
        /\ m.stage \in {"clean", "purge", "dropFolder"} => m.flag.folder \/ m.e \notin folders \/ m.e \in early
        /\ m.stage = "purge" => Inside(m.e) \subseteq m.doomed
        /\ m.stage \in {"dropFolder", "dropCombat"} => Inside(m.e) = {}
        /\ m.stage = "dropCombat" => m.e \notin folders \/ m.e \in early

IInv ==
    /\ TypeOK
    /\ Shapes /\ Apart /\ Reserved /\ Holding /\ Undeleted /\ Making /\ Homes /\ Sweeping
    /\ NamesStayUnique /\ DeletionIsNeverForgotten /\ NothingOutlivesTheCombat

Commands ==
    [kind: {"none", "create", "rename", "policy", "add", "complete"},
     stage: {"idle", "root", "joined", "combat", "folder", "open", "nameFolder", "nameFlag", "policy",
             "copy", "record", "undo", "row", "mark", "retain", "clean", "purge", "dropFolder", "dropCombat"},
     e: Encounters \union {0}, label: Labels \union {NoLabel}, flag: Flags,
     copy: Copies \union {Unborn}, many: Nat, doomed: SUBSET Copies]

\* A step makes at most one fault, and not more than there may be.
LEMMA FaultsCount ==
    ASSUME TypeOK, faults' = faults \/ (faults < MaxFaults /\ faults' = faults + 1)
    PROVE  faults' \in 0..MaxFaults
<1>1. MaxFaults \in Nat
  BY BoundsAreNats
<1> QED
  BY <1>1 DEF TypeOK

-----------------------------------------------------------------------------
(* Steps of a command under way.                                           *)

\* Command r becomes m: it goes on under its name, with an encounter that is its own or is new,
\* or it ends and gives the name back.
Steps(r, m) ==
    /\ req' = [req EXCEPT ![r] = m]
    /\ early' = early
    /\ creating' = creating \/ (m = Free /\ creating' = creating \ {req[r].label})
    /\ m \in Commands /\ Shaped(m)
    /\ m = Free \/ (m.kind = req[r].kind /\ m.label = req[r].label)
    /\ m = Free \/ m.e = req[r].e \/ (m.kind = "create" /\ combat[m.e] = Absent)

\* It goes on with its encounter.
Turns(r, m) == Steps(r, m) /\ (m = Free \/ m.e = req[r].e)

\* A free command has a command's type and shape, and takes no name.
LEMMA FreeIsShaped == Free \in Commands /\ Shaped(Free) /\ Free.label = NoLabel /\ Free.kind = "none" /\ Free.e = 0
BY DEF Free, Absent, Commands, Shaped, Flags, Encounters, Unborn, NoLabel

\* The end of a command is such a step.
LEMMA EndIsTurn ==
    ASSUME IInv, NEW r \in Requests, Ends(r)
    PROVE  Turns(r, Free)
<1>1. req \in [Requests -> Commands]
  BY DEF IInv, TypeOK, Commands
<1>2. {req[q].label : q \in {r}} = {req[r].label}
  OBVIOUS
<1>3. req' = [req EXCEPT ![r] = Free]
  BY <1>1 DEF Ends, Finish
<1> QED
  BY <1>2, <1>3, FreeIsShaped DEF Ends, Finish, Turns, Steps

\* What does not depend on the documents survives every step of a command.
LEMMA RequestsStep ==
    ASSUME IInv, NEW r \in Requests, NEW m, Steps(r, m)
    PROVE  /\ req' \in [Requests -> Commands] /\ creating' \subseteq Labels /\ early' \subseteq Encounters
           /\ \A q \in Requests : req'[q] = IF q = r THEN m ELSE req[q]
           /\ Shapes'
           /\ Apart'
           /\ \A q \in Requests : req'[q].label # NoLabel => req'[q].label \in creating'
<1>1. req \in [Requests -> Commands] /\ creating \subseteq Labels /\ early \subseteq Encounters
  BY DEF IInv, TypeOK, Commands
<1>2. req' \in [Requests -> Commands] /\ creating' \subseteq Labels /\ early' \subseteq Encounters
  BY <1>1 DEF Steps
<1>3. \A q \in Requests : req'[q] = IF q = r THEN m ELSE req[q]
  BY <1>1 DEF Steps
<1>4. Shapes'
  BY <1>3 DEF IInv, Shapes, Steps, Shaped
<1>5. Apart'
  <2>1. /\ m = Free \/ (m.kind = req[r].kind /\ m.label = req[r].label)
        /\ m = Free \/ m.e = req[r].e \/ (m.kind = "create" /\ combat[m.e] = Absent)
    BY DEF Steps
  <2>2. Apart
    BY DEF IInv
  <2>3. \A q \in Requests : Holds(q) \/ Makes(q) => combat[req[q].e].status # "absent"
    BY DEF IInv, Holding, Making, There
  <2> QED
    BY <1>3, <2>1, <2>2, <2>3, FreeIsShaped DEF Apart, Holds, Makes, Absent
<1>6. \A q \in Requests : req'[q].label # NoLabel => req'[q].label \in creating'
  <2>1. \A q \in Requests : req[q].label # NoLabel => req[q].label \in creating
    BY DEF IInv, Reserved
  <2>2. \A q \in Requests : q # r /\ req[q].label = req[r].label => req[q].label = NoLabel
    BY DEF IInv, Apart
  <2>3. m = Free \/ m.label = req[r].label
    BY DEF Steps
  <2>4. creating' = creating \/ (m = Free /\ creating' = creating \ {req[r].label})
    BY DEF Steps
  <2> QED
    BY <1>3, <2>1, <2>2, <2>3, <2>4, FreeIsShaped
<1> QED
  BY <1>2, <1>3, <1>4, <1>5, <1>6

-----------------------------------------------------------------------------
(* Steps that leave the documents alone.                                   *)

\* A command goes on without a write, or ends: what it read stays what it read.
LEMMA KeepStep ==
    ASSUME IInv, NEW r \in Requests, NEW m, Turns(r, m), Nothing, faults' \in 0..MaxFaults,
           m = Free \/ (m.kind \in {"create", "rename", "add"} /\ m.flag = req[r].flag)
    PROVE  IInv'
<1> USE DEF Nothing, docs
<1>0. Steps(r, m) /\ req' \in [Requests -> Commands] /\ creating' \subseteq Labels /\ early' \subseteq Encounters
      /\ Shapes' /\ Apart' /\ (\A q \in Requests : req'[q] = IF q = r THEN m ELSE req[q])
      /\ \A q \in Requests : req'[q].label # NoLabel => req'[q].label \in creating'
  BY RequestsStep DEF Turns
<1>1. TypeOK /\ TypeOK'
  BY <1>0 DEF IInv, TypeOK, Commands
<1>2. \A q \in Requests : req'[q] = IF q = r THEN m ELSE req[q]
  BY <1>0
<1>3. Shapes' /\ Apart'
  BY <1>0
<1>4. m = Free \/ (m.kind = req[r].kind /\ m.e = req[r].e /\ m.label = req[r].label)
  BY DEF Turns, Steps
<1>5. Reserved'
  BY <1>2, <1>4, <1>0, FreeIsShaped DEF IInv, Reserved, There
<1>6. Holding'
  BY <1>2, <1>4, FreeIsShaped DEF IInv, Holding, Holds, There
<1>7. Undeleted'
  BY <1>2, <1>4, FreeIsShaped DEF IInv, Undeleted, Holds, Turns, Steps
<1>8. Making'
  BY <1>2, <1>4, FreeIsShaped DEF IInv, Making, Makes, Holds, Turns, Steps
<1>9. Homes'
  BY <1>2, <1>4, FreeIsShaped DEF IInv, Homes, Holds, There
<1>10. Sweeping'
  BY <1>2, <1>4, FreeIsShaped DEF IInv, Sweeping, Inside, Turns, Steps
<1>11. NamesStayUnique' /\ DeletionIsNeverForgotten' /\ NothingOutlivesTheCombat'
  BY DEF IInv, NamesStayUnique, DeletionIsNeverForgotten, NothingOutlivesTheCombat, There, Inside, Turns, Steps
<1> QED
  BY <1>1, <1>3, <1>5, <1>6, <1>7, <1>8, <1>9, <1>10, <1>11 DEF IInv

-----------------------------------------------------------------------------
(* Steps that write the flag.                                              *)

\* A command that holds the lock saves a flag, and goes on or ends.  It keeps the encounter's name unless
\* it ends with another that was reserved for it; it deletes, or has not met a deletion.
LEMMA SaveStep ==
    ASSUME IInv, NEW r \in Requests, NEW e \in Encounters, e = req[r].e, NEW m,
           Turns(r, m), Holds(r), faults' \in 0..MaxFaults,
           NEW flag \in Flags, SaveFlag(e, flag), flag.status \notin {"absent", "deleted"},
           flag.label = req[r].flag.label \/ (m = Free /\ flag.label = req[r].label /\ flag.label # NoLabel),
           flag.folder = req[r].flag.folder,
           \/ flag.status = "cleaning"
           \/ (req[r].kind # "complete" \/ req[r].stage = "retain") /\ flag.del = req[r].flag.del,
           req[r].kind = "complete" /\ req[r].stage # "retain" => flag.status = "cleaning",
           \/ m = Free
           \/ /\ m.flag.label = flag.label
              /\ m.flag.folder = flag.folder \/ (m.kind = "complete" /\ m.flag.folder)
              /\ m.kind # "complete" => m.flag.del = req[r].flag.del /\ flag.del = req[r].flag.del
              /\ m.kind = "complete" => m.stage # "retain" /\ req[r].stage # "retain",
           m.kind = "complete" =>
              /\ m.stage \in {"clean", "purge", "dropFolder"} => m.flag.folder \/ m.e \notin folders \/ m.e \in early
              /\ m.stage = "purge" => Inside(m.e) \subseteq m.doomed
              /\ m.stage \in {"dropFolder", "dropCombat"} => Inside(m.e) = {}
              /\ m.stage = "dropCombat" => m.e \notin folders \/ m.e \in early
    PROVE  IInv'
<1> DEFINE Present(f) == combat'[f].status \notin {"absent", "deleted"}
<1>0. Steps(r, m) /\ req' \in [Requests -> Commands] /\ creating' \subseteq Labels /\ early' \subseteq Encounters
      /\ Shapes' /\ Apart' /\ (\A q \in Requests : req'[q] = IF q = r THEN m ELSE req[q])
      /\ \A q \in Requests : req'[q].label # NoLabel => req'[q].label \in creating'
  BY RequestsStep DEF Turns
<1>1. TypeOK
  BY DEF IInv
<1>2. combat' = [combat EXCEPT ![e] = Merge(e, flag)] /\ UNCHANGED <<folders, home, roots>>
  BY DEF SaveFlag
<1>3. Merge(e, flag) \in Flags /\ Merge(e, flag) = [flag EXCEPT !.del = flag.del \/ combat[e].del]
  BY <1>1 DEF Merge, TypeOK, Flags
<1>4. TypeOK'
  BY <1>1, <1>2, <1>3, <1>0 DEF TypeOK, Commands
<1>5. /\ combat'[e].status = flag.status /\ combat'[e].label = flag.label /\ combat'[e].folder = flag.folder
      /\ combat'[e].del = (flag.del \/ combat[e].del)
      /\ \A f \in Encounters : f # e => combat'[f] = combat[f]
  BY <1>1, <1>2, <1>3 DEF TypeOK, Flags
<1>6. There(e) /\ Present(e) /\ combat[e].label = req[r].flag.label
      /\ \A f \in Encounters : Present(f) <=> There(f)
  BY <1>1, <1>5 DEF There, IInv, Holding
<1>7. \A q \in Requests : req'[q] = IF q = r THEN m ELSE req[q]
  BY <1>0
<1>8. m = Free \/ (m.kind = req[r].kind /\ m.e = e /\ m.label = req[r].label)
  BY DEF Turns, Steps
<1>9. \A q \in Requests : q # r /\ Holds(q) => req[q].e # e
  BY DEF IInv, Apart
<1>10. \A q \in Requests : Makes(q) /\ req[q].e = e => flag.status = "cleaning" /\ e \in early
  BY DEF IInv, Making, Holds
<1> HIDE DEF Present
<1>11. Reserved'
  <2> SUFFICES ASSUME NEW q \in Requests, req'[q].label # NoLabel, NEW f \in Encounters \ {req'[q].e}, Present(f)
               PROVE  combat'[f].label # req'[q].label
    BY <1>0 DEF Reserved, There, Present
  <2>1. req'[q] = req[q] \/ (q = r /\ m # Free /\ req'[q].e = req[q].e /\ req'[q].label = req[q].label)
    BY <1>7, <1>8, FreeIsShaped
  <2>2. There(f) /\ combat[f].label # req[q].label
    BY <1>6, <2>1 DEF IInv, Reserved
  <2>3. CASE f # e
    BY <1>5, <2>1, <2>2, <2>3
  <2>4. CASE f = e
    <3>1. q # r
      BY <1>7, <1>8, <2>4, FreeIsShaped
    <3>2. req[q].label # req[r].label \/ req[q].label = NoLabel
      BY <3>1 DEF IInv, Apart
    <3> QED
      BY <1>5, <1>6, <1>7, <2>2, <2>4, <3>1, <3>2
  <2> QED
    BY <2>3, <2>4
<1>12. Holding'
  <2>1. \A q \in Requests : q # r => (Holds(q)' <=> Holds(q))
    BY <1>7 DEF Holds
  <2>2. ASSUME NEW q \in Requests, q # r, Holds(q)
        PROVE  /\ Present(req'[q].e)
               /\ req'[q].flag.label = combat'[req'[q].e].label
               /\ req'[q].kind = "add" => req'[q].flag.folder /\ combat'[req'[q].e].folder
    <3>1. req'[q] = req[q] /\ req[q].e # e /\ req[q].e \in Encounters
      BY <1>7, <1>9, <2>2 DEF IInv, Shapes, Shaped, Holds
    <3> QED
      BY <1>5, <1>6, <2>2, <3>1 DEF IInv, Holding
  <2>3. m # Free => /\ Present(m.e)
                    /\ m.flag.label = combat'[m.e].label
                    /\ m.kind = "add" => m.flag.folder /\ combat'[m.e].folder
    BY <1>5, <1>6, <1>8 DEF IInv, Holding, There
  <2> QED
    BY <1>7, <2>1, <2>2, <2>3, FreeIsShaped DEF Holding, Holds, There, Present
<1>13. Undeleted'
  <2> SUFFICES ASSUME NEW q \in Requests, Holds(q)', req'[q].kind # "complete" \/ req'[q].stage = "retain", req'[q].e \notin early
               PROVE  ~combat'[req'[q].e].del /\ ~req'[q].flag.del
    BY DEF Undeleted, Turns, Steps
  <2>1. CASE q = r
    BY <1>5, <1>7, <1>8, <2>1, FreeIsShaped DEF IInv, Undeleted, Holds
  <2>2. CASE q # r
    <3>1. req'[q] = req[q] /\ Holds(q) /\ req[q].e # e /\ req[q].e \in Encounters
      BY <1>7, <1>9, <2>2 DEF IInv, Shapes, Shaped, Holds
    <3> QED
      BY <1>5, <3>1 DEF IInv, Undeleted
  <2> QED
    BY <2>1, <2>2
<1>14. Making'
  <2> SUFFICES ASSUME NEW q \in Requests, Makes(q)'
               PROVE  /\ combat'[req'[q].e].label = req'[q].label
                      /\ combat'[req'[q].e].status \in {"provisioning", "cleaning", "deleted"}
                      /\ req'[q].e \notin early' => combat'[req'[q].e].status = "provisioning" /\ ~combat'[req'[q].e].del
                      /\ \A p \in Requests : Holds(p)' /\ req'[p].e = req'[q].e =>
                            req'[p].kind = "complete" /\ req'[p].stage # "retain" /\ req'[q].e \in early'
    BY DEF Making
  <2>1. q # r /\ req'[q] = req[q] /\ Makes(q) /\ req[q].e \in Encounters /\ early' = early
    BY <1>7, <1>8, FreeIsShaped DEF IInv, Shapes, Shaped, Makes, Holds, Turns, Steps
  <2>2. /\ combat[req[q].e].label = req[q].label
        /\ combat[req[q].e].status \in {"provisioning", "cleaning", "deleted"}
        /\ req[q].e \notin early => combat[req[q].e].status = "provisioning" /\ ~combat[req[q].e].del
        /\ \A p \in Requests : Holds(p) /\ req[p].e = req[q].e =>
              req[p].kind = "complete" /\ req[p].stage # "retain" /\ req[q].e \in early
    BY <2>1 DEF IInv, Making
  <2>3. req[q].e = e => flag.label = combat[e].label
    <3>1. req[q].e = e => req[r].kind = "complete"
      BY <2>2
    <3>2. req[r].kind = "complete" => req[r].label = NoLabel
      BY DEF IInv, Shapes, Shaped
    <3> QED
      BY <1>6, <3>1, <3>2
  <2>4. \A p \in Requests : Holds(p)' /\ req'[p].e = req'[q].e =>
            req'[p].kind = "complete" /\ req'[p].stage # "retain" /\ req'[q].e \in early'
    BY <1>7, <1>8, <2>1, <2>2, FreeIsShaped DEF Holds
  <2> QED
    BY <1>5, <1>10, <2>1, <2>2, <2>3, <2>4
<1>15. Homes'
  <2> SUFFICES ASSUME NEW c \in Copies, home[c] \in Encounters
               PROVE  /\ Present(home[c])
                      /\ combat'[home[c]].folder
                      /\ \A q \in Requests : Holds(q)' /\ req'[q].e = home[c] => req'[q].flag.folder
    BY <1>2 DEF Homes, There, Present, Encounters
  <2>1. /\ There(home[c])
        /\ combat[home[c]].folder
        /\ \A q \in Requests : Holds(q) /\ req[q].e = home[c] => req[q].flag.folder
    BY DEF IInv, Homes
  <2> QED
    BY <1>5, <1>6, <1>7, <1>8, <2>1, FreeIsShaped DEF Holds
<1>16. Sweeping'
  <2>1. \A q \in Requests : q # r => req'[q] = req[q]
    BY <1>7
  <2> QED
    BY <1>2, <1>7, <2>1, FreeIsShaped DEF IInv, Sweeping, Inside, Turns, Steps
<1>17. NamesStayUnique'
  <2>1. \A f \in Encounters : f # e /\ There(f) => combat[f].label # flag.label
    BY <1>1, <1>6 DEF IInv, NamesStayUnique, Reserved
  <2> QED
    BY <1>5, <1>6, <2>1 DEF IInv, NamesStayUnique, There
<1>18. DeletionIsNeverForgotten'
  BY <1>5 DEF IInv, DeletionIsNeverForgotten, Undeleted, Turns, Steps
<1>19. NothingOutlivesTheCombat'
  BY <1>2, <1>5 DEF IInv, NothingOutlivesTheCombat, Inside, Turns, Steps
<1> QED
  BY <1>4, <1>11, <1>12, <1>13, <1>14, <1>15, <1>16, <1>17, <1>18, <1>19, <1>0 DEF IInv

-----------------------------------------------------------------------------
(* Steps that write other documents.                                       *)

\* A command that holds the lock copies an Actor into the Folder, or deletes Actors or the Folder: where
\* Actors were left before there are no more afterwards, unless the command adds them.
LEMMA ContentStep ==
    ASSUME IInv, NEW r \in Requests, NEW e \in Encounters, e = req[r].e, NEW m,
           Turns(r, m), Holds(r), faults' \in 0..MaxFaults,
           combat' = combat, roots' = roots,
           folders' \subseteq folders,
           home' \in [Copies -> Encounters \union {Unborn, Dead}],
           \A c \in Copies : home'[c] \in {home[c], Dead} \/ (home'[c] = e /\ req[r].kind = "add"),
           m = Free \/ m.flag = req[r].flag,
           m.stage # "retain",
           m.kind = "complete" =>
              /\ m.stage \in {"clean", "purge", "dropFolder"} => m.flag.folder \/ m.e \notin folders' \/ m.e \in early
              /\ m.stage = "purge" => {c \in Copies : home'[c] = m.e} \subseteq m.doomed
              /\ m.stage \in {"dropFolder", "dropCombat"} => {c \in Copies : home'[c] = m.e} = {}
              /\ m.stage = "dropCombat" => m.e \notin folders' \/ m.e \in early
    PROVE  IInv'
<1>0. Steps(r, m) /\ req' \in [Requests -> Commands] /\ creating' \subseteq Labels /\ early' \subseteq Encounters
      /\ Shapes' /\ Apart' /\ (\A q \in Requests : req'[q] = IF q = r THEN m ELSE req[q])
      /\ \A q \in Requests : req'[q].label # NoLabel => req'[q].label \in creating'
  BY RequestsStep DEF Turns
<1>1. TypeOK /\ early' = early
  BY DEF IInv, Turns, Steps
<1>2. TypeOK'
  BY <1>0, <1>1 DEF TypeOK, Commands
<1>3. m = Free \/ (m.kind = req[r].kind /\ m.e = e /\ m.label = req[r].label)
  BY DEF Turns, Steps
<1>4. There(e) /\ (req[r].kind = "add" => req[r].flag.folder /\ combat[e].folder)
  BY DEF IInv, Holding
<1>5. \A q \in Requests : q # r /\ Holds(q) => req[q].e # e
  BY DEF IInv, Apart
<1>6. \A f \in Encounters : f # e => Inside(f)' \subseteq Inside(f)
  BY DEF Inside, Dead, Encounters
<1>7. Reserved'
  BY <1>0, <1>3, FreeIsShaped DEF IInv, Reserved, There
<1>8. Holding'
  BY <1>0, <1>3, FreeIsShaped DEF IInv, Holding, Holds, There
<1>9. Undeleted'
  BY <1>0, <1>1, <1>3, FreeIsShaped DEF IInv, Undeleted, Holds
<1>10. Making'
  BY <1>0, <1>1, <1>3, FreeIsShaped DEF IInv, Making, Makes, Holds
<1>11. Homes'
  <2> SUFFICES ASSUME NEW c \in Copies, home'[c] \in Encounters
               PROVE  /\ combat[home'[c]].status \notin {"absent", "deleted"}
                      /\ combat[home'[c]].folder
                      /\ \A q \in Requests : Holds(q)' /\ req'[q].e = home'[c] => req'[q].flag.folder
    BY DEF Homes, There, Encounters
  <2>1. CASE home'[c] = home[c]
    BY <1>0, <1>3, <2>1, FreeIsShaped DEF IInv, Homes, Holds, There
  <2>2. CASE home'[c] = e /\ req[r].kind = "add"
    BY <1>0, <1>3, <1>4, <1>5, <2>2, FreeIsShaped DEF Holds, There
  <2> QED
    BY <2>1, <2>2 DEF Dead, Encounters
<1>12. Sweeping'
  <2> SUFFICES ASSUME NEW q \in Requests, req'[q].kind = "complete"
               PROVE  /\ req'[q].stage \in {"clean", "purge", "dropFolder"} =>
                            req'[q].flag.folder \/ req'[q].e \notin folders' \/ req'[q].e \in early
                      /\ req'[q].stage = "purge" => {c \in Copies : home'[c] = req'[q].e} \subseteq req'[q].doomed
                      /\ req'[q].stage \in {"dropFolder", "dropCombat"} => {c \in Copies : home'[c] = req'[q].e} = {}
                      /\ req'[q].stage = "dropCombat" => req'[q].e \notin folders' \/ req'[q].e \in early
    BY <1>1 DEF Sweeping, Inside
  <2>1. CASE q = r
    BY <1>0, <2>1, FreeIsShaped
  <2>2. CASE q # r
    <3>1. req'[q] = req[q] /\ Holds(q) /\ req[q].e # e /\ req[q].e \in Encounters
      BY <1>0, <1>5, <2>2 DEF IInv, Shapes, Shaped, Holds
    <3>2. {c \in Copies : home'[c] = req[q].e} \subseteq Inside(req[q].e)
      BY <3>1 DEF Inside, Dead, Encounters
    <3> QED
      BY <3>1, <3>2 DEF IInv, Sweeping
  <2> QED
    BY <2>1, <2>2
<1>13. NamesStayUnique' /\ DeletionIsNeverForgotten'
  BY <1>1 DEF IInv, NamesStayUnique, DeletionIsNeverForgotten, There
<1>14. NothingOutlivesTheCombat'
  BY <1>1, <1>4, <1>6 DEF IInv, NothingOutlivesTheCombat, There
<1> QED
  BY <1>0, <1>2, <1>7, <1>8, <1>9, <1>10, <1>11, <1>12, <1>13, <1>14 DEF IInv

\* The cleanup's last step: the Combat goes, with nothing left of it but what its creation makes.
LEMMA CombatStep ==
    ASSUME IInv, NEW r \in Requests, NEW e \in Encounters, e = req[r].e, Turns(r, Free), faults' \in 0..MaxFaults,
           req[r].kind = "complete", req[r].stage = "dropCombat", DropCombat(e)
    PROVE  IInv'
<1>0. Steps(r, Free) /\ req' \in [Requests -> Commands] /\ creating' \subseteq Labels /\ early' \subseteq Encounters
      /\ Shapes' /\ Apart' /\ (\A q \in Requests : req'[q] = IF q = r THEN Free ELSE req[q])
      /\ \A q \in Requests : req'[q].label # NoLabel => req'[q].label \in creating'
  BY RequestsStep DEF Turns
<1>1. TypeOK /\ early' = early
  BY DEF IInv, Turns, Steps
<1>2. /\ combat' = [combat EXCEPT ![e].status = "deleted"] /\ UNCHANGED <<folders, home, roots>>
      /\ combat' \in [Encounters -> Flags]
      /\ combat'[e] \in Flags /\ combat'[e].status = "deleted"
      /\ combat'[e].label = combat[e].label /\ combat'[e].folder = combat[e].folder /\ combat'[e].del = combat[e].del
      /\ \A f \in Encounters : f # e => combat'[f] = combat[f]
  <2> DEFINE dead == [combat[e] EXCEPT !.status = "deleted"]
  <2>1. combat' = [combat EXCEPT ![e] = dead] /\ UNCHANGED <<folders, home, roots>>
    BY DEF DropCombat
  <2>2. /\ dead \in Flags /\ dead.status = "deleted"
        /\ dead.label = combat[e].label /\ dead.folder = combat[e].folder /\ dead.del = combat[e].del
    BY <1>1 DEF TypeOK, Flags
  <2> HIDE DEF dead
  <2>3. combat' \in [Encounters -> Flags] /\ combat'[e] = dead /\ \A f \in Encounters : f # e => combat'[f] = combat[f]
    BY <1>1, <2>1, <2>2 DEF TypeOK
  <2> QED
    BY <1>1, <2>1, <2>2, <2>3 DEF DropCombat
<1>3. TypeOK'
  BY <1>0, <1>1, <1>2 DEF TypeOK, Commands
<1>4. Holds(r) /\ There(e) /\ Inside(e) = {} /\ (e \notin folders \/ e \in early)
  BY DEF Holds, IInv, Holding, Sweeping
<1>5. \A q \in Requests : q # r /\ Holds(q) => req[q].e # e /\ req[q].e \in Encounters
  BY <1>4 DEF IInv, Apart, Shapes, Shaped, Holds
<1>6. \A f \in Encounters : There(f)' => There(f) /\ f # e /\ combat'[f] = combat[f]
  BY <1>2 DEF There
<1>7. Reserved'
  BY <1>0, <1>6, FreeIsShaped DEF IInv, Reserved
<1>8. Holding'
  BY <1>0, <1>2, <1>5, FreeIsShaped DEF IInv, Holding, Holds, There
<1>9. Undeleted'
  BY <1>0, <1>1, <1>2, <1>5, FreeIsShaped DEF IInv, Undeleted, Holds
<1>10. Making'
  <2> SUFFICES ASSUME NEW q \in Requests, Makes(q)'
               PROVE  /\ combat'[req'[q].e].label = req'[q].label
                      /\ combat'[req'[q].e].status \in {"provisioning", "cleaning", "deleted"}
                      /\ req'[q].e \notin early => combat'[req'[q].e].status = "provisioning" /\ ~combat'[req'[q].e].del
                      /\ \A p \in Requests : Holds(p)' /\ req'[p].e = req'[q].e =>
                            req'[p].kind = "complete" /\ req'[p].stage # "retain" /\ req'[q].e \in early
    BY <1>1 DEF Making
  <2>1. req'[q] = req[q] /\ Makes(q) /\ req[q].e \in Encounters
    BY <1>0, FreeIsShaped DEF IInv, Shapes, Shaped, Makes
  <2>2. req[q].e = e => e \in early
    BY <1>4, <2>1 DEF IInv, Making
  <2> QED
    BY <1>0, <1>2, <2>1, <2>2, FreeIsShaped DEF IInv, Making, Holds
<1>11. Homes'
  <2> SUFFICES ASSUME NEW c \in Copies, home[c] \in Encounters
               PROVE  /\ combat'[home[c]].status \notin {"absent", "deleted"}
                      /\ combat'[home[c]].folder
                      /\ \A q \in Requests : Holds(q)' /\ req'[q].e = home[c] => req'[q].flag.folder
    BY <1>2 DEF Homes, There, Encounters
  <2>1. home[c] # e
    BY <1>4 DEF Inside
  <2> QED
    BY <1>0, <1>2, <2>1, FreeIsShaped DEF IInv, Homes, Holds, There
<1>12. Sweeping'
  BY <1>0, <1>1, <1>2, FreeIsShaped DEF IInv, Sweeping, Inside
<1>13. NamesStayUnique'
  BY <1>6 DEF IInv, NamesStayUnique
<1>14. DeletionIsNeverForgotten'
  BY <1>1, <1>2 DEF IInv, DeletionIsNeverForgotten
<1>15. NothingOutlivesTheCombat'
  BY <1>1, <1>2, <1>4 DEF IInv, NothingOutlivesTheCombat, Inside
<1> QED
  BY <1>0, <1>3, <1>7, <1>8, <1>9, <1>10, <1>11, <1>12, <1>13, <1>14, <1>15 DEF IInv

-----------------------------------------------------------------------------
(* Steps of a creation.                                                    *)

\* The creation writes its Combat: the encounter is nobody's yet.
LEMMA NewCombatStep ==
    ASSUME IInv, NEW r \in Requests, NEW e \in Encounters, NEW m, Steps(r, m), faults' \in 0..MaxFaults,
           req[r].kind = "create", req[r].e = 0, combat[e] = Absent, NewCombat(e, req[r].flag),
           m = Free \/ (m.kind = "create" /\ m.e = e)
    PROVE  IInv'
<1>0. /\ req' \in [Requests -> Commands] /\ creating' \subseteq Labels /\ early' \subseteq Encounters
      /\ Shapes' /\ Apart' /\ (\A q \in Requests : req'[q] = IF q = r THEN m ELSE req[q])
      /\ \A q \in Requests : req'[q].label # NoLabel => req'[q].label \in creating'
  BY RequestsStep
<1> DEFINE flag == req[r].flag
<1>1. TypeOK /\ early' = early
  BY DEF IInv, Steps
<1>2. flag \in Flags /\ flag.status = "provisioning" /\ flag.label = req[r].label /\ ~flag.del /\ req[r].label \in Labels
  BY <1>1 DEF IInv, TypeOK, Shapes, Shaped
<1> HIDE DEF flag
<1>3. /\ combat' \in [Encounters -> Flags] /\ combat'[e] = flag /\ UNCHANGED <<folders, home, roots>>
      /\ \A f \in Encounters : f # e => combat'[f] = combat[f]
  BY <1>1, <1>2 DEF NewCombat, TypeOK, flag
<1>4. TypeOK'
  BY <1>0, <1>1, <1>3 DEF TypeOK, Commands
<1>5. \A q \in Requests : Holds(q) \/ Makes(q) => req[q].e \in Encounters /\ req[q].e # e
  BY DEF IInv, Shapes, Shaped, Holds, Makes, Holding, Making, There, Absent
<1>6. m = Free \/ (m.kind = "create" /\ m.label = req[r].label /\ m.e = e)
  BY DEF Steps
<1>7. ~There(e) /\ (\A f \in Encounters : f # e => (There(f)' <=> There(f))) /\ req[r].label # NoLabel
  BY <1>2, <1>3, NoLabelApart DEF There, Absent, NoLabel
<1>8. \A f \in Encounters : There(f) => combat[f].label # req[r].label
  BY <1>7 DEF IInv, Reserved, Encounters
<1>9. Reserved'
  <2> SUFFICES ASSUME NEW q \in Requests, req'[q].label # NoLabel, NEW f \in Encounters \ {req'[q].e}, There(f)'
               PROVE  combat'[f].label # req'[q].label
    BY <1>0 DEF Reserved, There
  <2>1. CASE f # e
    BY <1>0, <1>3, <1>6, <1>7, <1>8, <2>1, FreeIsShaped DEF IInv, Reserved
  <2>2. CASE f = e
    <3>1. q # r /\ req'[q] = req[q]
      BY <1>0, <1>6, <2>2, FreeIsShaped
    <3> QED
      BY <1>2, <1>3, <2>2, <3>1 DEF IInv, Apart
  <2> QED
    BY <2>1, <2>2
<1>10. Holding'
  BY <1>0, <1>3, <1>5, <1>6, FreeIsShaped DEF IInv, Holding, Holds, There
<1>11. Undeleted'
  BY <1>0, <1>1, <1>3, <1>5, <1>6, FreeIsShaped DEF IInv, Undeleted, Holds
<1>12. Making'
  <2> SUFFICES ASSUME NEW q \in Requests, Makes(q)'
               PROVE  /\ combat'[req'[q].e].label = req'[q].label
                      /\ combat'[req'[q].e].status \in {"provisioning", "cleaning", "deleted"}
                      /\ req'[q].e \notin early => combat'[req'[q].e].status = "provisioning" /\ ~combat'[req'[q].e].del
                      /\ \A p \in Requests : Holds(p)' /\ req'[p].e = req'[q].e =>
                            req'[p].kind = "complete" /\ req'[p].stage # "retain" /\ req'[q].e \in early
    BY <1>1 DEF Making
  <2>1. CASE q = r
    BY <1>0, <1>2, <1>3, <1>5, <1>6, <2>1, FreeIsShaped DEF Makes, Holds
  <2>2. CASE q # r
    BY <1>0, <1>3, <1>5, <1>6, <2>2, FreeIsShaped DEF IInv, Making, Makes, Holds
  <2> QED
    BY <2>1, <2>2
<1>13. Homes'
  <2> SUFFICES ASSUME NEW c \in Copies, home[c] \in Encounters
               PROVE  /\ combat'[home[c]].status \notin {"absent", "deleted"}
                      /\ combat'[home[c]].folder
                      /\ \A q \in Requests : Holds(q)' /\ req'[q].e = home[c] => req'[q].flag.folder
    BY <1>3 DEF Homes, There, Encounters
  <2>1. home[c] # e
    BY <1>7 DEF IInv, Homes
  <2> QED
    BY <1>0, <1>3, <1>6, <2>1, FreeIsShaped DEF IInv, Homes, Holds, There
<1>14. Sweeping'
  BY <1>0, <1>1, <1>3, <1>6, FreeIsShaped DEF IInv, Sweeping, Inside
<1>15. NamesStayUnique'
  BY <1>2, <1>3, <1>7, <1>8 DEF IInv, NamesStayUnique
<1>16. DeletionIsNeverForgotten'
  BY <1>1, <1>2, <1>3 DEF IInv, DeletionIsNeverForgotten
<1>17. NothingOutlivesTheCombat'
  BY <1>1, <1>2, <1>3 DEF IInv, NothingOutlivesTheCombat, Inside
<1> QED
  BY <1>0, <1>4, <1>9, <1>10, <1>11, <1>12, <1>13, <1>14, <1>15, <1>16, <1>17 DEF IInv

\* The creation makes the Folder: if a cleanup has passed, the encounter is early.
LEMMA NewFolderStep ==
    ASSUME IInv, NEW r \in Requests, NEW e \in Encounters, e = req[r].e, NEW m,
           Turns(r, m), Makes(r), faults' \in 0..MaxFaults,
           NewFolder(e), m = Free \/ m.kind = "create"
    PROVE  IInv'
<1>0. Steps(r, m) /\ req' \in [Requests -> Commands] /\ creating' \subseteq Labels /\ early' \subseteq Encounters
      /\ Shapes' /\ Apart' /\ (\A q \in Requests : req'[q] = IF q = r THEN m ELSE req[q])
      /\ \A q \in Requests : req'[q].label # NoLabel => req'[q].label \in creating'
  BY RequestsStep DEF Turns
<1>1. TypeOK /\ early' = early /\ combat' = combat /\ home' = home /\ roots' = roots /\ folders' = folders \union {e}
  BY DEF IInv, Turns, Steps, NewFolder
<1>2. TypeOK'
  BY <1>0, <1>1 DEF TypeOK, Commands
<1>3. m = Free \/ (m.kind = "create" /\ m.e = e /\ m.label = req[r].label)
  BY DEF Turns, Steps
<1>4. \A q \in Requests : Holds(q) /\ req[q].e = e => e \in early
  BY DEF IInv, Making
<1>5. combat[e].status = "deleted" => e \in early
  BY DEF IInv, Making
<1>6. Reserved'
  BY <1>0, <1>1, <1>3, FreeIsShaped DEF IInv, Reserved, There
<1>7. Holding'
  BY <1>0, <1>1, <1>3, FreeIsShaped DEF IInv, Holding, Holds, There
<1>8. Undeleted'
  BY <1>0, <1>1, <1>3, FreeIsShaped DEF IInv, Undeleted, Holds
<1>9. Making'
  BY <1>0, <1>1, <1>3, FreeIsShaped DEF IInv, Making, Makes, Holds
<1>10. Homes'
  BY <1>0, <1>1, <1>3, FreeIsShaped DEF IInv, Homes, Holds, There
<1>11. Sweeping'
  BY <1>0, <1>1, <1>3, <1>4, FreeIsShaped DEF IInv, Sweeping, Inside, Holds
<1>12. NamesStayUnique' /\ DeletionIsNeverForgotten' /\ NothingOutlivesTheCombat'
  BY <1>1, <1>5 DEF IInv, NamesStayUnique, DeletionIsNeverForgotten, NothingOutlivesTheCombat, There, Inside
<1> QED
  BY <1>0, <1>2, <1>6, <1>7, <1>8, <1>9, <1>10, <1>11, <1>12 DEF IInv

\* The creation opens the encounter: it undoes no deletion of one that is not early.
LEMMA OpenStep ==
    ASSUME IInv, NEW r \in Requests, NEW e \in Encounters, e = req[r].e,
           Turns(r, Free), Makes(r), faults' \in 0..MaxFaults,
           There(e), SaveFlag(e, [req[r].flag EXCEPT !.status = "active", !.folder = TRUE])
    PROVE  IInv'
<1>0. Steps(r, Free) /\ req' \in [Requests -> Commands] /\ creating' \subseteq Labels /\ early' \subseteq Encounters
      /\ Shapes' /\ Apart' /\ (\A q \in Requests : req'[q] = IF q = r THEN Free ELSE req[q])
      /\ \A q \in Requests : req'[q].label # NoLabel => req'[q].label \in creating'
  BY RequestsStep DEF Turns
<1>1. TypeOK /\ early' = early
  BY DEF IInv, Turns, Steps
<1>2. /\ combat' \in [Encounters -> Flags] /\ UNCHANGED <<folders, home, roots>>
      /\ combat'[e].status = "active" /\ combat'[e].label = req[r].label /\ combat'[e].folder
      /\ combat'[e].del = combat[e].del
      /\ \A f \in Encounters : f # e => combat'[f] = combat[f]
  <2> DEFINE flag == [req[r].flag EXCEPT !.status = "active", !.folder = TRUE]
  <2>1. flag \in Flags /\ flag.status = "active" /\ flag.label = req[r].label /\ flag.folder /\ flag.del = FALSE
    <3>1. req[r].flag \in Flags
      BY <1>1 DEF TypeOK
    <3>2. req[r].flag.label = req[r].label /\ req[r].flag.del = FALSE
      BY <3>1 DEF IInv, Shapes, Shaped, Makes, Flags
    <3> QED
      BY <3>1, <3>2 DEF Flags
  <2> HIDE DEF flag
  <2>2. /\ Merge(e, flag) \in Flags /\ Merge(e, flag).status = "active" /\ Merge(e, flag).label = req[r].label
        /\ Merge(e, flag).folder /\ Merge(e, flag).del = combat[e].del
    BY <1>1, <2>1 DEF Merge, TypeOK, Flags
  <2>3. combat' = [combat EXCEPT ![e] = Merge(e, flag)] /\ UNCHANGED <<folders, home, roots>>
    BY DEF SaveFlag, flag
  <2> QED
    BY <1>1, <2>2, <2>3 DEF TypeOK
<1>3. TypeOK'
  BY <1>0, <1>1, <1>2 DEF TypeOK, Commands
<1>4. /\ combat[e].label = req[r].label
      /\ e \notin early => ~combat[e].del
      /\ \A q \in Requests : Holds(q) /\ req[q].e = e => req[q].kind = "complete" /\ req[q].stage # "retain" /\ e \in early
      /\ \A q \in Requests : q # r /\ Makes(q) => req[q].e # e
  BY DEF IInv, Making, Apart
<1>5. /\ \A f \in Encounters : There(f)' <=> There(f)
      /\ \A f \in Encounters : combat'[f].label = combat[f].label
  BY <1>2, <1>4 DEF There
<1>6. \A q \in Requests : Holds(q) \/ Makes(q) => req[q].e \in Encounters
  BY DEF IInv, Shapes, Shaped, Holds, Makes
<1>7. Reserved'
  BY <1>0, <1>5, FreeIsShaped DEF IInv, Reserved
<1>8. Holding'
  BY <1>0, <1>2, <1>4, <1>6, FreeIsShaped DEF IInv, Holding, Holds, There
<1>9. Undeleted'
  BY <1>0, <1>1, <1>2, <1>4, <1>6, FreeIsShaped DEF IInv, Undeleted, Holds
<1>10. Making'
  BY <1>0, <1>1, <1>2, <1>4, <1>6, FreeIsShaped DEF IInv, Making, Makes, Holds
<1>11. Homes'
  BY <1>0, <1>2, FreeIsShaped DEF IInv, Homes, Holds, There
<1>12. Sweeping'
  BY <1>0, <1>1, <1>2, FreeIsShaped DEF IInv, Sweeping, Inside
<1>13. NamesStayUnique'
  BY <1>5 DEF IInv, NamesStayUnique
<1>14. DeletionIsNeverForgotten'
  BY <1>1, <1>2, <1>4 DEF IInv, DeletionIsNeverForgotten
<1>15. NothingOutlivesTheCombat'
  BY <1>1, <1>2 DEF IInv, NothingOutlivesTheCombat, Inside
<1> QED
  BY <1>0, <1>3, <1>7, <1>8, <1>9, <1>10, <1>11, <1>12, <1>13, <1>14, <1>15 DEF IInv

\* The creation of the root ends for all who share it, well or not.
LEMMA RootStep ==
    ASSUME IInv, NEW r \in Requests, CreateRoot(r)
    PROVE  IInv'
<1>1. TypeOK
  BY DEF IInv
<1>2. \A q \in Sharing : req[q].kind = "create" /\ req[q].e = 0 /\ Shaped(req[q]) /\ req[q] \in Commands
  BY <1>1 DEF Sharing, IInv, TypeOK, Shapes, Shaped, Commands, Free
<1>3. combat' = combat /\ folders' = folders /\ home' = home /\ roots' \in Nat /\ faults' \in 0..MaxFaults /\ early' = early
  BY <1>1, FaultsCount DEF CreateRoot, Write, NewRoot, Nothing, docs, Finish, TypeOK
<1> DEFINE Later(q) == [req[q] EXCEPT !.stage = "combat"]
<1>4. \/ /\ req' = [q \in Requests |-> IF q \in Sharing THEN Later(q) ELSE req[q]]
         /\ creating' = creating
      \/ /\ req' = [q \in Requests |-> IF q \in Sharing THEN Free ELSE req[q]]
         /\ creating' = creating \ {req[q].label : q \in Sharing}
  BY DEF CreateRoot, Write, Finish
<1>5. \A q \in Sharing : /\ Later(q) \in Commands /\ Shaped(Later(q))
                         /\ Later(q).kind = "create" /\ Later(q).e = 0 /\ Later(q).label = req[q].label
  BY <1>2 DEF Shaped, Commands, Free
<1> HIDE DEF Later
<1>6. \A q \in Requests : \/ req'[q] = req[q]
                          \/ q \in Sharing /\ req'[q] = Free
                          \/ q \in Sharing /\ req'[q] = Later(q) /\ creating' = creating
  BY <1>4
<1>7. req' \in [Requests -> Commands] /\ creating' \subseteq Labels
  BY <1>1, <1>4, <1>5, FreeIsShaped DEF TypeOK, Commands
<1>8. TypeOK'
  BY <1>1, <1>3, <1>7 DEF TypeOK, Commands
<1>9. Shapes'
  BY <1>5, <1>6, FreeIsShaped DEF IInv, Shapes
<1>10. \A q \in Requests : /\ req'[q].label \in {req[q].label, NoLabel}
                           /\ Holds(q)' => req'[q] = req[q] /\ Holds(q)
                           /\ Makes(q)' => req'[q] = req[q] /\ Makes(q)
  BY <1>5, <1>6, FreeIsShaped DEF Holds, Makes
<1>11. Apart'
  BY <1>10 DEF IInv, Apart
<1>12. \A q \in Requests : req'[q].label # NoLabel => req'[q].label \in creating' /\ req'[q].label = req[q].label
  <2>1. SUFFICES ASSUME NEW q \in Requests, req'[q].label # NoLabel
                 PROVE  req'[q].label \in creating'
    BY <1>10
  <2>2. req'[q].label = req[q].label /\ req[q].label \in creating
    BY <1>10, <2>1 DEF IInv, Reserved
  <2>3. CASE creating' = creating
    BY <2>2, <2>3
  <2>4. CASE /\ req' = [p \in Requests |-> IF p \in Sharing THEN Free ELSE req[p]]
             /\ creating' = creating \ {req[p].label : p \in Sharing}
    <3>1. q \notin Sharing
      BY <2>1, <2>4, FreeIsShaped
    <3>2. \A p \in Sharing : p \in Requests /\ p # q /\ req[p].label # req[q].label
      BY <2>1, <2>2, <3>1 DEF IInv, Apart, Sharing
    <3> QED
      BY <2>2, <2>4, <3>2
  <2> QED
    BY <1>4, <2>3, <2>4
<1>13. Reserved'
  <2> SUFFICES ASSUME NEW q \in Requests, req'[q].label # NoLabel, NEW f \in Encounters \ {req'[q].e}, There(f)
               PROVE  combat[f].label # req'[q].label
    BY <1>3, <1>12 DEF Reserved, There
  <2>1. req'[q].label = req[q].label /\ (req'[q].e = req[q].e \/ req[q].e = 0)
    BY <1>2, <1>6, <1>12
  <2> QED
    BY <2>1 DEF IInv, Reserved, Encounters
<1>14. Holding' /\ Undeleted' /\ Making'
  BY <1>3, <1>10 DEF IInv, Holding, Undeleted, Making, There
<1>15. Homes'
  BY <1>3, <1>10 DEF IInv, Homes, There
<1>16. Sweeping'
  BY <1>3, <1>5, <1>6, FreeIsShaped DEF IInv, Sweeping, Inside
<1>17. NamesStayUnique' /\ DeletionIsNeverForgotten' /\ NothingOutlivesTheCombat'
  BY <1>3 DEF IInv, NamesStayUnique, DeletionIsNeverForgotten, NothingOutlivesTheCombat, There, Inside
<1> QED
  BY <1>8, <1>9, <1>11, <1>13, <1>14, <1>15, <1>16, <1>17 DEF IInv

-----------------------------------------------------------------------------
(* The beginnings, and the restart.                                        *)

\* A command begins: a creation under its new name, or a command that finds the encounter unlocked.
LEMMA BeginStep ==
    ASSUME IInv, NEW r \in Requests, NEW m \in Commands, Shaped(m), m.kind # "none", req[r] = Free,
           req' = [req EXCEPT ![r] = m], Nothing, faults' \in 0..MaxFaults,
           early \subseteq early', early' \subseteq Encounters,
           creating' = creating \union (IF m.label = NoLabel THEN {} ELSE {m.label}),
           m.label # NoLabel => m.label \notin creating /\ \A f \in Encounters \ {m.e} : There(f) => combat[f].label # m.label,
           m.kind = "create" => m.e = 0,
           m.kind # "create" =>
              /\ ~Locked(m.e) /\ There(m.e)
              /\ m.flag.label = combat[m.e].label
              /\ m.kind = "add" => combat[m.e].folder
              /\ combat[m.e].folder => m.flag.folder
              /\ m.stage \notin {"purge", "dropFolder", "dropCombat"}
              /\ m.stage = "clean" => m.flag.folder \/ m.e \notin folders
              /\ m.kind # "complete" \/ m.stage = "retain" => Active(m.e) /\ m.flag.del = combat[m.e].del
              /\ m.kind = "complete" /\ Creates(m.e) => m.e \in early'
    PROVE  IInv'
<1>1. TypeOK /\ combat' = combat /\ folders' = folders /\ home' = home /\ roots' = roots
  BY DEF IInv, Nothing, docs
<1>2. req' \in [Requests -> Commands] /\ \A q \in Requests : req'[q] = IF q = r THEN m ELSE req[q]
  BY <1>1 DEF TypeOK, Commands
<1>3. TypeOK'
  BY <1>1, <1>2 DEF TypeOK, Commands
<1>4. Shapes'
  BY <1>2 DEF IInv, Shapes
<1>5. m.kind # "create" => /\ m.e \in Encounters
                           /\ \A q \in Requests : Holds(q) => req[q].e # m.e
                           /\ \A q \in Requests : Makes(q) /\ req[q].e = m.e =>
                                 m.kind = "complete" /\ m.stage # "retain" /\ m.e \in early'
  <2> SUFFICES ASSUME m.kind # "create"
               PROVE  /\ m.e \in Encounters
                      /\ \A q \in Requests : Holds(q) => req[q].e # m.e
                      /\ \A q \in Requests : Makes(q) /\ req[q].e = m.e =>
                            m.kind = "complete" /\ m.stage # "retain" /\ m.e \in early'
    OBVIOUS
  <2>1. m.e \in Encounters
    BY DEF Shaped
  <2>2. \A q \in Requests : Holds(q) => req[q].e # m.e
    BY DEF Locked, Holds
  <2>3. \A q \in Requests : Makes(q) /\ req[q].e = m.e => Creates(m.e) /\ ~Active(m.e)
    BY DEF Makes, Creates, Active, IInv, Making
  <2> QED
    BY <2>1, <2>2, <2>3
<1>6. \A q \in Requests : req[q].label # NoLabel => req[q].label \in creating
  BY DEF IInv, Reserved
<1>7. Apart'
  BY <1>2, <1>5, <1>6 DEF IInv, Apart, Holds, Makes
<1>8. Reserved'
  BY <1>1, <1>2, <1>6 DEF IInv, Reserved, There
<1>9. Holding'
  BY <1>1, <1>2 DEF IInv, Holding, Holds, There
<1>10. Undeleted'
  <2>1. m.kind # "create" /\ m.e \notin early /\ Active(m.e) => ~combat[m.e].del
    BY <1>5 DEF IInv, DeletionIsNeverForgotten, Active
  <2> QED
    BY <1>1, <1>2, <2>1 DEF IInv, Undeleted, Holds
<1>11. Making'
  <2> SUFFICES ASSUME NEW q \in Requests, Makes(q)'
               PROVE  /\ combat[req'[q].e].label = req'[q].label
                      /\ combat[req'[q].e].status \in {"provisioning", "cleaning", "deleted"}
                      /\ req'[q].e \notin early' => combat[req'[q].e].status = "provisioning" /\ ~combat[req'[q].e].del
                      /\ \A p \in Requests : Holds(p)' /\ req'[p].e = req'[q].e =>
                            req'[p].kind = "complete" /\ req'[p].stage # "retain" /\ req'[q].e \in early'
    BY <1>1 DEF Making
  <2>1. q # r /\ req'[q] = req[q] /\ Makes(q)
    BY <1>2 DEF Makes
  <2>2. /\ combat[req[q].e].label = req[q].label
        /\ combat[req[q].e].status \in {"provisioning", "cleaning", "deleted"}
        /\ req[q].e \notin early => combat[req[q].e].status = "provisioning" /\ ~combat[req[q].e].del
        /\ \A p \in Requests : Holds(p) /\ req[p].e = req[q].e =>
              req[p].kind = "complete" /\ req[p].stage # "retain" /\ req[q].e \in early
    BY <2>1 DEF IInv, Making
  <2> QED
    BY <1>2, <1>5, <2>1, <2>2 DEF Holds
<1>12. Homes'
  BY <1>1, <1>2 DEF IInv, Homes, Holds, There
<1>13. Sweeping'
  BY <1>1, <1>2 DEF IInv, Sweeping, Inside
<1>14. NamesStayUnique' /\ DeletionIsNeverForgotten' /\ NothingOutlivesTheCombat'
  BY <1>1 DEF IInv, NamesStayUnique, DeletionIsNeverForgotten, NothingOutlivesTheCombat, There, Inside
<1> QED
  BY <1>3, <1>4, <1>7, <1>8, <1>9, <1>10, <1>11, <1>12, <1>13, <1>14 DEF IInv

\* The restart forgets the commands; the documents are as good as before.
LEMMA RestartStep == ASSUME IInv, Restart PROVE IInv'
<1>1. /\ TypeOK /\ combat' = combat /\ folders' = folders /\ home' = home /\ roots' = roots /\ early' = early /\ creating' = {}
      /\ faults' \in 0..MaxFaults
      /\ req' = [r \in Requests |-> Free]
  BY FaultsCount DEF IInv, Restart, docs
<1>2. TypeOK'
  BY <1>1, FreeIsShaped DEF TypeOK, Commands
<1>3. \A r \in Requests : req'[r] = Free
  BY <1>1
<1>4. (Shapes /\ Apart /\ Reserved /\ Holding /\ Undeleted /\ Making /\ Sweeping)'
  BY <1>3, FreeIsShaped DEF Shapes, Apart, Reserved, Holding, Undeleted, Making, Sweeping, Holds, Makes
<1>5. Homes'
  BY <1>1, <1>3, FreeIsShaped DEF IInv, Homes, There, Holds
<1>6. NamesStayUnique' /\ DeletionIsNeverForgotten' /\ NothingOutlivesTheCombat'
  BY <1>1 DEF IInv, NamesStayUnique, DeletionIsNeverForgotten, NothingOutlivesTheCombat, There, Inside
<1> QED
  BY <1>2, <1>4, <1>5, <1>6 DEF IInv

-----------------------------------------------------------------------------
(* What the operators of the actions yield.                                *)

\* A command that goes on as itself.
LEMMA BecomesIsTurn ==
    ASSUME IInv, NEW r \in Requests, NEW m \in Commands, Shaped(m), Becomes(r, m),
           m.kind = req[r].kind, m.e = req[r].e, m.label = req[r].label
    PROVE  Turns(r, m)
BY DEF Becomes, Turns, Steps

\* After the deletion's mark, or without one: history for what was active, else the cleanup, which
\* takes the Folder that is there.
LEMMA ProceedsYields ==
    ASSUME NEW m \in Commands, m.kind = "complete", m.e \in Encounters, m.label = NoLabel
    PROVE  LET p == Proceeds(m) IN
           /\ p \in Commands /\ Shaped(p)
           /\ p.kind = "complete" /\ p.e = m.e /\ p.label = NoLabel
           /\ p.flag.label = m.flag.label /\ p.flag.del = m.flag.del /\ (m.flag.folder => p.flag.folder)
           /\ \/ p.stage = "retain" /\ m.flag.status = "active" /\ p.flag = m.flag
              \/ p.stage = "clean" /\ (p.flag.folder \/ m.e \notin folders)
<1> DEFINE flag == [m.flag EXCEPT !.status = "cleaning", !.folder = m.flag.folder \/ m.e \in folders]
           clean == [m EXCEPT !.stage = "clean", !.flag = flag]
           retain == [m EXCEPT !.stage = "retain"]
<1>1. m.flag \in Flags
  BY DEF Commands
<1>2. /\ flag \in Flags /\ flag.status = "cleaning" /\ flag.label = m.flag.label /\ flag.del = m.flag.del
      /\ m.flag.folder => flag.folder
      /\ flag.folder \/ m.e \notin folders
  BY <1>1 DEF Flags
<1> HIDE DEF flag
<1>3. /\ clean \in Commands /\ clean.kind = "complete" /\ clean.stage = "clean" /\ clean.e = m.e /\ clean.label = NoLabel
      /\ clean.flag = flag
  BY <1>2 DEF Commands
<1>4. /\ retain \in Commands /\ retain.kind = "complete" /\ retain.stage = "retain" /\ retain.e = m.e /\ retain.label = NoLabel
      /\ retain.flag = m.flag
  BY DEF Commands
<1>5. Proceeds(m) = IF m.flag.keep /\ m.flag.status = "active" THEN retain ELSE clean
  BY <1>1 DEF Proceeds, flag, Commands, Flags
<1> HIDE DEF clean, retain
<1>6. Shaped(clean) /\ Shaped(retain)
  BY <1>2, <1>3, <1>4 DEF Shaped
<1> QED
  BY <1>2, <1>3, <1>4, <1>5, <1>6

\* The cleanup's next step knows what it is about to rely on.
LEMMA SweepsYields ==
    ASSUME NEW m \in Commands, m.kind = "complete", m.e \in Encounters, m.label = NoLabel, NEW h,
           {c \in Copies : h[c] = m.e} \subseteq m.doomed,
           m.flag.folder \/ m.e \notin folders \/ m.e \in early
    PROVE  LET p == Sweeps(m, h) IN
           \/ p = Free
           \/ /\ p \in Commands /\ Shaped(p)
              /\ p.kind = "complete" /\ p.e = m.e /\ p.label = NoLabel /\ p.flag = m.flag /\ p.doomed = m.doomed
              /\ \/ p.stage = "purge"
                 \/ p.stage = "dropFolder" /\ {c \in Copies : h[c] = m.e} = {}
                 \/ p.stage = "dropCombat" /\ {c \in Copies : h[c] = m.e} = {} /\ (m.e \notin folders \/ m.e \in early)
<1> DEFINE On(stage) == [m EXCEPT !.stage = stage]
<1>1. \A stage \in {"purge", "dropFolder", "dropCombat"} :
         /\ On(stage) \in Commands
         /\ On(stage).kind = "complete" /\ On(stage).stage = stage /\ On(stage).e = m.e /\ On(stage).label = NoLabel
         /\ On(stage).flag = m.flag /\ On(stage).doomed = m.doomed
  BY DEF Commands
<1>2. Sweeps(m, h) = IF \E c \in m.doomed : h[c] = m.e THEN On("purge")
                     ELSE IF m.flag.folder /\ m.e \in folders
                          THEN IF \E c \in Copies : h[c] = m.e THEN Free ELSE On("dropFolder")
                          ELSE On("dropCombat")
  BY DEF Sweeps
<1> HIDE DEF At
<1>3. \A stage \in {"purge", "dropFolder", "dropCombat"} : Shaped(On(stage))
  BY <1>1 DEF Shaped
<1> QED
  BY <1>1, <1>2, <1>3

-----------------------------------------------------------------------------
(* The invariant.                                                          *)

\* The initial state satisfies the invariant.
LEMMA InitIInv == Init => IInv
<1> SUFFICES ASSUME Init PROVE IInv
  OBVIOUS
<1>1. MaxFaults \in Nat
  BY BoundsAreNats
<1>2. /\ \A r \in Requests : req[r] = Free
      /\ \A e \in Encounters : combat[e] = Absent
      /\ \A c \in Copies : home[c] = Unborn
  BY DEF Init
<1>3. TypeOK
  BY <1>1, FreeIsShaped DEF Init, TypeOK, Commands, Flags, Absent
<1>4. Shapes /\ Apart /\ Reserved /\ Holding /\ Undeleted /\ Making /\ Sweeping
  BY <1>2, FreeIsShaped DEF Shapes, Apart, Reserved, Holding, Undeleted, Making, Sweeping, Holds, Makes
<1>5. Homes
  BY <1>2 DEF Homes, Encounters, Unborn
<1>6. NamesStayUnique /\ DeletionIsNeverForgotten /\ NothingOutlivesTheCombat
  BY <1>2 DEF NamesStayUnique, DeletionIsNeverForgotten, NothingOutlivesTheCombat, There, Absent
<1> QED
  BY <1>3, <1>4, <1>5, <1>6 DEF IInv

\* A command that is not free at its stage has the kind that the stage belongs to.
LEMMA StageIsKind ==
    ASSUME IInv, NEW r \in Requests
    PROVE  /\ req[r] \in Commands /\ Shaped(req[r]) /\ req[r].flag \in Flags
           /\ req[r].stage \in {"root", "joined", "combat"} => req[r].kind = "create" /\ req[r].e = 0
           /\ req[r].stage \in {"folder", "open"} => req[r].kind = "create" /\ Makes(r)
           /\ req[r].stage \in {"nameFolder", "nameFlag"} => req[r].kind = "rename" /\ Holds(r)
           /\ req[r].stage = "policy" => req[r].kind = "policy" /\ Holds(r)
           /\ req[r].stage \in {"copy", "record", "undo", "row"} => req[r].kind = "add" /\ Holds(r)
           /\ req[r].stage \in {"mark", "retain", "clean", "purge", "dropFolder", "dropCombat"} =>
                 req[r].kind = "complete" /\ Holds(r)
           /\ Makes(r) \/ Holds(r) => req[r].e \in Encounters
<1>1. req[r] \in Commands /\ Shaped(req[r])
  BY DEF IInv, TypeOK, Commands, Shapes
<1>2. req[r].flag \in Flags /\ (req[r].kind = "none" => req[r].stage = "idle")
  BY <1>1 DEF Commands, Shaped, Free
<1>3. Makes(r) \/ Holds(r) => req[r].e \in Encounters
  BY <1>1 DEF Makes, Holds, Shaped
<1>4. 0 \notin Encounters
  BY DEF Encounters
<1> QED
  BY <1>1, <1>2, <1>3, <1>4 DEF Commands, Shaped, Makes, Holds

\* The creation's actions.
LEMMA CreationKeeps ==
    ASSUME IInv, NEW r \in Requests,
           Create(r) \/ CreateRoot(r) \/ CreateCombat(r) \/ CreateFolder(r) \/ CreateOpen(r)
    PROVE  IInv'
<1>1. CASE Create(r)
  <2>1. PICK l \in Labels, keep \in BOOLEAN, stage \in {"joined", "root", "combat"} :
           /\ FreeName(l, 0)
           /\ creating' = creating \union {l}
           /\ req' = [req EXCEPT ![r] = [Free EXCEPT !.kind = "create", !.label = l,
                          !.flag = [Absent EXCEPT !.status = "provisioning", !.label = l, !.keep = keep], !.stage = stage]]
    BY <1>1 DEF Create
  <2> DEFINE flag == [Absent EXCEPT !.status = "provisioning", !.label = l, !.keep = keep]
             m == [Free EXCEPT !.kind = "create", !.label = l, !.flag = flag, !.stage = stage]
  <2>2. flag \in Flags /\ flag.status = "provisioning" /\ flag.label = l /\ ~flag.del
    BY DEF Flags, Absent
  <2> HIDE DEF flag
  <2>3. m \in Commands /\ m.kind = "create" /\ m.e = 0 /\ m.label = l /\ m.stage = stage /\ m.flag = flag
    BY <2>2, FreeIsShaped DEF Commands, Free
  <2>4. req' = [req EXCEPT ![r] = m]
    BY <2>1 DEF flag
  <2> HIDE DEF m
  <2>5. Shaped(m) /\ l # NoLabel
    BY <2>2, <2>3, NoLabelApart DEF Shaped, NoLabel
  <2>6. Nothing /\ faults' = faults /\ early' = early /\ req[r] = Free
    BY <1>1 DEF Create, Nothing
  <2>7. \A f \in Encounters : There(f) => combat[f].label # l
    BY <2>1 DEF FreeName, Encounters
  <2> QED
    BY <2>1, <2>3, <2>4, <2>5, <2>6, <2>7, FaultsCount, BeginStep DEF IInv, TypeOK, FreeName
<1>2. CASE CreateRoot(r)
  BY <1>2, RootStep
<1>3. CASE CreateCombat(r)
  <2>1. PICK e \in Encounters :
           /\ combat[e] = Absent
           /\ Write(NewCombat(e, req[r].flag), Becomes(r, [req[r] EXCEPT !.e = e, !.stage = "folder"]), Ends(r))
    BY <1>3 DEF CreateCombat
  <2> DEFINE m == [req[r] EXCEPT !.e = e, !.stage = "folder"]
  <2>2. req[r].kind = "create" /\ req[r].e = 0 /\ req[r] \in Commands /\ Shaped(req[r])
    BY <1>3, StageIsKind DEF CreateCombat
  <2>3. /\ m \in Commands /\ m.kind = "create" /\ m.e = e /\ m.stage = "folder"
        /\ m.label = req[r].label /\ m.flag = req[r].flag
    BY <2>2 DEF Commands
  <2> HIDE DEF m
  <2>4. Shaped(m)
    BY <2>2, <2>3 DEF Shaped
  <2>5. Becomes(r, m) => Steps(r, m)
    BY <2>1, <2>2, <2>3, <2>4 DEF Becomes, Steps
  <2>6. Ends(r) => Turns(r, Free) /\ Steps(r, Free)
    BY EndIsTurn DEF Turns
  <2>7. faults' \in 0..MaxFaults
    BY <2>1, FaultsCount DEF Write, IInv
  <2>8. CASE NewCombat(e, req[r].flag) /\ Becomes(r, m)
    BY <2>1, <2>2, <2>3, <2>5, <2>7, <2>8, NewCombatStep
  <2>9. CASE NewCombat(e, req[r].flag) /\ Ends(r)
    BY <2>1, <2>2, <2>6, <2>7, <2>9, NewCombatStep
  <2>10. CASE Nothing /\ Ends(r)
    BY <2>6, <2>7, <2>10, KeepStep
  <2> QED
    BY <2>1, <2>8, <2>9, <2>10 DEF Write, m
<1>4. CASE CreateFolder(r)
  <2> DEFINE m == [req[r] EXCEPT !.stage = "open"]
  <2>1. Makes(r) /\ req[r].e \in Encounters /\ req[r].kind = "create" /\ req[r].stage = "folder" /\ req[r] \in Commands /\ Shaped(req[r])
    BY <1>4, StageIsKind DEF CreateFolder
  <2>2. m \in Commands /\ m.kind = "create" /\ m.e = req[r].e /\ m.stage = "open" /\ m.label = req[r].label /\ m.flag = req[r].flag
    BY <2>1 DEF Commands
  <2>3. Write(NewFolder(req[r].e), Becomes(r, m), Ends(r))
    BY <1>4 DEF CreateFolder, Goes
  <2> HIDE DEF m
  <2>4. Shaped(m)
    BY <2>1, <2>2 DEF Shaped
  <2>5. Becomes(r, m) => Turns(r, m)
    BY <2>1, <2>2, <2>4, BecomesIsTurn
  <2>6. Ends(r) => Turns(r, Free)
    BY EndIsTurn
  <2>7. faults' \in 0..MaxFaults
    BY <2>3, FaultsCount DEF Write, IInv
  <2>8. CASE NewFolder(req[r].e) /\ Becomes(r, m)
    BY <2>1, <2>2, <2>5, <2>7, <2>8, NewFolderStep
  <2>9. CASE NewFolder(req[r].e) /\ Ends(r)
    BY <2>1, <2>6, <2>7, <2>9, NewFolderStep
  <2>10. CASE Nothing /\ Ends(r)
    BY <2>6, <2>7, <2>10, KeepStep
  <2> QED
    BY <2>3, <2>8, <2>9, <2>10 DEF Write
<1>5. CASE CreateOpen(r)
  <2>1. Makes(r) /\ req[r].e \in Encounters
    BY <1>5, StageIsKind DEF CreateOpen
  <2>2. Ends(r) /\ Turns(r, Free)
    BY <1>5, EndIsTurn DEF CreateOpen, Write
  <2>3. faults' \in 0..MaxFaults
    BY <1>5, FaultsCount DEF CreateOpen, Write, IInv
  <2>4. CASE Nothing
    BY <2>2, <2>3, <2>4, KeepStep
  <2>5. CASE There(req[r].e) /\ SaveFlag(req[r].e, [req[r].flag EXCEPT !.status = "active", !.folder = TRUE])
    BY <2>1, <2>2, <2>3, <2>5, OpenStep
  <2> QED
    BY <1>5, <2>4, <2>5 DEF CreateOpen, Write
<1> QED
  BY <1>1, <1>2, <1>3, <1>4, <1>5

\* The actions of rename and setTurnPolicy.
LEMMA SettingsKeep ==
    ASSUME IInv, NEW r \in Requests,
           Rename(r) \/ NameFolder(r) \/ NameFlag(r) \/ SetPolicy(r) \/ SavePolicy(r)
    PROVE  IInv'
<1>1. Ends(r) => Turns(r, Free)
  BY EndIsTurn
<1>2. CASE Rename(r)
  <2>1. PICK e \in Encounters, l \in Labels :
           /\ Active(e) /\ combat[e].folder /\ FreeName(l, e)
           /\ Begins(r, [Free EXCEPT !.kind = "rename", !.e = e, !.label = l, !.stage = "nameFolder"])
           /\ creating' = creating \union {l} /\ early' = early
    BY <1>2 DEF Rename
  <2> DEFINE m == [Free EXCEPT !.kind = "rename", !.e = e, !.label = l, !.stage = "nameFolder", !.flag = combat[e]]
  <2>2. combat[e] \in Flags
    BY DEF IInv, TypeOK
  <2>3. /\ m \in Commands /\ m.kind = "rename" /\ m.e = e /\ m.label = l /\ m.stage = "nameFolder" /\ m.flag = combat[e]
        /\ m = [[Free EXCEPT !.kind = "rename", !.e = e, !.label = l, !.stage = "nameFolder"] EXCEPT !.flag = combat[e]]
        /\ [Free EXCEPT !.kind = "rename", !.e = e, !.label = l, !.stage = "nameFolder"].e = e
    BY <2>2, FreeIsShaped DEF Commands, Free
  <2>4. req' = [req EXCEPT ![r] = m] /\ req[r] = Free /\ ~Locked(e) /\ Nothing /\ faults' = faults
    BY <2>1, <2>3 DEF Begins, Nothing
  <2> HIDE DEF m
  <2>5. Shaped(m) /\ l # NoLabel /\ There(e)
    BY <2>1, <2>3, NoLabelApart DEF Shaped, NoLabel, Active, There
  <2> QED
    BY <2>1, <2>3, <2>4, <2>5, FaultsCount, BeginStep DEF IInv, TypeOK, FreeName
<1>3. CASE NameFolder(r)
  <2> DEFINE m == [req[r] EXCEPT !.stage = "nameFlag"]
  <2>1. req[r].kind = "rename" /\ req[r] \in Commands /\ Shaped(req[r]) /\ req[r].stage = "nameFolder"
    BY <1>3, StageIsKind DEF NameFolder
  <2>2. m \in Commands /\ m.kind = "rename" /\ m.e = req[r].e /\ m.stage = "nameFlag" /\ m.label = req[r].label /\ m.flag = req[r].flag
    BY <2>1 DEF Commands
  <2>3. Write(Nothing, Becomes(r, m), Ends(r))
    BY <1>3 DEF NameFolder, Goes
  <2> HIDE DEF m
  <2>4. Becomes(r, m) => Turns(r, m)
    BY <2>1, <2>2, BecomesIsTurn DEF Shaped
  <2> QED
    BY <1>1, <2>2, <2>3, <2>4, FaultsCount, KeepStep DEF Write, IInv
<1>4. CASE NameFlag(r)
  <2> DEFINE flag == [req[r].flag EXCEPT !.label = req[r].label]
  <2>1. req[r].kind = "rename" /\ Holds(r) /\ req[r].e \in Encounters /\ Shaped(req[r]) /\ req[r].flag \in Flags
    BY <1>4, StageIsKind DEF NameFlag
  <2>2. req[r].label \in Labels /\ req[r].label # NoLabel /\ req[r].flag.status = "active"
    BY <2>1, NoLabelApart DEF Shaped, NoLabel
  <2>3. /\ flag \in Flags /\ flag.label = req[r].label /\ flag.status = "active"
        /\ flag.folder = req[r].flag.folder /\ flag.del = req[r].flag.del
    BY <2>1, <2>2 DEF Flags
  <2>4. Write(SaveFlag(req[r].e, flag), Ends(r), Ends(r))
    BY <1>4 DEF NameFlag
  <2> HIDE DEF flag
  <2>5. faults' \in 0..MaxFaults /\ Turns(r, Free)
    BY <1>1, <2>4, FaultsCount DEF Write, IInv
  <2>6. CASE SaveFlag(req[r].e, flag)
    BY <2>1, <2>2, <2>3, <2>5, <2>6, FreeIsShaped, SaveStep
  <2>7. CASE Nothing
    BY <2>5, <2>7, KeepStep
  <2> QED
    BY <2>4, <2>6, <2>7 DEF Write
<1>5. CASE SetPolicy(r)
  <2>1. PICK e \in Encounters :
           /\ Active(e) /\ Begins(r, [Free EXCEPT !.kind = "policy", !.e = e, !.stage = "policy"])
           /\ creating' = creating /\ early' = early
    BY <1>5 DEF SetPolicy
  <2> DEFINE m == [Free EXCEPT !.kind = "policy", !.e = e, !.stage = "policy", !.flag = combat[e]]
  <2>2. combat[e] \in Flags
    BY DEF IInv, TypeOK
  <2>3. /\ m \in Commands /\ m.kind = "policy" /\ m.e = e /\ m.label = NoLabel /\ m.stage = "policy" /\ m.flag = combat[e]
        /\ m = [[Free EXCEPT !.kind = "policy", !.e = e, !.stage = "policy"] EXCEPT !.flag = combat[e]]
        /\ [Free EXCEPT !.kind = "policy", !.e = e, !.stage = "policy"].e = e
    BY <2>2, FreeIsShaped DEF Commands, Free
  <2>4. req' = [req EXCEPT ![r] = m] /\ req[r] = Free /\ ~Locked(e) /\ Nothing /\ faults' = faults
    BY <2>1, <2>3 DEF Begins, Nothing
  <2> HIDE DEF m
  <2>5. Shaped(m) /\ There(e)
    BY <2>1, <2>3 DEF Shaped, Active, There
  <2> QED
    BY <2>1, <2>3, <2>4, <2>5, FaultsCount, BeginStep DEF IInv, TypeOK
<1>6. CASE SavePolicy(r)
  <2>1. /\ req[r].kind = "policy" /\ Holds(r) /\ req[r].e \in Encounters /\ req[r].flag \in Flags
        /\ req[r].flag.status = "active"
    BY <1>6, StageIsKind DEF SavePolicy, Shaped
  <2>2. Write(SaveFlag(req[r].e, req[r].flag), Ends(r), Ends(r))
    BY <1>6 DEF SavePolicy
  <2>3. faults' \in 0..MaxFaults /\ Turns(r, Free)
    BY <1>1, <2>2, FaultsCount DEF Write, IInv
  <2>4. CASE SaveFlag(req[r].e, req[r].flag)
    BY <2>1, <2>3, <2>4, FreeIsShaped, SaveStep
  <2>5. CASE Nothing
    BY <2>3, <2>5, KeepStep
  <2> QED
    BY <2>2, <2>4, <2>5 DEF Write
<1> QED
  BY <1>2, <1>3, <1>4, <1>5, <1>6

\* The actions of addPackActor.
LEMMA AddingKeeps ==
    ASSUME IInv, NEW r \in Requests,
           AddPackActor(r) \/ CreateActor(r) \/ RecordCopy(r) \/ RemoveCopy(r) \/ CreateRow(r)
    PROVE  IInv'
<1>1. Ends(r) => Turns(r, Free)
  BY EndIsTurn
<1>2. home \in [Copies -> Encounters \union {Unborn, Dead}]
  BY DEF IInv, TypeOK
<1>3. CASE AddPackActor(r)
  <2>1. PICK e \in Encounters, quantity \in 1..Cardinality(Copies) :
           /\ Active(e) /\ combat[e].folder
           /\ Begins(r, [Free EXCEPT !.kind = "add", !.e = e, !.many = quantity, !.stage = "copy"])
           /\ creating' = creating /\ early' = early
    BY <1>3 DEF AddPackActor
  <2>2. quantity \in Nat /\ quantity > 0
    BY CopiesFinite, FS_CardinalityType
  <2> DEFINE m == [Free EXCEPT !.kind = "add", !.e = e, !.many = quantity, !.stage = "copy", !.flag = combat[e]]
  <2>3. combat[e] \in Flags
    BY DEF IInv, TypeOK
  <2>4. /\ m \in Commands /\ m.kind = "add" /\ m.e = e /\ m.label = NoLabel /\ m.stage = "copy" /\ m.flag = combat[e]
        /\ m.many = quantity
        /\ m = [[Free EXCEPT !.kind = "add", !.e = e, !.many = quantity, !.stage = "copy"] EXCEPT !.flag = combat[e]]
        /\ [Free EXCEPT !.kind = "add", !.e = e, !.many = quantity, !.stage = "copy"].e = e
    BY <2>2, <2>3, FreeIsShaped DEF Commands, Free
  <2>5. req' = [req EXCEPT ![r] = m] /\ req[r] = Free /\ ~Locked(e) /\ Nothing /\ faults' = faults
    BY <2>1, <2>4 DEF Begins, Nothing
  <2> HIDE DEF m
  <2>6. Shaped(m) /\ There(e)
    BY <2>1, <2>2, <2>4 DEF Shaped, Active, There
  <2> QED
    BY <2>1, <2>4, <2>5, <2>6, FaultsCount, BeginStep DEF IInv, TypeOK
<1>4. CASE CreateActor(r)
  <2>1. /\ req[r].kind = "add" /\ Holds(r) /\ req[r].e \in Encounters /\ req[r] \in Commands /\ Shaped(req[r])
    BY <1>4, StageIsKind DEF CreateActor
  <2>2. CASE Nothing /\ Ends(r)
    <3>1. faults' \in 0..MaxFaults
      BY <1>4, FaultsCount DEF CreateActor, Write, IInv
    <3> QED
      BY <1>1, <2>2, <3>1, KeepStep
  <2>3. ASSUME NEW c \in Copies,
               Write(NewCopy(c, req[r].e), Becomes(r, [req[r] EXCEPT !.copy = c, !.stage = "record"]), Ends(r))
        PROVE  IInv'
    <3> DEFINE m == [req[r] EXCEPT !.copy = c, !.stage = "record"]
    <3>1. /\ m \in Commands /\ m.kind = "add" /\ m.e = req[r].e /\ m.label = req[r].label /\ m.flag = req[r].flag
          /\ m.stage = "record" /\ m.copy = c /\ m.many = req[r].many
      BY <2>1 DEF Commands
    <3>2. Write(NewCopy(c, req[r].e), Becomes(r, m), Ends(r))
      BY <2>3
    <3> HIDE DEF m
    <3>3. Becomes(r, m) => Turns(r, m)
      BY <2>1, <3>1, BecomesIsTurn DEF Shaped
    <3>4. faults' \in 0..MaxFaults
      BY <3>2, FaultsCount DEF Write, IInv
    <3>5. CASE NewCopy(c, req[r].e)
      <4>1. /\ home' \in [Copies -> Encounters \union {Unborn, Dead}]
            /\ \A d \in Copies : home'[d] = home[d] \/ home'[d] = req[r].e
            /\ combat' = combat /\ folders' = folders /\ roots' = roots
        BY <1>2, <2>1, <3>5 DEF NewCopy
      <4>2. Free.stage # "retain" /\ Free.kind # "complete"
        BY DEF Free
      <4>3. CASE Becomes(r, m)
        BY <2>1, <3>1, <3>3, <3>4, <4>1, <4>3, ContentStep
      <4>4. CASE Ends(r)
        BY <1>1, <2>1, <3>4, <4>1, <4>2, <4>4, ContentStep
      <4> QED
        BY <3>2, <4>3, <4>4 DEF Write
    <3>6. CASE Nothing /\ Ends(r)
      BY <1>1, <3>4, <3>6, KeepStep
    <3> QED
      BY <3>2, <3>5, <3>6 DEF Write
  <2> QED
    BY <1>4, <2>2, <2>3 DEF CreateActor
<1>5. CASE RecordCopy(r)
  <2> DEFINE flag == [req[r].flag EXCEPT !.copies = req[r].flag.copies \union {req[r].copy}]
             row == [req[r] EXCEPT !.flag = flag, !.stage = "row"]
             undo == [req[r] EXCEPT !.stage = "undo"]
  <2>1. /\ req[r].kind = "add" /\ Holds(r) /\ req[r].e \in Encounters /\ req[r] \in Commands /\ Shaped(req[r])
        /\ req[r].flag \in Flags /\ req[r].flag.status = "active" /\ req[r].copy \in Copies
    BY <1>5, StageIsKind DEF RecordCopy, Shaped
  <2>2. Write(SaveFlag(req[r].e, flag), Becomes(r, row), Becomes(r, undo))
    BY <1>5 DEF RecordCopy, Goes
  <2>3. /\ flag \in Flags /\ flag.label = req[r].flag.label /\ flag.status = "active"
        /\ flag.folder = req[r].flag.folder /\ flag.del = req[r].flag.del
    BY <2>1 DEF Flags
  <2> HIDE DEF flag
  <2>4. /\ row \in Commands /\ row.kind = "add" /\ row.e = req[r].e /\ row.label = req[r].label /\ row.flag = flag
        /\ row.stage = "row" /\ row.many = req[r].many
        /\ undo \in Commands /\ undo.kind = "add" /\ undo.e = req[r].e /\ undo.label = req[r].label /\ undo.flag = req[r].flag
        /\ undo.stage = "undo" /\ undo.many = req[r].many /\ undo.copy = req[r].copy
    BY <2>1, <2>3 DEF Commands
  <2> HIDE DEF row, undo
  <2>5. (Becomes(r, row) => Turns(r, row)) /\ (Becomes(r, undo) => Turns(r, undo))
    <3>1. Shaped(row) /\ Shaped(undo)
      BY <2>1, <2>3, <2>4 DEF Shaped
    <3> QED
      BY <2>1, <2>4, <3>1, BecomesIsTurn
  <2>6. faults' \in 0..MaxFaults
    BY <2>2, FaultsCount DEF Write, IInv
  <2>7. CASE SaveFlag(req[r].e, flag) /\ Becomes(r, row)
    BY <2>1, <2>3, <2>4, <2>5, <2>6, <2>7, SaveStep
  <2>8. CASE SaveFlag(req[r].e, flag) /\ Becomes(r, undo)
    BY <2>1, <2>3, <2>4, <2>5, <2>6, <2>8, SaveStep
  <2>9. CASE Nothing /\ Becomes(r, undo)
    BY <2>4, <2>5, <2>6, <2>9, KeepStep
  <2> QED
    BY <2>2, <2>7, <2>8, <2>9 DEF Write
<1>6. CASE RemoveCopy(r)
  <2>1. req[r].kind = "add" /\ Holds(r) /\ req[r].e \in Encounters /\ req[r].copy \in Copies
    BY <1>6, StageIsKind DEF RemoveCopy, Shaped
  <2>2. Turns(r, Free) /\ faults' \in 0..MaxFaults
    BY <1>1, <1>6, FaultsCount DEF RemoveCopy, Write, IInv
  <2>3. CASE Nothing
    BY <2>2, <2>3, KeepStep
  <2>4. CASE DropCopy(req[r].copy)
    <3>1. /\ home' \in [Copies -> Encounters \union {Unborn, Dead}]
          /\ \A d \in Copies : home'[d] = home[d] \/ home'[d] = Dead
          /\ combat' = combat /\ folders' = folders /\ roots' = roots
      BY <1>2, <2>1, <2>4 DEF DropCopy
    <3>2. Free.stage # "retain" /\ Free.kind # "complete"
      BY DEF Free
    <3> QED
      BY <2>1, <2>2, <3>1, <3>2, ContentStep
  <2> QED
    BY <1>6, <2>3, <2>4 DEF RemoveCopy, Write
<1>7. CASE CreateRow(r)
  <2> DEFINE less == req[r].many - 1
             m == [req[r] EXCEPT !.many = less, !.stage = "copy"]
  <2>1. req[r].kind = "add" /\ req[r] \in Commands /\ Shaped(req[r]) /\ req[r].many \in Nat /\ req[r].many > 0
    BY <1>7, StageIsKind DEF CreateRow, Shaped, Commands
  <2>2. Write(Nothing, IF req[r].many = 1 THEN Ends(r) ELSE Becomes(r, m), Ends(r))
    BY <1>7 DEF CreateRow
  <2>3. req[r].many # 1 => /\ m \in Commands /\ m.kind = "add" /\ m.e = req[r].e /\ m.label = req[r].label
                           /\ m.flag = req[r].flag /\ m.stage = "copy" /\ m.many > 0
    <3>1. req[r].many # 1 => less \in Nat /\ less > 0
      BY <2>1
    <3> HIDE DEF less
    <3> QED
      BY <2>1, <3>1 DEF Commands
  <2> HIDE DEF m
  <2>4. req[r].many # 1 /\ Becomes(r, m) => Turns(r, m)
    BY <2>1, <2>3, BecomesIsTurn DEF Shaped
  <2>5. faults' \in 0..MaxFaults /\ Nothing
    BY <2>2, FaultsCount DEF Write, IInv
  <2>6. CASE Ends(r)
    BY <1>1, <2>5, <2>6, KeepStep
  <2>7. CASE req[r].many # 1 /\ Becomes(r, m)
    BY <2>3, <2>4, <2>5, <2>7, KeepStep
  <2> QED
    BY <2>2, <2>6, <2>7 DEF Write
<1> QED
  BY <1>3, <1>4, <1>5, <1>6, <1>7

\* The actions of complete and destroy.
LEMMA DeletionKeeps ==
    ASSUME IInv, NEW r \in Requests,
           Complete(r) \/ Mark(r) \/ Retain(r) \/ Clean(r) \/ DeleteActor(r) \/ DeleteFolder(r) \/ DeleteCombat(r)
    PROVE  IInv'
<1>1. Ends(r) => Turns(r, Free)
  BY EndIsTurn
<1>2. home \in [Copies -> Encounters \union {Unborn, Dead}]
  BY DEF IInv, TypeOK
<1>3. /\ req[r] \in Commands /\ Shaped(req[r]) /\ req[r].flag \in Flags
      /\ req[r].kind = "complete" =>
            /\ Holds(r) /\ req[r].e \in Encounters /\ req[r].label = NoLabel
            /\ \A c \in Copies : home[c] = req[r].e => req[r].flag.folder
  <2>1. req[r] \in Commands /\ Shaped(req[r]) /\ req[r].flag \in Flags
    BY StageIsKind
  <2>2. req[r].kind = "complete" => Holds(r) /\ req[r].e \in Encounters /\ req[r].label = NoLabel
    BY <2>1 DEF Holds, Shaped
  <2> QED
    BY <2>1, <2>2 DEF IInv, Homes
<1>4. Free.stage # "retain" /\ Free.kind # "complete"
  BY DEF Free
<1>5. CASE Complete(r)
  <2>1. PICK e \in Encounters, force \in BOOLEAN :
           LET m == [Free EXCEPT !.kind = "complete", !.e = e, !.flag = combat[e]] IN
           /\ There(e) /\ ~Locked(e) /\ req[r] = Free
           /\ \/ req' = [req EXCEPT ![r] = [m EXCEPT !.flag = Marked(@), !.stage = "mark"]]
              \/ req' = [req EXCEPT ![r] = Proceeds(m)]
           /\ early' = IF Creates(e) THEN early \union {e} ELSE early
           /\ creating' = creating /\ faults' = faults /\ Nothing
    BY <1>5 DEF Complete, Nothing
  <2> DEFINE m == [Free EXCEPT !.kind = "complete", !.e = e, !.flag = combat[e]]
             flag == Marked(combat[e])
             mark == [m EXCEPT !.flag = flag, !.stage = "mark"]
             on == Proceeds(m)
  <2>2. combat[e] \in Flags
    BY DEF IInv, TypeOK
  <2>3. m \in Commands /\ m.kind = "complete" /\ m.e = e /\ m.label = NoLabel /\ m.flag = combat[e]
    BY <2>2, FreeIsShaped DEF Commands, Free
  <2>4. flag \in Flags /\ flag.status = "cleaning" /\ flag.label = combat[e].label /\ flag.folder = combat[e].folder
    BY <2>2 DEF Marked, Flags
  <2>5. \/ req' = [req EXCEPT ![r] = mark]
        \/ req' = [req EXCEPT ![r] = on]
    BY <2>1, <2>3
  <2>6. /\ on \in Commands /\ Shaped(on) /\ on.kind = "complete" /\ on.e = e /\ on.label = NoLabel
        /\ on.flag.label = combat[e].label /\ (combat[e].folder => on.flag.folder)
        /\ \/ on.stage = "retain" /\ combat[e].status = "active" /\ on.flag = combat[e]
           \/ on.stage = "clean" /\ (on.flag.folder \/ e \notin folders)
    BY <2>3, ProceedsYields
  <2> HIDE DEF m, flag, on
  <2>7. /\ mark \in Commands /\ mark.kind = "complete" /\ mark.e = e /\ mark.label = NoLabel /\ mark.stage = "mark"
        /\ mark.flag = flag
    BY <2>3, <2>4 DEF Commands
  <2> HIDE DEF mark
  <2>8. Shaped(mark)
    BY <2>4, <2>7 DEF Shaped
  <2>9. early \subseteq early' /\ early' \subseteq Encounters /\ (Creates(e) => e \in early') /\ faults' \in 0..MaxFaults
    BY <2>1, FaultsCount DEF IInv, TypeOK
  <2>10. CASE req' = [req EXCEPT ![r] = mark]
    BY <2>1, <2>4, <2>7, <2>8, <2>9, <2>10, BeginStep
  <2>11. CASE req' = [req EXCEPT ![r] = on]
    BY <2>1, <2>6, <2>9, <2>11, BeginStep DEF Active
  <2> QED
    BY <2>5, <2>10, <2>11
<1>6. CASE Mark(r)
  <2> DEFINE on == Proceeds(req[r])
  <2>1. req[r].kind = "complete" /\ req[r].stage = "mark" /\ req[r].flag.status = "cleaning"
    BY <1>6, StageIsKind DEF Mark, Shaped
  <2>2. /\ on \in Commands /\ Shaped(on) /\ on.kind = "complete" /\ on.e = req[r].e /\ on.label = NoLabel
        /\ on.flag.label = req[r].flag.label /\ (req[r].flag.folder => on.flag.folder)
        /\ on.stage = "clean" /\ (on.flag.folder \/ on.e \notin folders)
    BY <1>3, <2>1, ProceedsYields
  <2>3. Write(SaveFlag(req[r].e, req[r].flag), Becomes(r, on), Ends(r))
    BY <1>6 DEF Mark
  <2> HIDE DEF on
  <2>4. Becomes(r, on) => Turns(r, on)
    BY <1>3, <2>1, <2>2, BecomesIsTurn
  <2>5. faults' \in 0..MaxFaults
    BY <2>3, FaultsCount DEF Write, IInv
  <2>6. CASE SaveFlag(req[r].e, req[r].flag) /\ Becomes(r, on)
    <3>1. on.flag.folder = req[r].flag.folder \/ on.flag.folder
      BY <1>3, <2>2 DEF Flags, Commands
    <3> QED
      BY <1>3, <2>1, <2>2, <2>4, <2>5, <2>6, <3>1, SaveStep
  <2>7. CASE SaveFlag(req[r].e, req[r].flag) /\ Ends(r)
    BY <1>1, <1>3, <1>4, <2>1, <2>5, <2>7, SaveStep
  <2>8. CASE Nothing /\ Ends(r)
    BY <1>1, <2>5, <2>8, KeepStep
  <2> QED
    BY <2>3, <2>6, <2>7, <2>8 DEF Write
<1>7. CASE Retain(r)
  <2> DEFINE flag == [req[r].flag EXCEPT !.status = "completed"]
  <2>1. req[r].kind = "complete" /\ req[r].stage = "retain"
    BY <1>7, StageIsKind DEF Retain
  <2>2. /\ flag \in Flags /\ flag.label = req[r].flag.label /\ flag.status = "completed"
        /\ flag.folder = req[r].flag.folder /\ flag.del = req[r].flag.del
    BY <1>3 DEF Flags
  <2>3. Write(SaveFlag(req[r].e, flag), Ends(r), Ends(r))
    BY <1>7 DEF Retain
  <2> HIDE DEF flag
  <2>4. faults' \in 0..MaxFaults /\ Turns(r, Free)
    BY <1>1, <2>3, FaultsCount DEF Write, IInv
  <2>5. CASE SaveFlag(req[r].e, flag)
    BY <1>3, <1>4, <2>1, <2>2, <2>4, <2>5, SaveStep
  <2>6. CASE Nothing
    BY <2>4, <2>6, KeepStep
  <2> QED
    BY <2>3, <2>5, <2>6 DEF Write
<1>8. CASE Clean(r)
  <2> DEFINE m == [req[r] EXCEPT !.doomed = req[r].doomed \union req[r].flag.copies]
             on == Sweeps(m, home)
  <2>1. req[r].kind = "complete" /\ req[r].stage = "clean" /\ req[r].flag.status = "cleaning"
    BY <1>8, StageIsKind DEF Clean, Shaped
  <2>2. Write(SaveFlag(req[r].e, req[r].flag), IF Owned(req[r]) THEN Becomes(r, on) ELSE Ends(r), Ends(r))
    BY <1>8 DEF Clean
  <2>3. /\ m \in Commands /\ m.kind = "complete" /\ m.e = req[r].e /\ m.label = NoLabel /\ m.flag = req[r].flag
        /\ req[r].flag.copies \subseteq m.doomed
    BY <1>3, <2>1 DEF Commands, Flags
  <2>4. m.flag.folder \/ m.e \notin folders \/ m.e \in early
    BY <2>1, <2>3 DEF IInv, Sweeping
  <2> HIDE DEF m
  <2>5. Owned(req[r]) => {c \in Copies : home[c] = m.e} \subseteq m.doomed
    BY <1>3, <2>1, <2>3 DEF Owned, Inside
  <2>6. Owned(req[r]) =>
           \/ on = Free
           \/ /\ on \in Commands /\ Shaped(on)
              /\ on.kind = "complete" /\ on.e = m.e /\ on.label = NoLabel /\ on.flag = m.flag /\ on.doomed = m.doomed
              /\ \/ on.stage = "purge"
                 \/ on.stage = "dropFolder" /\ {c \in Copies : home[c] = m.e} = {}
                 \/ on.stage = "dropCombat" /\ {c \in Copies : home[c] = m.e} = {} /\ (m.e \notin folders \/ m.e \in early)
    BY <1>3, <2>1, <2>3, <2>4, <2>5, SweepsYields
  <2> HIDE DEF on
  <2>7. Owned(req[r]) /\ Becomes(r, on) => Turns(r, on)
    <3>1. Becomes(r, Free) => Turns(r, Free)
      BY FreeIsShaped DEF Becomes, Turns, Steps
    <3> QED
      BY <1>3, <2>1, <2>3, <2>6, <3>1, BecomesIsTurn
  <2>8. faults' \in 0..MaxFaults
    BY <2>2, FaultsCount DEF Write, IInv
  <2>9. CASE SaveFlag(req[r].e, req[r].flag) /\ Owned(req[r]) /\ Becomes(r, on)
    <3>1. Turns(r, on)
      BY <2>7, <2>9
    <3>2. on.kind = "complete" =>
              /\ on.stage \in {"clean", "purge", "dropFolder"} => on.flag.folder \/ on.e \notin folders \/ on.e \in early
              /\ on.stage = "purge" => Inside(on.e) \subseteq on.doomed
              /\ on.stage \in {"dropFolder", "dropCombat"} => Inside(on.e) = {}
              /\ on.stage = "dropCombat" => on.e \notin folders \/ on.e \in early
      BY <1>4, <2>3, <2>4, <2>5, <2>6, <2>9 DEF Inside
    <3>3. \/ on = Free
          \/ on.kind = "complete" /\ on.flag = req[r].flag /\ on.stage # "retain"
      BY <2>3, <2>6, <2>9
    <3> QED
      BY <1>3, <2>1, <2>8, <2>9, <3>1, <3>2, <3>3, SaveStep
  <2>10. CASE SaveFlag(req[r].e, req[r].flag) /\ Ends(r)
    BY <1>1, <1>3, <1>4, <2>1, <2>8, <2>10, SaveStep
  <2>11. CASE Nothing /\ Ends(r)
    BY <1>1, <2>8, <2>11, KeepStep
  <2> QED
    BY <2>2, <2>9, <2>10, <2>11 DEF Write
<1>9. CASE DeleteActor(r)
  <2>1. req[r].kind = "complete" /\ req[r].stage = "purge"
    BY <1>9, StageIsKind DEF DeleteActor
  <2>2. PICK c \in req[r].doomed :
           Write(DropCopy(c), Becomes(r, Sweeps(req[r], home')), Ends(r))
    BY <1>9 DEF DeleteActor
  <2> DEFINE on == Sweeps(req[r], home')
  <2>3. Inside(req[r].e) \subseteq req[r].doomed /\ (req[r].flag.folder \/ req[r].e \notin folders \/ req[r].e \in early)
    BY <2>1 DEF IInv, Sweeping
  <2>4. faults' \in 0..MaxFaults
    BY <2>2, FaultsCount DEF Write, IInv
  <2>5. CASE DropCopy(c)
    <3>1. /\ home' \in [Copies -> Encounters \union {Unborn, Dead}]
          /\ \A d \in Copies : home'[d] = home[d] \/ home'[d] = Dead
          /\ combat' = combat /\ folders' = folders /\ roots' = roots
      BY <1>2, <2>5 DEF DropCopy
    <3>2. {d \in Copies : home'[d] = req[r].e} \subseteq req[r].doomed
      BY <1>3, <2>1, <2>3, <3>1 DEF Inside, Dead, Encounters
    <3>3. \/ on = Free
          \/ /\ on \in Commands /\ Shaped(on)
             /\ on.kind = "complete" /\ on.e = req[r].e /\ on.label = NoLabel /\ on.flag = req[r].flag /\ on.doomed = req[r].doomed
             /\ \/ on.stage = "purge"
                \/ on.stage = "dropFolder" /\ {d \in Copies : home'[d] = req[r].e} = {}
                \/ on.stage = "dropCombat" /\ {d \in Copies : home'[d] = req[r].e} = {}
                   /\ (req[r].e \notin folders \/ req[r].e \in early)
      BY <1>3, <2>1, <2>3, <3>2, SweepsYields
    <3>4. CASE Ends(r)
      BY <1>1, <1>3, <1>4, <2>1, <2>4, <3>1, <3>4, ContentStep
    <3>5. CASE Becomes(r, on)
      <4> HIDE DEF on
      <4>1. Turns(r, on)
        <5>1. Becomes(r, Free) => Turns(r, Free)
          BY FreeIsShaped DEF Becomes, Turns, Steps
        <5> QED
          BY <1>3, <2>1, <3>3, <3>5, <5>1, BecomesIsTurn
      <4>2. on.stage # "retain" /\ (on = Free \/ on.flag = req[r].flag)
        BY <1>4, <3>3
      <4>3. on.kind = "complete" =>
              /\ on.stage \in {"clean", "purge", "dropFolder"} => on.flag.folder \/ on.e \notin folders' \/ on.e \in early
              /\ on.stage = "purge" => {d \in Copies : home'[d] = on.e} \subseteq on.doomed
              /\ on.stage \in {"dropFolder", "dropCombat"} => {d \in Copies : home'[d] = on.e} = {}
              /\ on.stage = "dropCombat" => on.e \notin folders' \/ on.e \in early
        BY <1>4, <2>3, <3>1, <3>2, <3>3
      <4> QED
        BY <1>3, <2>1, <2>4, <3>1, <4>1, <4>2, <4>3, ContentStep
    <3> QED
      BY <2>2, <3>4, <3>5 DEF Write
  <2>6. CASE Nothing /\ Ends(r)
    BY <1>1, <2>4, <2>6, KeepStep
  <2> QED
    BY <2>2, <2>5, <2>6 DEF Write
<1>10. CASE DeleteFolder(r)
  <2> DEFINE m == [req[r] EXCEPT !.stage = "dropCombat"]
  <2>1. req[r].kind = "complete" /\ req[r].stage = "dropFolder"
    BY <1>10, StageIsKind DEF DeleteFolder
  <2>2. Write(DropFolder(req[r].e), Becomes(r, m), Ends(r))
    BY <1>10 DEF DeleteFolder, Goes
  <2>3. m \in Commands /\ m.kind = "complete" /\ m.e = req[r].e /\ m.label = NoLabel /\ m.flag = req[r].flag /\ m.stage = "dropCombat"
    BY <1>3, <2>1 DEF Commands
  <2> HIDE DEF m
  <2>4. Becomes(r, m) => Turns(r, m)
    BY <1>3, <2>1, <2>3, BecomesIsTurn DEF Shaped
  <2>5. faults' \in 0..MaxFaults
    BY <2>2, FaultsCount DEF Write, IInv
  <2>6. CASE DropFolder(req[r].e)
    <3>1. folders' \subseteq folders /\ req[r].e \notin folders' /\ combat' = combat /\ home' = home /\ roots' = roots
      BY <2>6 DEF DropFolder
    <3>2. {c \in Copies : home'[c] = m.e} = {}
      BY <2>1, <2>3, <3>1 DEF IInv, Sweeping, Inside
    <3>3. CASE Becomes(r, m)
      BY <1>2, <1>3, <2>1, <2>3, <2>4, <2>5, <3>1, <3>2, <3>3, ContentStep
    <3>4. CASE Ends(r)
      BY <1>1, <1>2, <1>3, <1>4, <2>1, <2>5, <3>1, <3>4, ContentStep
    <3> QED
      BY <2>2, <3>3, <3>4 DEF Write
  <2>7. CASE Nothing /\ Ends(r)
    BY <1>1, <2>5, <2>7, KeepStep
  <2> QED
    BY <2>2, <2>6, <2>7 DEF Write
<1>11. CASE DeleteCombat(r)
  <2>1. req[r].kind = "complete" /\ req[r].stage = "dropCombat"
    BY <1>11, StageIsKind DEF DeleteCombat
  <2>2. Write(DropCombat(req[r].e), Ends(r), Ends(r))
    BY <1>11 DEF DeleteCombat
  <2>3. faults' \in 0..MaxFaults /\ Turns(r, Free)
    BY <1>1, <2>2, FaultsCount DEF Write, IInv
  <2>4. CASE DropCombat(req[r].e)
    BY <1>3, <2>1, <2>3, <2>4, CombatStep
  <2>5. CASE Nothing
    BY <2>3, <2>5, KeepStep
  <2> QED
    BY <2>2, <2>4, <2>5 DEF Write
<1> QED
  BY <1>5, <1>6, <1>7, <1>8, <1>9, <1>10, <1>11

\* Every step keeps the invariant.
LEMMA NextIInv == IInv /\ [Next]_vars => IInv'
<1> SUFFICES ASSUME IInv, [Next]_vars PROVE IInv'
  OBVIOUS
<1>1. CASE UNCHANGED vars
  BY <1>1 DEF vars, docs, IInv, TypeOK, Shapes, Apart, Reserved, Holding, Undeleted, Making, Homes, Sweeping,
              Holds, Makes, There, Inside, NamesStayUnique, DeletionIsNeverForgotten, NothingOutlivesTheCombat
<1>2. CASE Restart
  BY <1>2, RestartStep
<1>3. ASSUME NEW r \in Requests,
             Create(r) \/ CreateRoot(r) \/ CreateCombat(r) \/ CreateFolder(r) \/ CreateOpen(r)
      PROVE  IInv'
  BY <1>3, CreationKeeps
<1>4. ASSUME NEW r \in Requests,
             Rename(r) \/ NameFolder(r) \/ NameFlag(r) \/ SetPolicy(r) \/ SavePolicy(r)
      PROVE  IInv'
  BY <1>4, SettingsKeep
<1>5. ASSUME NEW r \in Requests,
             AddPackActor(r) \/ CreateActor(r) \/ RecordCopy(r) \/ RemoveCopy(r) \/ CreateRow(r)
      PROVE  IInv'
  BY <1>5, AddingKeeps
<1>6. ASSUME NEW r \in Requests,
             Complete(r) \/ Mark(r) \/ Retain(r) \/ Clean(r) \/ DeleteActor(r) \/ DeleteFolder(r) \/ DeleteCombat(r)
      PROVE  IInv'
  BY <1>6, DeletionKeeps
<1> QED
  BY <1>1, <1>2, <1>3, <1>4, <1>5, <1>6 DEF Next

\* The invariant holds in every reachable state.
THEOREM Invariance == Spec => []IInv
  BY InitIInv, NextIInv, PTL DEF Spec

\* The documents and the commands have their types.
THEOREM TypeCorrect == Spec => []TypeOK
<1>1. IInv => TypeOK
  BY DEF IInv
<1> QED
  BY <1>1, Invariance, PTL

\* No two encounters have the same name: creatingNames and the check of the names that are there suffice,
\* for any number of creations and renames at once.  (create, rename)
THEOREM NamesUnique == Spec => []NamesStayUnique
<1>1. IInv => NamesStayUnique
  BY DEF IInv
<1> QED
  BY <1>1, Invariance, PTL

\* An encounter whose deletion is stored is neither active nor history again, unless its creation was under
\* way when it was asked for.  (complete, destroy, updateFlag)
THEOREM DeletionRemembered == Spec => []DeletionIsNeverForgotten
<1>1. IInv => DeletionIsNeverForgotten
  BY DEF IInv
<1> QED
  BY <1>1, Invariance, PTL

\* A deleted Combat leaves no copied Actor, and no Folder unless its creation was under way.  (complete,
\* addPackActor, create)
THEOREM NothingLeft == Spec => []NothingOutlivesTheCombat
<1>1. IInv => NothingOutlivesTheCombat
  BY DEF IInv
<1> QED
  BY <1>1, Invariance, PTL

-----------------------------------------------------------------------------
(* The order of the rows *)

\* The rows before one are finitely many.
LEMMA RowsBefore ==
    ASSUME NEW k \in Documents, NEW c
    PROVE  LET D == {d \in k.in : Precedes(k, d, c)}
           IN IsFiniteSet(D) /\ Cardinality(D) \in Nat /\ Cardinality(D) <= N
<1> DEFINE D == {d \in k.in : Precedes(k, d, c)}
<1>1. N \in Nat /\ D \in SUBSET (1..N)
  BY TurnBoundsAreNats DEF Documents, Combatants
<1>2. IsFiniteSet(1..N) /\ Cardinality(1..N) = N
  BY <1>1, FS_Interval
<1>3. IsFiniteSet(D) /\ Cardinality(D) <= N /\ Cardinality(D) \in Nat
  BY <1>1, <1>2, FS_Subset, FS_CardinalityType
<1> QED
  BY <1>3

\* Rows are counted from 0 and there are no more than N.
LEMMA IndexRange ==
    ASSUME NEW k \in Documents, NEW c
    PROVE  Index(k, c) \in Nat /\ Index(k, c) <= N
BY RowsBefore DEF Index

\* Precedes is a strict total order of the combatants.
LEMMA RowsAreOrdered ==
    ASSUME NEW k \in Documents, NEW a \in Combatants, NEW b \in Combatants, NEW c \in Combatants
    PROVE  /\ ~Precedes(k, a, a)
           /\ Precedes(k, a, b) => ~Precedes(k, b, a)
           /\ a # b => Precedes(k, a, b) \/ Precedes(k, b, a)
           /\ Precedes(k, a, b) /\ Precedes(k, b, c) => Precedes(k, a, c)
<1>1. N \in Nat /\ MaxScore \in Nat
  BY TurnBoundsAreNats
<1>2. \A d \in Combatants : d \in Int /\ k.score[d] \in Int
  BY <1>1 DEF Documents, Combatants, Scores, Unscored
<1> QED
  BY <1>2 DEF Precedes

\* A row's index is its place in that order.
LEMMA IndexOrder ==
    ASSUME NEW k \in Documents, NEW a \in k.in, NEW b \in k.in
    PROVE  /\ Precedes(k, a, b) <=> Index(k, a) < Index(k, b)
           /\ Index(k, a) = Index(k, b) => a = b
<1>1. k.in \subseteq Combatants
  BY DEF Documents
<1>2. ASSUME NEW x \in k.in, NEW y \in k.in, Precedes(k, x, y)
      PROVE  Index(k, x) < Index(k, y)
  <2> DEFINE X == {d \in k.in : Precedes(k, d, x)}
             Y == {d \in k.in : Precedes(k, d, y)}
  <2>1. X \in SUBSET Y /\ x \in Y /\ x \notin X
    BY <1>1, <1>2, RowsAreOrdered
  <2>2. IsFiniteSet(Y) /\ Cardinality(X) \in Int /\ Cardinality(Y) \in Int
    BY RowsBefore
  <2>3. Cardinality(X) <= Cardinality(Y) /\ Cardinality(X) # Cardinality(Y)
    BY <2>1, <2>2, FS_Subset
  <2> QED
    BY <2>2, <2>3 DEF Index
<1>3. Index(k, a) \in Int /\ Index(k, b) \in Int
  BY IndexRange
<1>4. a = b \/ Precedes(k, a, b) \/ Precedes(k, b, a)
  BY <1>1, RowsAreOrdered
<1>5. CASE a = b
  BY <1>1, <1>3, <1>5, RowsAreOrdered
<1>6. CASE Precedes(k, a, b)
  BY <1>2, <1>3, <1>6
<1>7. CASE Precedes(k, b, a)
  BY <1>1, <1>2, <1>3, <1>7, RowsAreOrdered
<1> QED
  BY <1>4, <1>5, <1>6, <1>7

\* The current combatant is the one whose index the turn is.
LEMMA CurrentRow ==
    ASSUME NEW k \in Documents
    PROVE  /\ Current(k) # None => Current(k) \in k.in /\ Index(k, Current(k)) = k.turn
           /\ \A c \in k.in : Index(k, c) = k.turn => Current(k) = c
           /\ k.turn = NoTurn => Current(k) = None
           /\ Current(k) \in k.in \cup {None}
<1> DEFINE here == {c \in k.in : Index(k, c) = k.turn}
<1>1. Current(k) = IF here = {} THEN None ELSE CHOOSE c \in here : TRUE
  BY DEF Current
<1>2. here # {} => Current(k) \in here
  BY <1>1
<1>3. \A c, d \in here : c = d
  BY IndexOrder
<1>4. k.turn = NoTurn => here = {}
  BY IndexRange DEF NoTurn
<1> QED
  BY <1>1, <1>2, <1>3, <1>4

\* The order is one of scores: what keeps the rows and their scores keeps it.
LEMMA SameRows ==
    ASSUME NEW k \in Documents, NEW n \in Documents, n.in = k.in, n.score = k.score
    PROVE  /\ \A c : Index(n, c) = Index(k, c)
           /\ \A a, b : Precedes(n, a, b) <=> Precedes(k, a, b)
           /\ n.turn = k.turn => Current(n) = Current(k)
<1>1. \A a, b : Precedes(n, a, b) <=> Precedes(k, a, b)
  BY DEF Precedes
<1>2. \A c : Index(n, c) = Index(k, c)
  BY <1>1 DEF Index
<1>3. n.turn = k.turn => Current(n) = Current(k)
  BY <1>2, CurrentRow
<1> QED
  BY <1>1, <1>2, <1>3

\* When one row changes, another moves up by one place at most.
LEMMA OneRowMoves ==
    ASSUME NEW k \in Documents, NEW n \in Documents, NEW x, NEW c \in Combatants,
           \A d \in Combatants \ {x} : (d \in k.in <=> d \in n.in) /\ n.score[d] = k.score[d],
           n.score[c] = k.score[c]
    PROVE  Index(n, c) >= Index(k, c) - 1
<1> DEFINE K == {d \in k.in : Precedes(k, d, c)}
           M == {d \in n.in : Precedes(n, d, c)}
<1>1. K \ {x} \in SUBSET M
  BY DEF Precedes, Documents
<1>2. IsFiniteSet(K) /\ IsFiniteSet(M) /\ Cardinality(K) \in Int /\ Cardinality(M) \in Int
  BY RowsBefore
<1> HIDE DEF K, M
<1>3. Cardinality(K \ {x}) <= Cardinality(M) /\ Cardinality(K \ {x}) >= Cardinality(K) - 1
      /\ Cardinality(K \ {x}) \in Int
  BY <1>1, <1>2, FS_Subset, FS_RemoveElement
<1> QED
  BY <1>2, <1>3 DEF Index, K, M

\* Of any rows there is a first.
LEMMA FirstRow ==
    ASSUME NEW k \in Documents, NEW S \in SUBSET k.in, S # {}
    PROVE  First(k, S) \in S /\ \A d \in S \ {First(k, S)} : Precedes(k, First(k, S), d)
<1> DEFINE Before(c) == {d \in k.in : Precedes(k, d, c)}
           T == {Before(c) : c \in S}
<1>1. k.in \subseteq Combatants
  BY DEF Documents
<1>2. T \subseteq FiniteSubsetsOf(k.in) /\ T # {}
  BY RowsBefore DEF FiniteSubsetsOf
<1>3. IsWellFoundedOn(StrictSubsetOrdering(k.in), FiniteSubsetsOf(k.in))
  BY FS_StrictSubsetOrderingWellFounded
<1> HIDE DEF T
<1>4. PICK X \in T : \A Y \in T : ~(<<Y, X>> \in StrictSubsetOrdering(k.in))
  BY <1>2, <1>3, WFMin
<1>5. PICK c \in S : X = Before(c)
  BY <1>4 DEF T
<1>6. ASSUME NEW d \in S \ {c}
      PROVE  Precedes(k, c, d)
  <2> SUFFICES ASSUME Precedes(k, d, c) PROVE FALSE
    BY <1>1, RowsAreOrdered
  <2>1. Before(d) \subseteq Before(c) /\ d \in Before(c) /\ d \notin Before(d)
    BY <1>1, RowsAreOrdered
  <2>2. Before(d) \in T
    BY DEF T
  <2>3. <<Before(d), Before(c)>> \in StrictSubsetOrdering(k.in)
    BY <2>1 DEF StrictSubsetOrdering
  <2> QED
    BY <1>4, <1>5, <2>2, <2>3
<1>7. \E e \in S : \A d \in S \ {e} : Precedes(k, e, d)
  BY <1>6
<1> QED
  BY <1>7 DEF First

-----------------------------------------------------------------------------
(* The invariant *)

\* A command's request and what it keeps.
TurnRequests ==
    [kind : {"none", "update", "reset", "add", "remove", "rollAll", "rollOne", "player"},
     stage : {"idle", "pause", "write", "roll", "score", "restore", "preserve", "mend", "done"},
     who : 0..N, score : -1..MaxScore, skip : {Keep, "on", "off"}, was : 0..N, held : 0..N, turn : -1..N, round : 0..MaxRound,
     targets : SUBSET Combatants, left : SUBSET Combatants, out : {"ok", "error", "unsure"}]

\* Who left has neither score nor Skip.
Bare(k) == \A c \in Combatants \ k.in : k.score[c] = Unscored /\ ~k.skip[c]

\* Nobody who is due comes before w.
Behind(k, w, o) == w \in k.in => \A c \in o : Precedes(k, w, c)

\* Encounter k, while those of o are due: they come after the turn, or after the place of the one that is paused.
DocFits(k, o, v) ==
    /\ k \in Documents /\ Bare(k) /\ o \subseteq Eligible(k)
    /\ k.round = 0 => o = {}
    /\ ~Paused(k) => \A c \in o : Index(k, c) > k.turn
    /\ Paused(k) => \A c \in o : AfterAnchor(k, c) /\ c # k.pause.who
    /\ Paused(k) /\ (o # {} \/ ~v.pause) => k.turn = NoTurn

\* Command m saw the turn of m.held, and nobody moved it since.
Sees(k, m, v) == k.round > 0 /\ ~v.cmd /\ m.held # None /\ m.kind # "remove"

\* The turn it saw can be given back, or is paused.
Returns(k, m) == /\ m.was = m.held
                 /\ IF Paused(k) THEN k.pause.who = m.held ELSE m.held \in Eligible(k)

AtPause(k, m, o, v) ==
    /\ m.kind \in {"update", "reset"}
    /\ m.kind = "update" => m.who \in k.in
    /\ ~Paused(k) /\ m.was # None
    /\ o # {} \/ Sees(k, m, v) => Current(k) = m.was
    /\ Sees(k, m, v) => m.was = m.held

AtWrite(k, m, o, v) ==
    /\ m.kind \in {"update", "reset", "add", "remove"}
    /\ m.kind \in {"update", "remove"} => m.who \in k.in
    /\ m.kind = "add" => m.who \in Combatants \ k.in
    /\ m.kind = "remove" => m.targets = {}
    /\ o # {} => IF Paused(k) THEN m.was \in {None, k.pause.who} ELSE Current(k) = m.was
    /\ m.kind = "remove" /\ Paused(k) /\ (o # {} \/ ~v.pause) => m.was = None
    /\ m.kind = "remove" /\ o # {} => k.turn = m.turn
    /\ Sees(k, m, v) =>
         /\ Returns(k, m)
         /\ ~Paused(k) => /\ m.kind # "reset" /\ Current(k) = m.held
                          /\ m.kind = "update" /\ m.who = m.held => m.score # Unscored /\ m.skip # "on"

\* The rows of a batch that are left have no score; other commands roll for one row.
AtRoll(k, m, o, v) ==
    /\ m.kind \in {"rollAll", "rollOne", "player"}
    /\ m.stage = "score" => m.who \in m.left
    /\ IF m.kind = "rollAll" THEN \A c \in m.left : k.score[c] = Unscored ELSE \E c \in m.left : m.left = {c}
    /\ o # {} => IF Paused(k) THEN m.was \in {None, k.pause.who}
                 ELSE Behind(k, m.was, o) /\ (m.kind # "rollAll" => Current(k) = m.was)
    /\ Sees(k, m, v) => ~Paused(k) /\ Returns(k, m) /\ (m.kind = "player" => Current(k) = m.held)

AtRestore(k, m, o, v) ==
    /\ m.kind \in {"update", "rollAll", "rollOne"}
    /\ Paused(k) /\ k.pause.who \in Eligible(k)
    /\ o # {} => m.was \in {None, k.pause.who}
    /\ Sees(k, m, v) => m.kind = "update" /\ Returns(k, m)

AtPreserve(k, m, o, v) ==
    /\ ~Paused(k) /\ m.was \in Eligible(k)
    /\ Behind(k, m.was, o)
    /\ Sees(k, m, v) => m.was = m.held

AtMend(k, m, o, v) ==
    /\ m.kind = "remove"
    /\ o # {} => ~Paused(k) /\ k.turn = m.turn
    /\ Paused(k) /\ ~v.pause => Eligible(k) = {}

AtDone(k, m, o, v) ==
    Sees(k, m, v) /\ (m.out = "ok" \/ (m.out = "error" /\ m.kind \in Finally)) => Holder(k) = m.held

Posed(k, m) == m \in TurnRequests /\ m.targets \subseteq k.in /\ m.left \subseteq m.targets

\* Where command m is, it knows what it must about k.
Fits(k, m, o, v) ==
    /\ Posed(k, m)
    /\ m.stage = "pause" => AtPause(k, m, o, v)
    /\ m.stage = "write" => AtWrite(k, m, o, v)
    /\ m.stage \in {"roll", "score"} => AtRoll(k, m, o, v)
    /\ m.stage = "restore" => AtRestore(k, m, o, v)
    /\ m.stage = "preserve" => AtPreserve(k, m, o, v)
    /\ m.stage = "mend" => AtMend(k, m, o, v)
    /\ m.stage = "done" => AtDone(k, m, o, v)

TurnInv ==
    /\ DocFits(encounter, owed, moved)
    /\ Fits(encounter, cmd, owed, moved)
    /\ moved \in [cmd : BOOLEAN, pause : BOOLEAN]
    /\ events \in 0..MaxEvents

-----------------------------------------------------------------------------
(* How commands end *)

\* A command may end with an error, or with the turn where it was.
LEMMA FinishFits ==
    ASSUME NEW k, NEW m, NEW o, NEW v, NEW out \in {"ok", "error", "unsure"},
           Posed(k, m),
           Sees(k, m, v) /\ (out = "ok" \/ (out = "error" /\ m.kind \in Finally)) => Holder(k) = m.held
    PROVE  Fits(k, Finishes(m, out), o, v)
<1> DEFINE f == [m EXCEPT !.stage = "done", !.out = out]
<1>1. Finishes(m, out) = f
  BY DEF Finishes
<1>2. Posed(k, f) /\ f.stage = "done" /\ f.out = out /\ f.kind = m.kind /\ f.held = m.held
  BY DEF Posed, TurnRequests
<1> HIDE DEF f
<1>3. AtDone(k, f, o, v)
  BY <1>2 DEF AtDone, Sees
<1> QED
  BY <1>1, <1>2, <1>3 DEF Fits

\* Nothing is left of it but, at most, to give the turn back.
LEMMA PreservingFits ==
    ASSUME NEW k, NEW m, NEW o, NEW v, NEW out \in {"ok", "error"},
           DocFits(k, o, v), Posed(k, m),
           ~Paused(k) => Behind(k, m.was, o),
           Sees(k, m, v) => Returns(k, m)
    PROVE  Fits(k, Preserving(k, m, out), o, v)
<1>1. CASE Preserves(k, m.was)
  <2> DEFINE f == [m EXCEPT !.stage = "preserve", !.out = out]
  <2>1. Preserving(k, m, out) = f
    BY <1>1 DEF Preserving
  <2>2. Posed(k, f) /\ f.stage = "preserve" /\ f.was = m.was /\ f.kind = m.kind /\ f.held = m.held
    BY DEF Posed, TurnRequests
  <2> HIDE DEF f
  <2>3. AtPreserve(k, f, o, v)
    BY <1>1, <2>2 DEF AtPreserve, Sees, Returns, Preserves
  <2> QED
    BY <2>1, <2>2, <2>3 DEF Fits
<1>2. CASE ~Preserves(k, m.was)
  <2>1. Preserving(k, m, out) = Finishes(m, out)
    BY <1>2 DEF Preserving
  <2>2. ASSUME Sees(k, m, v)
        PROVE  Holder(k) = m.held
    <3>1. CASE Paused(k)
      BY <2>2, <3>1 DEF Returns, Holder
    <3>2. CASE ~Paused(k)
      <4>1. m.was = m.held /\ m.held \in k.in /\ Index(k, m.held) = k.turn
        BY <1>2, <2>2, <3>2 DEF Returns, Preserves, Sees, Eligible
      <4> QED
        BY <3>2, <4>1, CurrentRow DEF DocFits, Holder
    <3> QED
      BY <3>1, <3>2
  <2> QED
    BY <2>1, <2>2, FinishFits
<1> QED
  BY <1>1, <1>2

\* What throws gives it back in a `finally`, where there is one.
LEMMA ThrowsFits ==
    ASSUME NEW k, NEW m, NEW o, NEW v,
           DocFits(k, o, v), Posed(k, m),
           m.kind \in Finally => /\ ~Paused(k) => Behind(k, m.was, o)
                                 /\ Sees(k, m, v) => Returns(k, m)
    PROVE  Fits(k, Throws(k, m), o, v)
<1>1. CASE m.kind \in Finally
  BY <1>1, PreservingFits DEF Throws
<1>2. CASE m.kind \notin Finally
  BY <1>2, FinishFits DEF Throws
<1> QED
  BY <1>1, <1>2

-----------------------------------------------------------------------------
(* Who is due *)

\* While the turn is where the due are counted from, they come after who has it.
LEMMA CurrentIsBehind ==
    ASSUME NEW k, NEW o, NEW v, DocFits(k, o, v), ~Paused(k)
    PROVE  Behind(k, Current(k), o)
<1>1. o \subseteq k.in
  BY DEF DocFits, Eligible
<1>2. Current(k) \in k.in => Index(k, Current(k)) = k.turn
  BY CurrentRow DEF DocFits, Documents, Combatants, None
<1> QED
  BY <1>1, <1>2, IndexOrder DEF DocFits, Behind

\* Writes that leave scores and Skip alone leave the due alone, but for who gets the turn.
LEMMA OwingShrinks ==
    ASSUME NEW n
    PROVE  /\ Owing(encounter, n) \subseteq owed
           /\ \A c \in Owing(encounter, n) : c \in n.in /\ c # Current(n)
                  /\ n.score[c] = encounter.score[c] /\ n.skip[c] = encounter.skip[c]
           /\ Displaces(encounter, n) => Owing(encounter, n) = {}
BY DEF Owing

\* One row changes, under the turn as it is: who is due still comes after it, or has it.
LEMMA RowFits ==
    ASSUME DocFits(encounter, owed, moved), NEW n \in Documents, Bare(n), NEW x,
           \A d \in Combatants \ {x} : (d \in encounter.in <=> d \in n.in) /\ n.score[d] = encounter.score[d],
           n.round = encounter.round, n.turn = encounter.turn, n.pause = encounter.pause,
           NEW v, v.pause = moved.pause \/ ~Paused(n)
    PROVE  DocFits(n, Owing(encounter, n), v)
<1> DEFINE o == Owing(encounter, n)
<1>1. /\ o \subseteq owed
      /\ \A c \in o : c \in n.in /\ c # Current(n)
                  /\ n.score[c] = encounter.score[c] /\ n.skip[c] = encounter.skip[c]
  BY OwingShrinks
<1> HIDE DEF o
<1>2. o \subseteq Eligible(n)
  BY <1>1 DEF DocFits, Eligible
<1>3. ASSUME ~Paused(n), NEW c \in o
      PROVE  Index(n, c) > n.turn
  <2>1. Index(encounter, c) > encounter.turn
    BY <1>1, <1>3 DEF DocFits, Paused
  <2>2. Index(n, c) >= Index(encounter, c) - 1
    BY <1>1, OneRowMoves DEF DocFits, Documents
  <2>3. Index(n, c) # n.turn
    BY <1>1, CurrentRow
  <2>4. Index(n, c) \in Int /\ Index(encounter, c) \in Int /\ n.turn \in Int
    BY IndexRange DEF DocFits, Documents
  <2> QED
    BY <2>1, <2>2, <2>3, <2>4
<1>4. Paused(n) => \A c \in o : AfterAnchor(n, c) /\ c # n.pause.who
  BY <1>1 DEF DocFits, Paused, AfterAnchor
<1>5. /\ n.round = 0 => o = {}
      /\ Paused(n) /\ (o # {} \/ ~v.pause) => n.turn = NoTurn
  BY <1>1 DEF DocFits, Paused
<1> QED
  BY <1>2, <1>3, <1>4, <1>5 DEF DocFits, o

\* Who came before the due still does, unless the write moves it from the turn.
LEMMA RowStaysBehind ==
    ASSUME DocFits(encounter, owed, moved), NEW n \in Documents,
           n.pause = encounter.pause, ~Paused(n), NEW w,
           Behind(encounter, w, owed), w \in n.in => w \in encounter.in,
           n.score[w] = encounter.score[w] \/ Current(encounter) = w
    PROVE  Behind(n, w, Owing(encounter, n))
<1> SUFFICES ASSUME w \in n.in, NEW c \in Owing(encounter, n)
             PROVE  Precedes(n, w, c)
  BY DEF Behind
<1>1. c \in owed /\ n.score[c] = encounter.score[c] /\ ~Displaces(encounter, n)
  BY OwingShrinks
<1>2. n.score[w] = encounter.score[w]
  <2> SUFFICES ASSUME Current(encounter) = w PROVE n.score[w] = encounter.score[w]
    OBVIOUS
  <2>1. w # None /\ ~Paused(encounter)
    BY DEF Documents, Combatants, None, Paused
  <2> QED
    BY <1>1, <2>1 DEF Displaces, Holder
<1> QED
  BY <1>1, <1>2 DEF Behind, Precedes

-----------------------------------------------------------------------------
(* The writes *)

\* The command and the encounter go on as they must.
Onward == DocFits(encounter', owed', moved') /\ Fits(encounter', cmd', owed', moved')

\* What a write does to what history remembers.
LEMMA LandsFacts ==
    ASSUME TurnInv, NEW n, NEW d, Lands(n, d)
    PROVE  /\ encounter' = n /\ owed' = d
           /\ moved'.cmd = moved.cmd
           /\ Paused(encounter) => moved'.pause = moved.pause
           /\ ~Paused(encounter) => ~moved'.pause
BY DEF TurnInv, Lands

\* A roll is answered and its score is written.
LEMMA ScoreStep ==
    ASSUME TurnInv, Score
    PROVE  Onward
<1> USE DEF TurnInv
<1>1. PICK v \in Scores : LET n == [encounter EXCEPT !.score[cmd.who] = v] IN
          Sends(n, Owing(encounter, n), Scored(n), Throws(encounter', cmd))
  BY DEF Score
<1> DEFINE n == [encounter EXCEPT !.score[cmd.who] = v]
           o == Owing(encounter, n)
<1>2. AtRoll(encounter, cmd, owed, moved) /\ Posed(encounter, cmd) /\ cmd.who \in cmd.left
  BY DEF Score, Fits, AtRoll
<1>3. cmd.who \in encounter.in /\ encounter \in Documents /\ encounter.in \subseteq Combatants
  BY <1>2 DEF Posed, DocFits, Documents
<1>4. /\ n \in Documents /\ n.in = encounter.in /\ n.skip = encounter.skip
      /\ n.round = encounter.round /\ n.turn = encounter.turn /\ n.pause = encounter.pause
      /\ n.score[cmd.who] = v
      /\ \A d \in Combatants \ {cmd.who} : n.score[d] = encounter.score[d]
  BY <1>3 DEF Documents
<1>5. v # Unscored
  BY TurnBoundsAreNats DEF Scores, Unscored
<1> HIDE DEF n
<1>6. Bare(n)
  BY <1>3, <1>4 DEF DocFits, Bare
<1>7. Posed(n, cmd)
  BY <1>2, <1>4 DEF Posed
<1>8. ~Paused(n) => Behind(n, cmd.was, o)
  <2> SUFFICES ASSUME ~Paused(n), owed # {} PROVE Behind(n, cmd.was, o)
    BY OwingShrinks DEF Behind
  <2>1. Behind(encounter, cmd.was, owed) /\ (cmd.kind # "rollAll" => Current(encounter) = cmd.was)
    BY <1>2, <1>4 DEF AtRoll, Paused
  <2>2. CASE cmd.was \notin encounter.in
    BY <1>4, <2>2 DEF Behind
  <2>3. CASE cmd.was \in encounter.in
    <3>1. PICK c \in owed : c \in Eligible(encounter) /\ Precedes(encounter, cmd.was, c)
      BY <2>1, <2>3 DEF DocFits, Behind
    <3>2. encounter.score[cmd.was] # Unscored
      BY <1>3, <2>3, <3>1, TurnBoundsAreNats
         DEF Eligible, Precedes, Documents, Combatants, Scores, Unscored
    <3>3. n.score[cmd.was] = encounter.score[cmd.was] \/ Current(encounter) = cmd.was
      BY <1>2, <1>3, <1>4, <2>1, <2>3, <3>2 DEF AtRoll
    <3> QED
      BY <1>4, <2>1, <2>3, <3>3, RowStaysBehind
  <2> QED
    BY <2>2, <2>3
<1>9. ASSUME NEW w, Sees(n, cmd, w), w.cmd = moved.cmd
      PROVE  ~Paused(n) /\ Returns(n, cmd) /\ cmd.was \in Eligible(n)
             /\ (cmd.kind = "player" => Current(encounter) = cmd.held)
  <2>1. Sees(encounter, cmd, moved)
    BY <1>4, <1>9 DEF Sees
  <2>2. ~Paused(encounter) /\ Returns(encounter, cmd) /\ (cmd.kind = "player" => Current(encounter) = cmd.held)
    BY <1>2, <2>1 DEF AtRoll
  <2> QED
    BY <1>3, <1>4, <1>5, <2>2 DEF Returns, Paused, Eligible
<1>10. CASE Unwritten /\ cmd' = Throws(encounter', cmd)
  <2>1. ~Paused(encounter) => Behind(encounter, cmd.was, owed)
    BY <1>2 DEF AtRoll, Behind
  <2>2. Fits(encounter, Throws(encounter, cmd), owed, moved)
    BY <1>2, <2>1, ThrowsFits DEF AtRoll
  <2> QED
    BY <1>10, <2>2 DEF Unwritten, Onward
<1>11. CASE Lands(n, o) /\ (cmd' = Scored(n) \/ cmd' = Throws(encounter', cmd))
  <2>1. /\ encounter' = n /\ owed' = o
        /\ moved'.cmd = moved.cmd /\ (moved'.pause = moved.pause \/ ~Paused(n))
    BY <1>4, <1>11, LandsFacts DEF Paused
  <2>2. DocFits(n, o, moved')
    BY <1>4, <1>6, <2>1, RowFits
  <2>3. Sees(n, cmd, moved') => Returns(n, cmd)
    BY <1>9, <2>1
  <2>4. Fits(n, Throws(n, cmd), o, moved')
    BY <1>7, <1>8, <2>2, <2>3, ThrowsFits
  <2> DEFINE m == [cmd EXCEPT !.left = @ \ {cmd.who}]
  <2>5. /\ Posed(n, m) /\ m.was = cmd.was /\ m.held = cmd.held /\ m.kind = cmd.kind
        /\ m.left = cmd.left \ {cmd.who} /\ m.targets = cmd.targets
    BY <1>7 DEF Posed, TurnRequests
  <2>6. Sees(n, m, moved') => Sees(n, cmd, moved') /\ (Returns(n, m) <=> Returns(n, cmd))
    BY <2>5 DEF Sees, Returns
  <2>7. ASSUME cmd.kind = "player"
        PROVE  Fits(n, Scored(n), o, moved')
    <3>1. Scored(n) = PlayerScored(n)
      BY <2>7 DEF Scored
    <3>2. Fits(n, Finishes(cmd, "error"), o, moved')
      BY <1>7, <2>7, FinishFits DEF Finally
    <3>3. Fits(n, Preserving(n, cmd, "ok"), o, moved')
      BY <1>7, <1>8, <2>2, <2>3, PreservingFits
    <3> QED
      BY <3>1, <3>2, <3>3 DEF PlayerScored
  <2>8. ASSUME cmd.kind # "player" /\ m.left # {}
        PROVE  Fits(n, Scored(n), o, moved')
    <3> DEFINE r == [m EXCEPT !.stage = "roll"]
    <3>1. Scored(n) = r
      BY <2>8 DEF Scored
    <3>2. /\ Posed(n, r) /\ r.stage = "roll" /\ r.was = cmd.was /\ r.held = cmd.held /\ r.kind = cmd.kind
          /\ r.left = cmd.left \ {cmd.who}
      BY <2>5 DEF Posed, TurnRequests
    <3> HIDE DEF m, r
    <3>3. r.kind = "rollAll" /\ \A c \in r.left : n.score[c] = Unscored
      <4>1. cmd.kind = "rollAll"
        BY <1>2, <2>5, <2>8 DEF AtRoll
      <4>2. r.left \subseteq Combatants \ {cmd.who} /\ \A c \in cmd.left : encounter.score[c] = Unscored
        BY <1>2, <1>3, <3>2, <4>1 DEF AtRoll, Posed
      <4> QED
        BY <1>4, <3>2, <4>1, <4>2
    <3>4. o # {} /\ Paused(n) => r.was \in {None, n.pause.who}
      BY <1>2, <1>4, <3>2, OwingShrinks DEF AtRoll, Paused
    <3>5. Sees(n, r, moved') => ~Paused(n) /\ Returns(n, r)
      BY <1>9, <2>1, <3>2 DEF Sees, Returns
    <3>6. AtRoll(n, r, o, moved')
      BY <1>8, <3>2, <3>3, <3>4, <3>5 DEF AtRoll
    <3> QED
      BY <3>1, <3>2, <3>6 DEF Fits
  <2>9. ASSUME cmd.kind # "player" /\ m.left = {}
        PROVE  Fits(n, Scored(n), o, moved')
    <3> DEFINE r == [m EXCEPT !.stage = "restore"]
    <3>1. Scored(n) = Preserving(n, m, "ok") \/ (Scored(n) = r /\ Restores(n, n.pause.who))
      BY <2>9 DEF Scored, Restoring
    <3>2. /\ Posed(n, r) /\ r.stage = "restore" /\ r.was = cmd.was /\ r.held = cmd.held /\ r.kind = cmd.kind
      BY <2>5 DEF Posed, TurnRequests
    <3> HIDE DEF m, r
    <3>3. ASSUME Restores(n, n.pause.who)
          PROVE  Fits(n, r, o, moved')
      <4>1. Paused(n) /\ n.pause.who \in Eligible(n)
        BY <3>3 DEF Restores
      <4>2. ~Sees(n, r, moved')
        BY <1>9, <2>1, <3>2, <4>1 DEF Sees
      <4>3. o # {} => r.was \in {None, n.pause.who}
        BY <1>2, <1>4, <3>2, <4>1, OwingShrinks DEF AtRoll, Paused
      <4>4. r.kind \in {"rollAll", "rollOne"}
        BY <1>2, <2>9, <3>2 DEF AtRoll
      <4>5. AtRestore(n, r, o, moved')
        BY <4>1, <4>2, <4>3, <4>4 DEF AtRestore
      <4> QED
        BY <3>2, <4>5 DEF Fits
    <3>4. Fits(n, Preserving(n, m, "ok"), o, moved')
      BY <1>8, <2>2, <2>3, <2>5, <2>6, PreservingFits
    <3> QED
      BY <3>1, <3>3, <3>4
  <2>10. Fits(n, Scored(n), o, moved')
    BY <2>7, <2>8, <2>9
  <2> QED
    BY <1>11, <2>1, <2>2, <2>4, <2>10 DEF Onward
<1> QED
  BY <1>1, <1>10, <1>11 DEF Sends, n

\* A command between its first check and its write, and who is due behind the turn it read.
LEMMA WritesBehind ==
    ASSUME TurnInv, cmd.stage = "write", ~Paused(encounter), owed # {}
    PROVE  Current(encounter) = cmd.was /\ Behind(encounter, cmd.was, owed)
BY CurrentIsBehind DEF TurnInv, Fits, AtWrite

\* The score, Skip or both of one combatant are set.
LEMMA UpdateStep ==
    ASSUME TurnInv, Update
    PROVE  Onward
<1> USE DEF TurnInv
<1> DEFINE n == [encounter EXCEPT !.score[cmd.who] = IF cmd.score = KeepScore THEN @ ELSE cmd.score,
                                  !.skip[cmd.who] = IF cmd.skip = Keep THEN @ ELSE cmd.skip = "on"]
           o == Owing(encounter, n)
<1>1. Sends(n, o, Updated(n), Throws(encounter', cmd))
  BY DEF Update
<1>2. AtWrite(encounter, cmd, owed, moved) /\ Posed(encounter, cmd) /\ cmd.kind = "update" /\ cmd.stage = "write"
  BY DEF Update, Fits
<1>3. cmd.who \in encounter.in /\ encounter \in Documents /\ encounter.in \subseteq Combatants
  BY <1>2 DEF AtWrite, DocFits, Documents
<1> DEFINE s == IF cmd.score = KeepScore THEN encounter.score[cmd.who] ELSE cmd.score
           b == IF cmd.skip = Keep THEN encounter.skip[cmd.who] ELSE cmd.skip = "on"
<1>4. s \in Scores \cup {Unscored} /\ b \in BOOLEAN
  <2>1. encounter.score[cmd.who] \in Scores \cup {Unscored} /\ encounter.skip[cmd.who] \in BOOLEAN
    BY <1>3 DEF Documents
  <2>2. cmd.score \in -1..MaxScore
    BY <1>2 DEF Posed, TurnRequests
  <2>3. cmd.score # KeepScore => cmd.score \in Scores \cup {Unscored}
    BY <2>2, TurnBoundsAreNats DEF KeepScore, Scores, Unscored
  <2> QED
    BY <2>1, <2>3
<1>5. n = [encounter EXCEPT !.score[cmd.who] = s, !.skip[cmd.who] = b]
  OBVIOUS
<1>6. /\ cmd.score = KeepScore => s = encounter.score[cmd.who]
      /\ cmd.score # KeepScore => s = cmd.score
      /\ cmd.skip # "on" /\ ~encounter.skip[cmd.who] => ~b
  BY <1>2 DEF Posed, TurnRequests, Keep
<1> HIDE DEF n, s, b
<1>7. /\ n \in Documents /\ n.in = encounter.in
      /\ n.round = encounter.round /\ n.turn = encounter.turn /\ n.pause = encounter.pause
      /\ n.score[cmd.who] = s /\ n.skip[cmd.who] = b
      /\ \A d \in Combatants \ {cmd.who} : n.score[d] = encounter.score[d] /\ n.skip[d] = encounter.skip[d]
      /\ cmd.score = KeepScore => n.score = encounter.score
  <2> DEFINE p == [encounter.score EXCEPT ![cmd.who] = s]
             q == [encounter.skip EXCEPT ![cmd.who] = b]
  <2>1. n = [encounter EXCEPT !.score = p, !.skip = q]
    BY <1>5
  <2>2. /\ p \in [Combatants -> Scores \cup {Unscored}] /\ p[cmd.who] = s
        /\ \A d \in Combatants \ {cmd.who} : p[d] = encounter.score[d]
        /\ cmd.score = KeepScore => p = encounter.score
    BY <1>3, <1>4, <1>6 DEF Documents
  <2>3. /\ q \in [Combatants -> BOOLEAN] /\ q[cmd.who] = b
        /\ \A d \in Combatants \ {cmd.who} : q[d] = encounter.skip[d]
    BY <1>3, <1>4 DEF Documents
  <2> HIDE DEF p, q
  <2> QED
    BY <1>3, <2>1, <2>2, <2>3 DEF Documents
<1>8. Bare(n) /\ Posed(n, cmd)
  BY <1>2, <1>3, <1>7 DEF DocFits, Bare, Posed
<1>9. ~Paused(n) => Behind(n, cmd.was, o)
  <2> SUFFICES ASSUME ~Paused(n), owed # {} PROVE Behind(n, cmd.was, o)
    BY OwingShrinks DEF Behind
  <2>1. Current(encounter) = cmd.was /\ Behind(encounter, cmd.was, owed)
    BY <1>2, <1>7, WritesBehind DEF Paused
  <2> QED
    BY <1>7, <2>1, RowStaysBehind
<1>10. ASSUME NEW w, Sees(n, cmd, w), w.cmd = moved.cmd
       PROVE  Returns(n, cmd) /\ (~Paused(n) => Current(encounter) = cmd.held)
  <2>1. Sees(encounter, cmd, moved)
    BY <1>7, <1>10 DEF Sees
  <2>2. /\ Returns(encounter, cmd)
        /\ ~Paused(encounter) => /\ Current(encounter) = cmd.held
                                 /\ cmd.who = cmd.held => cmd.score # Unscored /\ cmd.skip # "on"
    BY <1>2, <2>1 DEF AtWrite
  <2>3. CASE Paused(n)
    BY <1>7, <2>2, <2>3 DEF Returns, Paused
  <2>4. CASE ~Paused(n)
    <3>1. cmd.held \in encounter.in /\ encounter.score[cmd.held] # Unscored /\ ~encounter.skip[cmd.held]
      BY <1>7, <2>2, <2>4 DEF Returns, Paused, Eligible
    <3>2. n.score[cmd.held] # Unscored /\ ~n.skip[cmd.held]
      BY <1>3, <1>6, <1>7, <2>2, <2>4, <3>1 DEF Paused
    <3> QED
      BY <1>7, <2>2, <2>4, <3>1, <3>2 DEF Returns, Paused, Eligible
  <2> QED
    BY <2>3, <2>4
<1>11. CASE Unwritten /\ cmd' = Throws(encounter', cmd)
  <2>1. Fits(encounter, Throws(encounter, cmd), owed, moved)
    BY <1>2, ThrowsFits DEF Finally
  <2> QED
    BY <1>11, <2>1 DEF Unwritten, Onward
<1>12. CASE Lands(n, o) /\ (cmd' = Updated(n) \/ cmd' = Throws(encounter', cmd))
  <2>1. /\ encounter' = n /\ owed' = o
        /\ moved'.cmd = moved.cmd /\ (moved'.pause = moved.pause \/ ~Paused(n))
    BY <1>7, <1>12, LandsFacts DEF Paused
  <2>2. DocFits(n, o, moved')
    BY <1>7, <1>8, <2>1, RowFits
  <2>3. Sees(n, cmd, moved') => Returns(n, cmd) /\ (~Paused(n) => Current(encounter) = cmd.held)
    BY <1>10, <2>1
  <2>4. Fits(n, Throws(n, cmd), o, moved')
    BY <1>2, <1>8, <2>2, ThrowsFits DEF Finally
  <2>5. Fits(n, Preserving(n, cmd, "ok"), o, moved')
    BY <1>8, <1>9, <2>2, <2>3, PreservingFits
  <2>6. ASSUME cmd.score = KeepScore
        PROVE  Fits(n, Finishes(cmd, "ok"), o, moved')
    <3>1. Current(n) = Current(encounter)
      BY <1>3, <1>7, <2>6, SameRows
    <3>2. Sees(n, cmd, moved') => Holder(n) = cmd.held
      BY <2>3, <3>1 DEF Returns, Holder
    <3> QED
      BY <1>8, <3>2, FinishFits
  <2> DEFINE r == [cmd EXCEPT !.stage = "restore"]
  <2>7. ASSUME Restores(n, cmd.who)
        PROVE  Fits(n, r, o, moved')
    <3>1. /\ Posed(n, r) /\ r.stage = "restore" /\ r.was = cmd.was /\ r.held = cmd.held /\ r.kind = "update"
      BY <1>2, <1>8 DEF Posed, TurnRequests
    <3> HIDE DEF r
    <3>2. Paused(n) /\ n.pause.who \in Eligible(n)
      BY <2>7 DEF Restores
    <3>3. o # {} => r.was \in {None, n.pause.who}
      BY <1>2, <1>7, <3>1, <3>2, OwingShrinks DEF AtWrite, Paused
    <3>4. Sees(n, r, moved') => Returns(n, r)
      BY <1>2, <2>3, <3>1 DEF Sees, Returns
    <3> QED
      BY <3>1, <3>2, <3>3, <3>4 DEF Fits, AtRestore
  <2>8. Fits(n, Updated(n), o, moved')
    BY <2>5, <2>6, <2>7 DEF Updated
  <2> QED
    BY <1>12, <2>1, <2>2, <2>4, <2>8 DEF Onward
<1> QED
  BY <1>1, <1>11, <1>12 DEF Sends

\* All scores are cleared: nobody is due any more.
LEMMA ResetStep ==
    ASSUME TurnInv, Reset
    PROVE  Onward
<1> USE DEF TurnInv
<1> DEFINE n == [encounter EXCEPT !.score = [c \in Combatants |-> Unscored]]
           o == Owing(encounter, n)
<1>1. Sends(n, o, Preserving(n, cmd, "ok"), Throws(encounter', cmd))
  BY DEF Reset
<1>2. AtWrite(encounter, cmd, owed, moved) /\ Posed(encounter, cmd) /\ cmd.kind = "reset"
  BY DEF Reset, Fits
<1>3. /\ n \in Documents /\ n.in = encounter.in /\ n.skip = encounter.skip
      /\ n.round = encounter.round /\ n.turn = encounter.turn /\ n.pause = encounter.pause
      /\ \A c \in Combatants : n.score[c] = Unscored
  BY DEF DocFits, Documents
<1> HIDE DEF n
<1>4. Bare(n) /\ Posed(n, cmd)
  BY <1>2, <1>3 DEF DocFits, Bare, Posed
<1>5. o = {}
  BY <1>3, OwingShrinks DEF DocFits, Eligible, Documents
<1>6. ASSUME NEW w, Sees(n, cmd, w), w.cmd = moved.cmd
      PROVE  Returns(n, cmd) /\ Returns(encounter, cmd)
  <2>1. Sees(encounter, cmd, moved)
    BY <1>3, <1>6 DEF Sees
  <2> QED
    BY <1>2, <1>3, <2>1 DEF AtWrite, Returns, Paused
<1>7. CASE Unwritten /\ cmd' = Throws(encounter', cmd)
  <2>1. ~Paused(encounter) => Behind(encounter, cmd.was, owed)
    BY WritesBehind DEF Reset, Behind
  <2>2. Sees(encounter, cmd, moved) => Returns(encounter, cmd)
    BY <1>2 DEF AtWrite
  <2>3. Fits(encounter, Throws(encounter, cmd), owed, moved)
    BY <1>2, <2>1, <2>2, ThrowsFits
  <2> QED
    BY <1>7, <2>3 DEF Unwritten, Onward
<1>8. CASE Lands(n, o) /\ (cmd' = Preserving(n, cmd, "ok") \/ cmd' = Throws(encounter', cmd))
  <2>1. /\ encounter' = n /\ owed' = o
        /\ moved'.cmd = moved.cmd /\ (moved'.pause = moved.pause \/ ~Paused(n))
    BY <1>3, <1>8, LandsFacts DEF Paused
  <2>2. DocFits(n, o, moved')
    BY <1>3, <1>4, <1>5, <2>1 DEF DocFits, Paused
  <2>3. Sees(n, cmd, moved') => Returns(n, cmd)
    BY <1>6, <2>1
  <2>4. Behind(n, cmd.was, o)
    BY <1>5 DEF Behind
  <2>5. Fits(n, Throws(n, cmd), o, moved') /\ Fits(n, Preserving(n, cmd, "ok"), o, moved')
    BY <1>4, <2>2, <2>3, <2>4, ThrowsFits, PreservingFits
  <2> QED
    BY <1>8, <2>1, <2>2, <2>5 DEF Onward
<1> QED
  BY <1>1, <1>7, <1>8 DEF Sends

\* A row joins, without a score.
LEMMA AddStep ==
    ASSUME TurnInv, Add
    PROVE  Onward
<1> USE DEF TurnInv
<1> DEFINE n == [encounter EXCEPT !.in = @ \cup {cmd.who}]
           o == Owing(encounter, n)
<1>1. Sends(n, o, Preserving(n, cmd, "ok"), Throws(encounter', cmd))
  BY DEF Add
<1>2. AtWrite(encounter, cmd, owed, moved) /\ Posed(encounter, cmd) /\ cmd.kind = "add" /\ cmd.stage = "write"
  BY DEF Add, Fits
<1>3. /\ n \in Documents /\ n.in = encounter.in \cup {cmd.who} /\ n.skip = encounter.skip
      /\ n.round = encounter.round /\ n.turn = encounter.turn /\ n.pause = encounter.pause
      /\ n.score = encounter.score
      /\ cmd.who \in Combatants \ encounter.in
  BY <1>2 DEF AtWrite, DocFits, Documents
<1> HIDE DEF n
<1>4. Bare(n) /\ Posed(n, cmd)
  BY <1>2, <1>3 DEF DocFits, Bare, Posed
<1>5. ~Paused(n) => Behind(n, cmd.was, o)
  <2> SUFFICES ASSUME ~Paused(n), owed # {} PROVE Behind(n, cmd.was, o)
    BY OwingShrinks DEF Behind
  <2>1. Current(encounter) = cmd.was /\ Behind(encounter, cmd.was, owed)
    BY <1>2, <1>3, WritesBehind DEF Paused
  <2>2. cmd.was \in n.in => cmd.was \in encounter.in
    BY <1>3, <2>1, CurrentRow DEF DocFits, Combatants, None
  <2> QED
    BY <1>3, <2>1, <2>2, RowStaysBehind
<1>6. ASSUME NEW w, Sees(n, cmd, w), w.cmd = moved.cmd
      PROVE  Returns(n, cmd)
  <2>1. Sees(encounter, cmd, moved)
    BY <1>3, <1>6 DEF Sees
  <2> QED
    BY <1>2, <1>3, <2>1 DEF AtWrite, Returns, Paused, Eligible
<1>7. CASE Unwritten /\ cmd' = Throws(encounter', cmd)
  <2>1. Fits(encounter, Throws(encounter, cmd), owed, moved)
    BY <1>2, ThrowsFits DEF Finally
  <2> QED
    BY <1>7, <2>1 DEF Unwritten, Onward
<1>8. CASE Lands(n, o) /\ (cmd' = Preserving(n, cmd, "ok") \/ cmd' = Throws(encounter', cmd))
  <2>1. /\ encounter' = n /\ owed' = o
        /\ moved'.cmd = moved.cmd /\ (moved'.pause = moved.pause \/ ~Paused(n))
    BY <1>3, <1>8, LandsFacts DEF Paused
  <2>2. DocFits(n, o, moved')
    BY <1>3, <1>4, <2>1, RowFits
  <2>3. Fits(n, Throws(n, cmd), o, moved') /\ Fits(n, Preserving(n, cmd, "ok"), o, moved')
    BY <1>4, <1>5, <1>6, <2>1, <2>2, ThrowsFits, PreservingFits
  <2> QED
    BY <1>8, <2>1, <2>2, <2>3 DEF Onward
<1> QED
  BY <1>1, <1>7, <1>8 DEF Sends

\* A row leaves: when it had the turn, or nobody is left to have it, the turn is mended next.
LEMMA RemoveStep ==
    ASSUME TurnInv, Remove
    PROVE  Onward
<1> USE DEF TurnInv
<1> DEFINE n == [encounter EXCEPT !.in = @ \ {cmd.who}, !.gone = @ \cup {cmd.who},
                                  !.score[cmd.who] = Unscored, !.skip[cmd.who] = FALSE]
           o == Owing(encounter, n)
<1>1. Sends(n, o, Removed(n), Throws(encounter', cmd))
  BY DEF Remove
<1>2. AtWrite(encounter, cmd, owed, moved) /\ Posed(encounter, cmd) /\ cmd.kind = "remove" /\ cmd.stage = "write"
  BY DEF Remove, Fits
<1>3. cmd.who \in encounter.in /\ encounter \in Documents /\ encounter.in \subseteq Combatants
  BY <1>2 DEF AtWrite, DocFits, Documents
<1>4. /\ n \in Documents /\ n.in = encounter.in \ {cmd.who}
      /\ n.round = encounter.round /\ n.turn = encounter.turn /\ n.pause = encounter.pause
      /\ n.score[cmd.who] = Unscored /\ ~n.skip[cmd.who]
      /\ \A d \in Combatants \ {cmd.who} : n.score[d] = encounter.score[d] /\ n.skip[d] = encounter.skip[d]
  <2> DEFINE p == [encounter.score EXCEPT ![cmd.who] = Unscored]
             q == [encounter.skip EXCEPT ![cmd.who] = FALSE]
             i == encounter.in \ {cmd.who}
             g == encounter.gone \cup {cmd.who}
  <2>1. n = [encounter EXCEPT !.in = i, !.gone = g, !.score = p, !.skip = q]
    OBVIOUS
  <2>2. /\ p \in [Combatants -> Scores \cup {Unscored}] /\ p[cmd.who] = Unscored
        /\ \A d \in Combatants \ {cmd.who} : p[d] = encounter.score[d]
    BY <1>3 DEF Documents
  <2>3. /\ q \in [Combatants -> BOOLEAN] /\ ~q[cmd.who]
        /\ \A d \in Combatants \ {cmd.who} : q[d] = encounter.skip[d]
    BY <1>3 DEF Documents
  <2>4. i \in SUBSET Combatants /\ g \in SUBSET Combatants
    BY <1>3 DEF Documents
  <2> HIDE DEF n, p, q, i, g
  <2>5. /\ n \in Documents /\ n.in = i /\ n.score = p /\ n.skip = q
        /\ n.round = encounter.round /\ n.turn = encounter.turn /\ n.pause = encounter.pause
    BY <1>3, <2>1, <2>2, <2>3, <2>4 DEF Documents
  <2> QED
    BY <2>2, <2>3, <2>5 DEF i
<1> HIDE DEF n
<1>5. Bare(n)
  BY <1>3, <1>4 DEF DocFits, Bare
<1>6. CASE Unwritten /\ cmd' = Throws(encounter', cmd)
  <2>1. Fits(encounter, Throws(encounter, cmd), owed, moved)
    BY <1>2, ThrowsFits DEF Finally
  <2> QED
    BY <1>6, <2>1 DEF Unwritten, Onward
<1>7. CASE Lands(n, o) /\ (cmd' = Removed(n) \/ cmd' = Throws(encounter', cmd))
  <2>1. /\ encounter' = n /\ owed' = o
        /\ moved'.cmd = moved.cmd /\ (moved'.pause = moved.pause \/ ~Paused(n))
    BY <1>4, <1>7, LandsFacts DEF Paused
  <2>2. DocFits(n, o, moved')
    BY <1>4, <1>5, <2>1, RowFits
  <2>3. Posed(n, cmd) /\ ~Sees(n, cmd, moved')
    BY <1>2, <1>4 DEF AtWrite, Posed, Sees
  <2>4. Fits(n, Throws(n, cmd), o, moved')
    BY <1>2, <2>2, <2>3, ThrowsFits DEF Finally
  <2>5. Fits(n, Finishes(cmd, "ok"), o, moved')
    BY <2>3, FinishFits
  <2>6. Fits(n, Preserving(n, cmd, "ok"), o, moved')
    <3>1. ~Paused(n) => Behind(n, cmd.was, o)
      <4> SUFFICES ASSUME ~Paused(n), owed # {} PROVE Behind(n, cmd.was, o)
        BY OwingShrinks DEF Behind
      <4>1. Current(encounter) = cmd.was /\ Behind(encounter, cmd.was, owed)
        BY <1>2, <1>4, WritesBehind DEF Paused
      <4> QED
        BY <1>4, <4>1, RowStaysBehind
    <3> QED
      BY <2>2, <2>3, <3>1, PreservingFits
  <2> DEFINE r == [cmd EXCEPT !.stage = "mend"]
  <2>7. ASSUME Eligible(n) = {} \/ cmd.was = cmd.who
        PROVE  Fits(n, r, o, moved')
    <3>1. /\ Posed(n, r) /\ r.stage = "mend" /\ r.kind = "remove" /\ r.turn = cmd.turn
      BY <1>2, <2>3 DEF Posed, TurnRequests
    <3> HIDE DEF r
    <3>2. cmd.who # None
      BY <1>3 DEF Combatants, None
    <3>3. o # {} => ~Paused(n) /\ n.turn = r.turn
      BY <1>2, <1>4, <2>2, <2>7, <3>1, <3>2, OwingShrinks DEF AtWrite, DocFits, Paused
    <3>4. Paused(n) /\ ~moved'.pause => Eligible(n) = {}
      BY <1>2, <1>4, <2>1, <2>7, <3>2 DEF AtWrite, Paused
    <3> QED
      BY <3>1, <3>3, <3>4 DEF Fits, AtMend
  <2>8. Fits(n, Removed(n), o, moved')
    BY <2>5, <2>6, <2>7 DEF Removed
  <2> QED
    BY <1>7, <2>1, <2>2, <2>4, <2>8 DEF Onward
<1> QED
  BY <1>1, <1>6, <1>7 DEF Sends

\* A write that touches round, turn and pause alone keeps rows, scores and Skip.
SameSheet(k, n) == n.in = k.in /\ n.score = k.score /\ n.skip = k.skip

\* Such a write leaves who is eligible and which requests name combatants alone.
LEMMA SheetKeeps ==
    ASSUME NEW k \in Documents, NEW n \in Documents, SameSheet(k, n), Bare(k)
    PROVE  Bare(n) /\ Eligible(n) = Eligible(k) /\ \A m : Posed(k, m) => Posed(n, m)
BY DEF SameSheet, Bare, Eligible, Posed

\* Who is given the turn has it.
LEMMA TurnGiven ==
    ASSUME NEW k \in Documents, NEW n \in Documents, SameSheet(k, n),
           NEW h \in k.in, n.turn = Index(k, h)
    PROVE  Current(n) = h
BY SameRows, CurrentRow DEF SameSheet

\* The turn goes on from the place of the row that left.
LEMMA MendStep ==
    ASSUME TurnInv, Mend
    PROVE  Onward
<1> USE DEF TurnInv
<1> DEFINE t == IF Eligible(encounter) = {} THEN NoTurn
                ELSE IF Successors(encounter) # {} THEN Index(encounter, First(encounter, Successors(encounter)))
                ELSE Index(encounter, First(encounter, Eligible(encounter)))
           n == [encounter EXCEPT !.turn = t]
           o == Owing(encounter, n)
<1>1. Sends(n, o, Finishes(cmd, "ok"), Finishes(cmd, "error"))
  BY DEF Mend
<1>2. AtMend(encounter, cmd, owed, moved) /\ Posed(encounter, cmd) /\ encounter \in Documents
  BY DEF Mend, Fits, DocFits
<1>3. t \in -1..N
  BY IndexRange, TurnBoundsAreNats, <1>2 DEF NoTurn
<1>4. Eligible(encounter) = {} => t = NoTurn
  OBVIOUS
<1>5. Eligible(encounter) # {} /\ Successors(encounter) # {}
          => t = Index(encounter, First(encounter, Successors(encounter)))
  OBVIOUS
<1> HIDE DEF t
<1>6. /\ n \in Documents /\ SameSheet(encounter, n) /\ n.turn = t
      /\ n.round = encounter.round /\ n.pause = encounter.pause
  BY <1>2, <1>3 DEF Documents, SameSheet
<1> HIDE DEF n
<1>7. Bare(n) /\ Eligible(n) = Eligible(encounter) /\ Posed(n, cmd)
  BY <1>2, <1>6, SheetKeeps DEF DocFits
<1>8. ASSUME owed # {}, NEW c \in o
      PROVE  Index(n, c) > n.turn
  <2> DEFINE S == Successors(encounter)
             f == First(encounter, S)
  <2>1. ~Paused(encounter) /\ encounter.turn = cmd.turn
    BY <1>2, <1>8 DEF AtMend
  <2>2. c \in owed /\ c \in Eligible(encounter) /\ c # Current(n)
    BY OwingShrinks DEF DocFits
  <2>3. c \in S
    BY <2>1, <2>2, IndexRange DEF DocFits, Successors, Documents
  <2>4. S \in SUBSET encounter.in
    BY DEF Successors, Eligible
  <2>5. f \in S /\ \A d \in S \ {f} : Precedes(encounter, f, d)
    BY <1>2, <2>3, <2>4, FirstRow
  <2>6. n.turn = Index(encounter, f)
    BY <1>5, <1>6, <2>2, <2>3
  <2>7. \A d : Index(n, d) = Index(encounter, d)
    BY <1>2, <1>6, SameRows DEF SameSheet
  <2>8. Current(n) = f
    BY <1>2, <1>6, <2>4, <2>5, <2>6, TurnGiven
  <2>9. Precedes(encounter, f, c) /\ c \in encounter.in /\ f \in encounter.in
    BY <2>2, <2>3, <2>4, <2>5, <2>8
  <2> QED
    BY <1>2, <2>6, <2>7, <2>9, IndexOrder
<1>9. CASE Unwritten /\ cmd' = Finishes(cmd, "error")
  <2>1. Fits(encounter, Finishes(cmd, "error"), owed, moved)
    BY <1>2, FinishFits DEF AtMend, Finally
  <2> QED
    BY <1>9, <2>1 DEF Unwritten, Onward
<1>10. CASE Lands(n, o) /\ (cmd' = Finishes(cmd, "ok") \/ cmd' = Finishes(cmd, "error"))
  <2>1. /\ encounter' = n /\ owed' = o
        /\ moved'.cmd = moved.cmd /\ (moved'.pause = moved.pause \/ ~Paused(n))
    BY <1>6, <1>10, LandsFacts DEF Paused
  <2>2. ~Sees(n, cmd, moved')
    BY <1>2 DEF AtMend, Sees
  <2>3. Fits(n, Finishes(cmd, "ok"), o, moved') /\ Fits(n, Finishes(cmd, "error"), o, moved')
    BY <1>7, <2>2, FinishFits
  <2>4. o \subseteq Eligible(n)
    BY <1>7, OwingShrinks DEF DocFits
  <2>5. ~Paused(n) => \A c \in o : Index(n, c) > n.turn
    BY <1>8, OwingShrinks
  <2>6. Paused(n) => o = {}
    BY <1>2, <1>6, OwingShrinks DEF AtMend, Paused
  <2>7. Paused(n) /\ ~moved'.pause => n.turn = NoTurn
    BY <1>2, <1>4, <1>6, <2>1 DEF AtMend, Paused
  <2>8. n.round = 0 => o = {}
    BY <1>6, OwingShrinks DEF DocFits
  <2>9. DocFits(n, o, moved')
    BY <1>6, <1>7, <2>4, <2>5, <2>6, <2>7, <2>8 DEF DocFits
  <2> QED
    BY <1>10, <2>1, <2>3, <2>9 DEF Onward
<1> QED
  BY <1>1, <1>9, <1>10 DEF Sends

\* Nobody has the turn while the place it had is kept.
LEMMA PauseStep ==
    ASSUME TurnInv, Pause
    PROVE  Onward
<1> USE DEF TurnInv
<1>1. PICK reason \in {"initiative", "skip"} :
         LET n == [encounter EXCEPT !.turn = NoTurn, !.pause =
                      [who |-> cmd.was, score |-> encounter.score[cmd.was], reason |-> reason]] IN
         Sends(n, Owing(encounter, n), [cmd EXCEPT !.stage = "write"], Finishes(cmd, "error"))
  BY DEF Pause
<1> DEFINE p == [who |-> cmd.was, score |-> encounter.score[cmd.was], reason |-> reason]
           n == [encounter EXCEPT !.turn = NoTurn, !.pause = p]
           o == Owing(encounter, n)
           r == [cmd EXCEPT !.stage = "write"]
<1>2. AtPause(encounter, cmd, owed, moved) /\ Posed(encounter, cmd) /\ encounter \in Documents
  BY DEF Pause, Fits, DocFits
<1>3. cmd.was \in Combatants
  BY <1>2, TurnBoundsAreNats DEF AtPause, Posed, TurnRequests, Combatants, None
<1>4. p \in [who : Combatants \cup {None}, score : Scores \cup {Unscored}, reason : {"none", "initiative", "skip"}]
  BY <1>2, <1>3 DEF Documents
<1>5. p.who = cmd.was /\ p.score = encounter.score[cmd.was]
  OBVIOUS
<1> HIDE DEF p
<1>6. /\ n \in Documents /\ SameSheet(encounter, n) /\ n.turn = NoTurn
      /\ n.round = encounter.round /\ n.pause = p
  <2>1. NoTurn \in -1..N
    BY TurnBoundsAreNats DEF NoTurn
  <2> QED
    BY <1>2, <1>4, <2>1 DEF Documents, SameSheet
<1>7. /\ Posed(encounter, r) /\ r.stage = "write" /\ r.kind = cmd.kind /\ r.who = cmd.who /\ r.was = cmd.was
      /\ r.held = cmd.held
  BY <1>2 DEF Posed, TurnRequests
<1> HIDE DEF n, r
<1>8. Bare(n) /\ Eligible(n) = Eligible(encounter) /\ Posed(n, cmd) /\ Posed(n, r)
  BY <1>2, <1>6, <1>7, SheetKeeps DEF DocFits
<1>9. Paused(n) /\ ~Paused(encounter)
  BY <1>2, <1>5, <1>6 DEF AtPause, Paused
<1>10. \A c \in o : AfterAnchor(n, c) /\ c # n.pause.who
  <2> SUFFICES ASSUME NEW c \in o PROVE AfterAnchor(n, c) /\ c # n.pause.who
    OBVIOUS
  <2>1. c \in owed /\ c \in encounter.in
    BY OwingShrinks DEF DocFits, Eligible
  <2>2. Current(encounter) = cmd.was
    BY <1>2, <2>1 DEF AtPause
  <2>3. cmd.was \in encounter.in
    BY <1>2, <2>2, CurrentRow DEF AtPause
  <2>4. Precedes(encounter, cmd.was, c)
    BY <1>9, <2>1, <2>2, <2>3, CurrentIsBehind DEF Behind
  <2>5. c # cmd.was
    BY <1>2, <1>3, <2>4, RowsAreOrdered
  <2>6. encounter.score[c] \in Int /\ encounter.score[cmd.was] \in Int /\ c \in Int /\ cmd.was \in Int
    BY <1>2, <1>3, <2>1, TurnBoundsAreNats DEF Documents, Combatants, Scores, Unscored
  <2> QED
    BY <1>5, <1>6, <2>4, <2>5, <2>6 DEF Precedes, AfterAnchor, SameSheet
<1>11. CASE Unwritten /\ cmd' = Finishes(cmd, "error")
  <2>1. Sees(encounter, cmd, moved) => Holder(encounter) = cmd.held
    BY <1>2 DEF AtPause, Holder
  <2>2. Fits(encounter, Finishes(cmd, "error"), owed, moved)
    BY <1>2, <2>1, FinishFits
  <2> QED
    BY <1>11, <2>2 DEF Unwritten, Onward
<1>12. CASE Lands(n, o) /\ (cmd' = r \/ cmd' = Finishes(cmd, "error"))
  <2>1. /\ encounter' = n /\ owed' = o
        /\ moved'.cmd = moved.cmd /\ ~moved'.pause
    BY <1>9, <1>12, LandsFacts
  <2>2. Sees(n, cmd, moved') => cmd.was = cmd.held
    BY <1>2, <1>6, <2>1 DEF AtPause, Sees
  <2>3. Fits(n, Finishes(cmd, "error"), o, moved')
    BY <1>5, <1>6, <1>8, <1>9, <2>2, FinishFits DEF Holder
  <2>4. r.kind \in {"update", "reset"} /\ (r.kind = "update" => r.who \in n.in)
    BY <1>2, <1>6, <1>7 DEF AtPause, SameSheet
  <2>5. Sees(n, r, moved') => Returns(n, r)
    BY <1>2, <1>5, <1>6, <1>7, <1>9, <2>2 DEF AtPause, Sees, Returns
  <2>6. AtWrite(n, r, o, moved')
    BY <1>5, <1>6, <1>7, <1>9, <2>4, <2>5 DEF AtWrite
  <2>7. Fits(n, r, o, moved')
    BY <1>7, <1>8, <2>6 DEF Fits
  <2>8. o \subseteq Eligible(n) /\ (n.round = 0 => o = {})
    BY <1>6, <1>8, OwingShrinks DEF DocFits
  <2>9. DocFits(n, o, moved')
    BY <1>6, <1>8, <1>9, <1>10, <2>8 DEF DocFits
  <2> QED
    BY <1>12, <2>1, <2>3, <2>7, <2>9 DEF Onward
<1> QED
  BY <1>1, <1>11, <1>12 DEF Sends, p, n, r

\* The turn is given to a row: who is due and comes after it stays due.
LEMMA TurnFits ==
    ASSUME DocFits(encounter, owed, moved), NEW n \in Documents, SameSheet(encounter, n), ~Paused(n),
           NEW h \in encounter.in, n.turn = Index(encounter, h), n.round # 0,
           NEW o, o \subseteq Eligible(encounter), \A c \in o : Precedes(encounter, h, c), NEW v
    PROVE  DocFits(n, o, v)
<1>1. encounter \in Documents /\ Bare(n) /\ Eligible(n) = Eligible(encounter)
  BY SheetKeeps DEF DocFits
<1>2. \A d : Index(n, d) = Index(encounter, d)
  BY <1>1, SameRows DEF SameSheet
<1>3. \A c \in o : Index(n, c) > n.turn
  BY <1>1, <1>2, IndexOrder, IndexRange DEF Eligible
<1> QED
  BY <1>1, <1>3 DEF DocFits

\* The paused combatant gets its turn back.
LEMMA RestoreStep ==
    ASSUME TurnInv, Restore
    PROVE  Onward /\ (encounter' = encounter \/ Current(encounter') = encounter.pause.who)
<1> USE DEF TurnInv
<1> DEFINE h == encounter.pause.who
           n == At(encounter, encounter.round, h)
           o == Owing(encounter, n)
<1>1. Sends(n, o, IF cmd.kind = "update" /\ cmd.score = KeepScore THEN Finishes(cmd, "ok")
                  ELSE Preserving(n, cmd, "ok"), Throws(encounter', cmd))
  BY DEF Restore
<1>2. AtRestore(encounter, cmd, owed, moved) /\ Posed(encounter, cmd) /\ encounter \in Documents
  BY DEF Restore, Fits, DocFits
<1>3. h \in encounter.in /\ Index(encounter, h) \in -1..N /\ encounter.in \subseteq Combatants
  BY <1>2, IndexRange, TurnBoundsAreNats DEF AtRestore, Eligible, Documents
<1>4. NoPause \in [who : Combatants \cup {None}, score : Scores \cup {Unscored}, reason : {"none", "initiative", "skip"}]
  BY DEF NoPause
<1>5. /\ n \in Documents /\ SameSheet(encounter, n) /\ n.turn = Index(encounter, h)
      /\ n.round = encounter.round /\ n.pause = NoPause
  BY <1>2, <1>3, <1>4 DEF At, Documents, SameSheet
<1>6. ~Paused(n)
  BY <1>5 DEF Paused, NoPause
<1> HIDE DEF n
<1>7. \A c \in o : Precedes(encounter, h, c)
  <2> SUFFICES ASSUME NEW c \in o PROVE Precedes(encounter, h, c)
    OBVIOUS
  <2>1. c \in owed /\ c \in encounter.in /\ ~Displaces(encounter, n)
    BY OwingShrinks DEF DocFits, Eligible
  <2>2. Paused(encounter) /\ h # None
    BY <1>2 DEF AtRestore, Paused
  <2>3. encounter.score[h] = encounter.pause.score
    BY <1>3, <1>5, <1>6, <2>1, <2>2 DEF Displaces, Holder, SameSheet
  <2>4. AfterAnchor(encounter, c)
    BY <2>1, <2>2 DEF DocFits
  <2>5. encounter.score[c] \in Int /\ encounter.score[h] \in Int /\ c \in Int /\ h \in Int
    BY <1>2, <1>3, <2>1, TurnBoundsAreNats DEF Documents, Combatants, Scores, Unscored
  <2> QED
    BY <2>3, <2>4, <2>5 DEF AfterAnchor, Precedes
<1>8. CASE Unwritten /\ cmd' = Throws(encounter', cmd)
  <2>1. ~Paused(encounter) => Behind(encounter, cmd.was, owed)
    BY <1>2 DEF AtRestore
  <2>2. Sees(encounter, cmd, moved) => Returns(encounter, cmd)
    BY <1>2 DEF AtRestore
  <2>3. Fits(encounter, Throws(encounter, cmd), owed, moved)
    BY <1>2, <2>1, <2>2, ThrowsFits
  <2> QED
    BY <1>8, <2>3 DEF Unwritten, Onward
<1>9. CASE /\ Lands(n, o)
           /\ \/ cmd' = Finishes(cmd, "ok") /\ cmd.kind = "update"
              \/ cmd' = Preserving(n, cmd, "ok")
              \/ cmd' = Throws(encounter', cmd)
  <2>1. encounter' = n /\ owed' = o /\ moved'.cmd = moved.cmd
    BY <1>9, LandsFacts
  <2>2. o \subseteq Eligible(encounter) /\ (encounter.round = 0 => o = {})
    BY OwingShrinks DEF DocFits
  <2>3. DocFits(n, o, moved') /\ Current(n) = h
    <3>1. CASE encounter.round # 0
      BY <1>2, <1>3, <1>5, <1>6, <1>7, <2>2, <3>1, TurnFits, TurnGiven
    <3>2. CASE encounter.round = 0
      BY <1>2, <1>3, <1>5, <1>6, <2>2, <3>2, SheetKeeps, TurnGiven DEF DocFits
    <3> QED
      BY <3>1, <3>2
  <2>4. Posed(n, cmd) /\ Eligible(n) = Eligible(encounter)
    BY <1>2, <1>5, SheetKeeps DEF DocFits
  <2>5. Sees(n, cmd, moved') => cmd.kind = "update" /\ cmd.was = cmd.held /\ cmd.held = h
    BY <1>2, <1>5, <2>1 DEF AtRestore, Sees, Returns
  <2>6. Fits(n, Finishes(cmd, "ok"), o, moved')
    BY <1>6, <2>3, <2>4, <2>5, FinishFits DEF Holder
  <2>7. Behind(n, cmd.was, o)
    <3> SUFFICES ASSUME cmd.was \in n.in, NEW c \in o PROVE Precedes(n, cmd.was, c)
      BY DEF Behind
    <3>1. cmd.was \in {None, h}
      BY <1>2, OwingShrinks DEF AtRestore
    <3>2. cmd.was = h
      BY <1>3, <1>5, <3>1 DEF SameSheet, Combatants, None
    <3> QED
      BY <1>2, <1>5, <1>7, <3>2, SameRows DEF SameSheet
  <2>8. Sees(n, cmd, moved') => Returns(n, cmd)
    BY <1>2, <1>6, <2>4, <2>5 DEF AtRestore, Returns
  <2>9. Fits(n, Preserving(n, cmd, "ok"), o, moved') /\ Fits(n, Throws(n, cmd), o, moved')
    BY <2>3, <2>4, <2>7, <2>8, PreservingFits, ThrowsFits
  <2> QED
    BY <1>9, <2>1, <2>3, <2>6, <2>9 DEF Onward
<1> QED
  BY <1>1, <1>8, <1>9 DEF Sends

\* The combatant that had the turn has it again.
LEMMA PreserveStep ==
    ASSUME TurnInv, Preserve
    PROVE  Onward
<1> USE DEF TurnInv
<1> DEFINE h == cmd.was
           n == [encounter EXCEPT !.turn = Index(encounter, h)]
           o == Owing(encounter, n)
<1>1. Sends(n, o, Finishes(cmd, cmd.out), Finishes(cmd, "unsure"))
  BY DEF Preserve
<1>2. AtPreserve(encounter, cmd, owed, moved) /\ Posed(encounter, cmd) /\ encounter \in Documents
  BY DEF Preserve, Fits, DocFits
<1>3. h \in encounter.in /\ Index(encounter, h) \in -1..N
  BY <1>2, IndexRange, TurnBoundsAreNats DEF AtPreserve, Eligible, Documents
<1>4. /\ n \in Documents /\ SameSheet(encounter, n) /\ n.turn = Index(encounter, h)
      /\ n.round = encounter.round /\ n.pause = encounter.pause
  BY <1>2, <1>3 DEF Documents, SameSheet
<1> HIDE DEF n
<1>5. ~Paused(n)
  BY <1>2, <1>4 DEF AtPreserve, Paused
<1>6. CASE Unwritten /\ cmd' = Finishes(cmd, "unsure")
  <2>1. Fits(encounter, Finishes(cmd, "unsure"), owed, moved)
    BY <1>2, FinishFits
  <2> QED
    BY <1>6, <2>1 DEF Unwritten, Onward
<1>7. CASE Lands(n, o) /\ (cmd' = Finishes(cmd, cmd.out) \/ cmd' = Finishes(cmd, "unsure"))
  <2>1. encounter' = n /\ owed' = o /\ moved'.cmd = moved.cmd
    BY <1>7, LandsFacts
  <2>2. o \subseteq Eligible(encounter) /\ (encounter.round = 0 => o = {}) /\ \A c \in o : Precedes(encounter, h, c)
    BY <1>2, <1>3, OwingShrinks DEF DocFits, AtPreserve, Behind
  <2>3. DocFits(n, o, moved') /\ Current(n) = h
    <3>1. CASE encounter.round # 0
      BY <1>2, <1>3, <1>4, <1>5, <2>2, <3>1, TurnFits, TurnGiven
    <3>2. CASE encounter.round = 0
      BY <1>2, <1>3, <1>4, <1>5, <2>2, <3>2, SheetKeeps, TurnGiven DEF DocFits
    <3> QED
      BY <3>1, <3>2
  <2>4. Posed(n, cmd)
    BY <1>2, <1>4, SheetKeeps DEF DocFits
  <2>5. Sees(n, cmd, moved') => Holder(n) = cmd.held
    BY <1>2, <1>4, <1>5, <2>1, <2>3 DEF AtPreserve, Sees, Holder
  <2>6. cmd.out \in {"ok", "error", "unsure"}
    BY <1>2 DEF Posed, TurnRequests
  <2>7. Fits(n, Finishes(cmd, cmd.out), o, moved') /\ Fits(n, Finishes(cmd, "unsure"), o, moved')
    BY <2>4, <2>5, <2>6, FinishFits
  <2> QED
    BY <1>7, <2>1, <2>3, <2>7 DEF Onward
<1> QED
  BY <1>1, <1>6, <1>7 DEF Sends

-----------------------------------------------------------------------------
(* The turn commands *)

\* The turn is given to combatant c in round r.
LEMMA AtFacts ==
    ASSUME NEW k \in Documents, NEW r \in 0..MaxRound, NEW c
    PROVE  LET n == At(k, r, c) IN
           n \in Documents /\ SameSheet(k, n) /\ ~Paused(n) /\ n.round = r /\ n.turn = Index(k, c)
<1>1. Index(k, c) \in -1..N
  BY IndexRange, TurnBoundsAreNats
<1>2. NoPause \in [who : Combatants \cup {None}, score : Scores \cup {Unscored}, reason : {"none", "initiative", "skip"}]
  BY DEF NoPause
<1>3. At(k, r, c) \in Documents /\ SameSheet(k, At(k, r, c))
      /\ At(k, r, c).round = r /\ At(k, r, c).turn = Index(k, c) /\ At(k, r, c).pause = NoPause
  BY <1>1, <1>2 DEF At, Documents, SameSheet
<1> QED
  BY <1>3 DEF Paused, NoPause

\* Everybody due follows the turn, or the place it had.
LEMMA DueFollow ==
    ASSUME DocFits(encounter, owed, moved)
    PROVE  owed \subseteq Following(encounter)
BY DEF DocFits, Following

\* The next turn is the first of those that follow, or a new round's, which nobody is due in the old one for.
LEMMA NextFits ==
    ASSUME DocFits(encounter, owed, moved), Eligible(encounter) # {}, NextTurn(encounter).round <= MaxRound, NEW v
    PROVE  LET n == NextTurn(encounter) IN
           /\ n \in Documents /\ SameSheet(encounter, n) /\ DocFits(n, Due(n), v)
           /\ n.round > encounter.round /\ encounter.round > 0 => owed = {}
<1> DEFINE n == NextTurn(encounter)
<1>1. encounter \in Documents /\ encounter.round \in 0..MaxRound /\ Eligible(encounter) \subseteq encounter.in
      /\ owed \subseteq Eligible(encounter)
  BY DEF DocFits, Documents, Eligible
<1>2. ASSUME NEW r \in 0..MaxRound, r # 0, NEW S \in SUBSET Eligible(encounter), S # {},
             n = At(encounter, r, First(encounter, S)),
             NEW D \in SUBSET S, Due(n) = D \ {Current(n)}
      PROVE  n \in Documents /\ SameSheet(encounter, n) /\ n.round = r /\ DocFits(n, Due(n), v)
  <2> DEFINE h == First(encounter, S)
  <2>1. h \in encounter.in /\ \A d \in S \ {h} : Precedes(encounter, h, d)
    BY <1>1, <1>2, FirstRow
  <2>2. n \in Documents /\ SameSheet(encounter, n) /\ ~Paused(n) /\ n.round = r /\ n.turn = Index(encounter, h)
    BY <1>1, <1>2, AtFacts
  <2> HIDE DEF n, h
  <2>3. Current(n) = h
    BY <1>1, <2>1, <2>2, TurnGiven
  <2>4. Due(n) \subseteq Eligible(encounter) /\ \A c \in Due(n) : Precedes(encounter, h, c)
    BY <1>2, <2>1, <2>3
  <2> QED
    BY <1>2, <2>1, <2>2, <2>4, TurnFits
<1>3. ASSUME NEW r \in 0..MaxRound, r > encounter.round, n = At(encounter, r, First(encounter, Eligible(encounter)))
      PROVE  n \in Documents /\ SameSheet(encounter, n) /\ DocFits(n, Due(n), v)
  <2>1. n \in Documents /\ SameSheet(encounter, n) /\ n.round = r
    BY <1>1, <1>3, AtFacts
  <2>2. Due(n) = Eligible(encounter) \ {Current(n)}
    BY <1>1, <1>3, <2>1, SheetKeeps DEF Due, DocFits
  <2> QED
    BY <1>1, <1>2, <1>3, <2>2
<1>4. CASE encounter.round = 0
  <2>1. n = At(encounter, 1, First(encounter, Eligible(encounter)))
    BY <1>4 DEF NextTurn
  <2>2. n.round = 1
    BY <2>1 DEF At, DocFits, Documents
  <2>3. 1 \in 0..MaxRound
    BY <2>2, TurnBoundsAreNats
  <2> QED
    BY <1>3, <1>4, <2>1, <2>3
<1>5. CASE encounter.round # 0 /\ Following(encounter) # {}
  <2>1. n = At(encounter, encounter.round, First(encounter, Following(encounter)))
    BY <1>5 DEF NextTurn
  <2>2. n.round = encounter.round
    BY <1>1, <2>1, AtFacts
  <2>3. Due(n) = owed \ {Current(n)}
    BY <1>1, <2>2, TurnBoundsAreNats DEF Due
  <2>4. Following(encounter) \in SUBSET Eligible(encounter) /\ owed \in SUBSET Following(encounter)
    BY DueFollow DEF Following
  <2>5. n \in Documents /\ SameSheet(encounter, n) /\ DocFits(n, Due(n), v)
    BY <1>1, <1>2, <1>5, <2>1, <2>3, <2>4
  <2> QED
    BY <1>1, <2>2, <2>5, TurnBoundsAreNats
<1>6. CASE encounter.round # 0 /\ Following(encounter) = {}
  <2>1. n = At(encounter, encounter.round + 1, First(encounter, Eligible(encounter)))
    BY <1>6 DEF NextTurn
  <2>2. n.round = encounter.round + 1
    BY <2>1 DEF At, DocFits, Documents
  <2>3. encounter.round + 1 \in 0..MaxRound
    BY <1>1, <2>2, TurnBoundsAreNats
  <2>4. owed = {}
    BY <1>6, DueFollow
  <2> QED
    BY <1>1, <1>3, <2>1, <2>3, <2>4
<1> QED
  BY <1>4, <1>5, <1>6

\* Going back, nobody is due.
LEMMA PreviousFits ==
    ASSUME DocFits(encounter, owed, moved), NEW v
    PROVE  LET n == PreviousTurn(encounter) IN
           /\ n \in Documents /\ SameSheet(encounter, n) /\ DocFits(n, {}, v)
           /\ n.round <= encounter.round
<1> DEFINE n == PreviousTurn(encounter)
<1>1. encounter \in Documents /\ encounter.round \in 0..MaxRound
  BY DEF DocFits, Documents
<1>2. ASSUME n = Unbegun(encounter)
      PROVE  n \in Documents /\ SameSheet(encounter, n) /\ ~Paused(n) /\ n.round <= encounter.round
  <2>1. 0 \in -1..N /\ 0 \in 0..MaxRound
    BY TurnBoundsAreNats
  <2>2. NoPause \in [who : Combatants \cup {None}, score : Scores \cup {Unscored}, reason : {"none", "initiative", "skip"}]
    BY DEF NoPause
  <2>3. Unbegun(encounter) \in Documents /\ SameSheet(encounter, Unbegun(encounter))
        /\ Unbegun(encounter).round = 0 /\ Unbegun(encounter).pause = NoPause
    BY <1>1, <2>1, <2>2 DEF Unbegun, Documents, SameSheet
  <2> QED
    BY <1>1, <1>2, <2>3, TurnBoundsAreNats DEF Paused, NoPause
<1>3. ASSUME n # Unbegun(encounter)
      PROVE  n \in Documents /\ SameSheet(encounter, n) /\ ~Paused(n) /\ n.round <= encounter.round
  <2>1. \E r \in 0..MaxRound : \E c : r <= encounter.round /\ n = At(encounter, r, c)
    <3>1. CASE Preceding(encounter) # {}
      BY <1>1, <1>3, <3>1, TurnBoundsAreNats DEF PreviousTurn
    <3>2. CASE Preceding(encounter) = {}
      <4>1. encounter.round > 1 /\ n = At(encounter, encounter.round - 1, Last(encounter, Eligible(encounter)))
        BY <1>1, <1>3, <3>2, TurnBoundsAreNats DEF PreviousTurn
      <4>2. encounter.round - 1 \in 0..MaxRound /\ encounter.round - 1 <= encounter.round
        BY <1>1, <4>1, TurnBoundsAreNats
      <4> QED
        BY <4>1, <4>2
    <3> QED
      BY <3>1, <3>2
  <2> QED
    BY <1>1, <2>1, AtFacts
<1> HIDE DEF n
<1>4. n \in Documents /\ SameSheet(encounter, n) /\ ~Paused(n) /\ n.round <= encounter.round
  BY <1>2, <1>3
<1>5. DocFits(n, {}, v)
  BY <1>1, <1>4, SheetKeeps DEF DocFits
<1> QED
  BY <1>4, <1>5 DEF n

\* A turn command is one write, sent in the step of its check.
LEMMA TurnStep ==
    ASSUME TurnInv, AdvanceTurn \/ RewindTurn \/ EndTurn
    PROVE  /\ Onward
           /\ encounter'.round > encounter.round /\ encounter.round > 0 => owed = {}
<1> USE DEF TurnInv
<1>1. cmd.stage = "idle" /\ Posed(encounter, cmd) /\ encounter \in Documents /\ Bare(encounter)
  BY DEF AdvanceTurn, RewindTurn, EndTurn, TurnCommand, Fits, DocFits
<1>2. ASSUME NEW n, NEW d, Sends(n, d, cmd, cmd),
             \A v : n \in Documents /\ SameSheet(encounter, n) /\ DocFits(n, d, v)
      PROVE  Onward /\ (encounter' = n \/ encounter' = encounter)
  <2>1. CASE Unwritten /\ cmd' = cmd
    BY <2>1 DEF Unwritten, Onward
  <2>2. CASE Lands(n, d) /\ cmd' = cmd
    <3>1. encounter' = n /\ owed' = d
      BY <2>2, LandsFacts
    <3>2. Posed(n, cmd)
      BY <1>1, <1>2, SheetKeeps
    <3>3. Fits(n, cmd, d, moved')
      BY <1>1, <3>2 DEF Fits
    <3> QED
      BY <1>2, <2>2, <3>1, <3>3 DEF Onward
  <2> QED
    BY <1>2, <2>1, <2>2 DEF Sends
<1>3. CASE AdvanceTurn \/ EndTurn
  <2> DEFINE n == NextTurn(encounter)
  <2>1. Eligible(encounter) # {} /\ n.round <= MaxRound /\ Sends(n, Due(n), cmd, cmd)
    BY <1>3 DEF AdvanceTurn, EndTurn, TurnCommand
  <2>2. /\ \A v : n \in Documents /\ SameSheet(encounter, n) /\ DocFits(n, Due(n), v)
        /\ n.round > encounter.round /\ encounter.round > 0 => owed = {}
    BY <2>1, NextFits
  <2> HIDE DEF n
  <2>3. Onward /\ (encounter' = n \/ encounter' = encounter)
    BY <1>2, <2>1, <2>2
  <2>4. encounter.round \in Int
    BY <1>1 DEF Documents
  <2> QED
    BY <2>2, <2>3, <2>4
<1>4. CASE RewindTurn
  <2> DEFINE n == PreviousTurn(encounter)
  <2>1. Sends(n, {}, cmd, cmd)
    BY <1>4 DEF RewindTurn, TurnCommand
  <2>2. /\ \A v : n \in Documents /\ SameSheet(encounter, n) /\ DocFits(n, {}, v)
        /\ n.round <= encounter.round
    BY PreviousFits
  <2> HIDE DEF n
  <2>3. Onward /\ (encounter' = n \/ encounter' = encounter)
    BY <1>2, <2>1, <2>2
  <2>4. encounter.round \in Int /\ n.round \in Int
    BY <1>1, <2>2 DEF Documents
  <2> QED
    BY <2>2, <2>3, <2>4
<1> QED
  BY <1>3, <1>4

\* A turn moved in Foundry: nobody is due any more, and no command has to give it back.
LEMMA NativeStep ==
    ASSUME TurnInv, NativeTurn
    PROVE  Onward
<1> USE DEF TurnInv
<1>1. PICK r \in 1..MaxRound, c \in encounter.in : encounter' = [encounter EXCEPT !.round = r, !.turn = Index(encounter, c)]
  BY DEF NativeTurn
<1>2. owed' = {} /\ cmd' = cmd /\ moved'.cmd /\ moved'.pause
  BY DEF NativeTurn
<1>3. encounter \in Documents /\ Bare(encounter) /\ Index(encounter, c) \in -1..N /\ r \in 0..MaxRound
  BY IndexRange, TurnBoundsAreNats DEF DocFits
<1>4. PICK n : n = encounter'
  OBVIOUS
<1>5. n \in Documents /\ SameSheet(encounter, n) /\ n.pause = encounter.pause
  BY <1>1, <1>3, <1>4 DEF Documents, SameSheet
<1>6. Bare(n) /\ Eligible(n) = Eligible(encounter) /\ Posed(n, cmd) /\ (Paused(n) <=> Paused(encounter))
  BY <1>3, <1>5, SheetKeeps DEF Fits, Paused
<1>7. DocFits(n, {}, moved')
  BY <1>2, <1>5, <1>6 DEF DocFits
<1>8. ~Sees(n, cmd, moved')
  BY <1>2 DEF Sees
<1>9. /\ AtPause(encounter, cmd, owed, moved) => AtPause(n, cmd, {}, moved')
      /\ AtWrite(encounter, cmd, owed, moved) => AtWrite(n, cmd, {}, moved')
      /\ AtRoll(encounter, cmd, owed, moved) => AtRoll(n, cmd, {}, moved')
      /\ AtRestore(encounter, cmd, owed, moved) => AtRestore(n, cmd, {}, moved')
      /\ AtPreserve(encounter, cmd, owed, moved) => AtPreserve(n, cmd, {}, moved')
      /\ AtMend(encounter, cmd, owed, moved) => AtMend(n, cmd, {}, moved')
      /\ AtDone(n, cmd, {}, moved')
  BY <1>2, <1>5, <1>6, <1>8
     DEF SameSheet, AtPause, AtWrite, AtRoll, AtRestore, AtPreserve, AtMend, AtDone, Behind
<1>10. Fits(n, cmd, {}, moved')
  BY <1>6, <1>9 DEF Fits
<1> QED
  BY <1>2, <1>4, <1>7, <1>10 DEF Onward

-----------------------------------------------------------------------------
(* Commands begin, roll and end *)

\* No command.
LEMMA IdleIsPosed ==
    Idle \in TurnRequests /\ Idle.stage = "idle" /\ Idle.targets = {} /\ Idle.left = {}
BY TurnBoundsAreNats DEF Idle, TurnRequests, None, KeepScore, NoTurn, Keep

\* What a command knows of the encounter when it takes the lock.
LEMMA TakesFacts ==
    ASSUME TurnInv, NEW m \in TurnRequests, Takes(m), m.targets \subseteq encounter.in, m.left \subseteq m.targets
    PROVE  /\ encounter' = encounter /\ owed' = owed /\ events' = events
           /\ moved'.pause = moved.pause /\ DocFits(encounter, owed, moved')
           /\ Posed(encounter, cmd') /\ cmd'.was = Current(encounter) /\ cmd'.turn = encounter.turn
           /\ cmd'.kind = m.kind /\ cmd'.stage = m.stage /\ cmd'.who = m.who /\ cmd'.score = m.score
           /\ cmd'.skip = m.skip /\ cmd'.targets = m.targets /\ cmd'.left = m.left
           /\ cmd'.held = ManagedCurrent(encounter)
           /\ ~Paused(encounter) => Behind(encounter, cmd'.was, owed)
           /\ Paused(encounter) /\ (owed # {} \/ ~moved.pause) => cmd'.was = None
           /\ cmd'.held # None => /\ ~Paused(encounter) /\ cmd'.was = cmd'.held
                                  /\ cmd'.held \in Eligible(encounter)
<1> USE DEF TurnInv
<1>1. encounter \in Documents
  BY DEF DocFits
<1>2. Current(encounter) \in 0..N /\ ManagedCurrent(encounter) \in 0..N
      /\ encounter.turn \in -1..N /\ encounter.round \in 0..MaxRound
  <2>1. encounter.in \subseteq 1..N /\ None \in 0..N
    BY <1>1, TurnBoundsAreNats DEF Documents, Combatants, None
  <2> QED
    BY <1>1, <2>1, CurrentRow, TurnBoundsAreNats DEF ManagedCurrent, Documents
<1>3. cmd' = [m EXCEPT !.was = Current(encounter), !.turn = encounter.turn, !.round = encounter.round,
                       !.held = ManagedCurrent(encounter)]
  BY DEF Takes
<1>4. /\ Posed(encounter, cmd') /\ cmd'.was = Current(encounter) /\ cmd'.turn = encounter.turn
      /\ cmd'.kind = m.kind /\ cmd'.stage = m.stage /\ cmd'.who = m.who /\ cmd'.score = m.score
      /\ cmd'.skip = m.skip /\ cmd'.targets = m.targets /\ cmd'.left = m.left
      /\ cmd'.held = ManagedCurrent(encounter)
  BY <1>2, <1>3 DEF TurnRequests, Posed
<1>5. encounter' = encounter /\ owed' = owed /\ events' = events /\ moved'.pause = moved.pause
  BY DEF Takes
<1>6. DocFits(encounter, owed, moved')
  BY <1>5 DEF DocFits
<1>7. ~Paused(encounter) => Behind(encounter, Current(encounter), owed)
  BY CurrentIsBehind
<1>8. Paused(encounter) /\ (owed # {} \/ ~moved.pause) => Current(encounter) = None
  BY <1>1, CurrentRow DEF DocFits
<1> QED
  BY <1>4, <1>5, <1>6, <1>7, <1>8 DEF ManagedCurrent

\* A command takes the lock, or is for nothing.
LEMMA TakesStep ==
    ASSUME TurnInv,
           UpdateParticipant \/ ResetInitiative \/ AddActor \/ RemoveParticipant
             \/ RollInitiativeBatch \/ RollInitiativeOne \/ PlayerRoll
    PROVE  Onward /\ encounter' = encounter
<1> USE DEF TurnInv
<1>1. encounter.in \subseteq Combatants /\ Combatants \subseteq 0..N
  BY TurnBoundsAreNats DEF DocFits, Documents, Combatants
<1>2. CASE UpdateParticipant
  <2>1. PICK c \in encounter.in, v \in Scores \cup {Unscored, KeepScore}, s \in {Keep, "on", "off"} :
            Takes([Idle EXCEPT !.kind = "update", !.who = c, !.score = v, !.skip = s,
                               !.stage = IF PausesFor(c, v, s) THEN "pause" ELSE "write"])
    BY <1>2 DEF UpdateParticipant
  <2> DEFINE g == IF PausesFor(c, v, s) THEN "pause" ELSE "write"
             m == [Idle EXCEPT !.kind = "update", !.who = c, !.score = v, !.skip = s, !.stage = g]
  <2>2. v \in -1..MaxScore
    BY TurnBoundsAreNats DEF Scores, Unscored, KeepScore
  <2>3. g \in {"pause", "write"} /\ (g = "pause" <=> PausesFor(c, v, s))
    OBVIOUS
  <2> HIDE DEF g
  <2>4. /\ m \in TurnRequests /\ m.kind = "update" /\ m.who = c /\ m.score = v /\ m.skip = s /\ m.stage = g
        /\ m.targets = {} /\ m.left = {}
    BY <1>1, <2>2, <2>3, IdleIsPosed DEF TurnRequests
  <2>5. Takes(m)
    BY <2>1 DEF g
  <2> HIDE DEF m
  <2>6. ASSUME PausesFor(c, v, s)
        PROVE  AtPause(encounter, cmd', owed, moved')
    BY <2>4, <2>5, <2>6, TakesFacts DEF AtPause, PausesFor, Pauses, Sees
  <2>7. ASSUME ~PausesFor(c, v, s)
        PROVE  AtWrite(encounter, cmd', owed, moved')
    BY <2>4, <2>5, <2>7, TakesFacts DEF AtWrite, PausesFor, Pauses, Sees, Returns, Eligible
  <2> QED
    BY <2>3, <2>4, <2>5, <2>6, <2>7, TakesFacts DEF Onward, Fits
<1>3. CASE ResetInitiative
  <2> DEFINE g == IF Pauses(encounter) THEN "pause" ELSE "write"
             m == [Idle EXCEPT !.kind = "reset", !.stage = g]
  <2>1. Takes(m)
    BY <1>3 DEF ResetInitiative
  <2>2. g \in {"pause", "write"} /\ (g = "pause" <=> Pauses(encounter))
    OBVIOUS
  <2> HIDE DEF g
  <2>3. m \in TurnRequests /\ m.kind = "reset" /\ m.stage = g /\ m.targets = {} /\ m.left = {}
    BY <2>2, IdleIsPosed DEF TurnRequests
  <2> HIDE DEF m
  <2>4. Pauses(encounter) => AtPause(encounter, cmd', owed, moved')
    BY <2>1, <2>3, TakesFacts DEF AtPause, Pauses, Sees
  <2>5. ~Pauses(encounter) => AtWrite(encounter, cmd', owed, moved')
    BY <2>1, <2>3, TakesFacts DEF AtWrite, Pauses, Sees
  <2> QED
    BY <2>1, <2>2, <2>3, <2>4, <2>5, TakesFacts DEF Onward, Fits
<1>4. CASE AddActor \/ RemoveParticipant
  <2>1. PICK m : /\ m \in TurnRequests /\ m.stage = "write" /\ m.targets = {} /\ m.left = {} /\ Takes(m)
                 /\ \/ m.kind = "add" /\ m.who \in Combatants \ encounter.in
                    \/ m.kind = "remove" /\ m.who \in encounter.in
    <3> DEFINE M(d, c) == [Idle EXCEPT !.kind = d, !.who = c, !.stage = "write"]
    <3>1. ASSUME NEW c \in Combatants, NEW d \in {"add", "remove"}
          PROVE  M(d, c) \in TurnRequests /\ M(d, c).stage = "write" /\ M(d, c).targets = {} /\ M(d, c).left = {}
                 /\ M(d, c).kind = d /\ M(d, c).who = c
      BY <1>1, IdleIsPosed DEF TurnRequests
    <3>2. CASE AddActor
      <4>1. PICK c \in Combatants \ (encounter.in \union encounter.gone) : Takes(M("add", c))
        BY <3>2 DEF AddActor
      <4> HIDE DEF M
      <4>2. /\ M("add", c) \in TurnRequests /\ M("add", c).stage = "write" /\ M("add", c).targets = {}
            /\ M("add", c).left = {} /\ M("add", c).kind = "add" /\ M("add", c).who = c
        BY <3>1
      <4> QED
        BY <4>1, <4>2
    <3>3. CASE RemoveParticipant
      <4>1. PICK c \in encounter.in : Takes(M("remove", c))
        BY <3>3 DEF RemoveParticipant
      <4> HIDE DEF M
      <4>2. /\ M("remove", c) \in TurnRequests /\ M("remove", c).stage = "write" /\ M("remove", c).targets = {}
            /\ M("remove", c).left = {} /\ M("remove", c).kind = "remove" /\ M("remove", c).who = c
        BY <1>1, <3>1
      <4> QED
        BY <4>1, <4>2
    <3> QED
      BY <1>4, <3>2, <3>3
  <2>2. AtWrite(encounter, cmd', owed, moved')
    BY <2>1, TakesFacts DEF AtWrite, Sees, Returns
  <2> QED
    BY <2>1, <2>2, TakesFacts DEF Onward, Fits
<1>5. CASE RollInitiativeBatch \/ RollInitiativeOne \/ PlayerRoll
  <2>1. PICK m : /\ m \in TurnRequests /\ m.stage = "roll" /\ m.left = m.targets /\ m.targets \subseteq encounter.in
                 /\ Takes(m)
                 /\ \/ m.kind = "rollAll" /\ \A c \in m.left : encounter.score[c] = Unscored
                    \/ m.kind \in {"rollOne", "player"} /\ \E c \in m.left : m.left = {c}
    <3> DEFINE M(d, S) == [Idle EXCEPT !.kind = d, !.targets = S, !.left = S, !.stage = "roll"]
    <3>1. ASSUME NEW S \in SUBSET Combatants, NEW d \in {"rollAll", "rollOne", "player"}
          PROVE  M(d, S) \in TurnRequests /\ M(d, S).stage = "roll" /\ M(d, S).targets = S
                 /\ M(d, S).left = S /\ M(d, S).kind = d
      BY IdleIsPosed DEF TurnRequests
    <3>2. CASE RollInitiativeBatch
      <4>1. PICK scope \in {Combatants, Npcs} :
                Takes(M("rollAll", {c \in encounter.in \intersect scope : encounter.score[c] = Unscored}))
        BY <3>2 DEF RollInitiativeBatch
      <4> DEFINE rows == {c \in encounter.in \intersect scope : encounter.score[c] = Unscored}
      <4>2. rows \in SUBSET Combatants /\ rows \subseteq encounter.in /\ \A c \in rows : encounter.score[c] = Unscored
        BY <1>1
      <4>3. Takes(M("rollAll", rows))
        BY <4>1
      <4> HIDE DEF rows, M
      <4> QED
        BY <3>1, <4>2, <4>3
    <3>3. CASE RollInitiativeOne
      <4>1. PICK c \in encounter.in : Takes(M("rollOne", {c}))
        BY <3>3 DEF RollInitiativeOne
      <4> HIDE DEF M
      <4>2. {c} \in SUBSET Combatants /\ {c} \subseteq encounter.in /\ c \in {c}
        BY <1>1
      <4> QED
        BY <3>1, <4>1, <4>2
    <3>4. CASE PlayerRoll
      <4>1. PICK c \in encounter.in : Takes(M("player", {c}))
        BY <3>4 DEF PlayerRoll
      <4> HIDE DEF M
      <4>2. {c} \in SUBSET Combatants /\ {c} \subseteq encounter.in /\ c \in {c}
        BY <1>1
      <4> QED
        BY <3>1, <4>1, <4>2
    <3> QED
      BY <1>5, <3>2, <3>3, <3>4
  <2>2. AtRoll(encounter, cmd', owed, moved')
    BY <2>1, TakesFacts DEF AtRoll, Sees, Returns
  <2> QED
    BY <2>1, <2>2, TakesFacts DEF Onward, Fits
<1> QED
  BY <1>2, <1>3, <1>4, <1>5

\* A roll is answered or fails; a player's command looks whose turn it is when it is answered.
LEMMA RollStep ==
    ASSUME TurnInv, Roll \/ RollFails
    PROVE  Onward /\ encounter' = encounter
<1> USE DEF TurnInv
<1>1. AtRoll(encounter, cmd, owed, moved) /\ Posed(encounter, cmd) /\ encounter \in Documents
  BY DEF Roll, RollFails, Fits, DocFits
<1>2. ~Paused(encounter) => Behind(encounter, cmd.was, owed)
  BY <1>1 DEF AtRoll, Behind
<1>3. CASE RollFails
  <2>1. Fits(encounter, Throws(encounter, cmd), owed, moved)
    BY <1>1, <1>2, ThrowsFits DEF AtRoll
  <2> QED
    BY <1>3, <2>1 DEF RollFails, Unwritten, Onward
<1>4. CASE Roll
  <2>1. encounter' = encounter /\ owed' = owed /\ moved' = moved
    BY <1>4 DEF Roll
  <2>2. PICK c \in cmd.left : cmd' = [cmd EXCEPT !.who = c, !.stage = "score",
            !.was = IF cmd.kind # "player" THEN cmd.was ELSE IF Paused(encounter) THEN None ELSE Current(encounter)]
    BY <1>4 DEF Roll
  <2> DEFINE w == IF cmd.kind # "player" THEN cmd.was ELSE IF Paused(encounter) THEN None ELSE Current(encounter)
  <2>3. c \in 0..N /\ w \in 0..N
    <3>1. cmd.left \subseteq Combatants /\ cmd.was \in 0..N
      BY <1>1 DEF Posed, TurnRequests
    <3>2. Current(encounter) \in Combatants \cup {None}
      BY <1>1, CurrentRow DEF Documents
    <3> QED
      BY <3>1, <3>2, TurnBoundsAreNats DEF Combatants, None
  <2>4. cmd' = [cmd EXCEPT !.who = c, !.stage = "score", !.was = w]
    BY <2>2
  <2>5. w = IF cmd.kind # "player" THEN cmd.was ELSE IF Paused(encounter) THEN None ELSE Current(encounter)
    OBVIOUS
  <2> HIDE DEF w
  <2>6. /\ Posed(encounter, cmd') /\ cmd'.who = c /\ cmd'.stage = "score" /\ cmd'.was = w
        /\ cmd'.kind = cmd.kind /\ cmd'.left = cmd.left /\ cmd'.held = cmd.held
    BY <1>1, <2>3, <2>4 DEF Posed, TurnRequests
  <2>7. AtRoll(encounter, cmd', owed, moved)
    BY <1>1, <2>5, <2>6, CurrentIsBehind DEF AtRoll, Sees, Returns
  <2> QED
    BY <2>1, <2>6, <2>7 DEF Onward, Fits
<1> QED
  BY <1>3, <1>4

\* The lock is given back, or lost with the server.
LEMMA EndStep ==
    ASSUME TurnInv, Done \/ ServerRestarts
    PROVE  Onward /\ encounter' = encounter
<1>1. encounter' = encounter /\ owed' = owed /\ moved' = moved /\ cmd' = Idle
  BY DEF Done, ServerRestarts, Unwritten
<1> QED
  BY <1>1, IdleIsPosed DEF TurnInv, Onward, Fits, Posed

-----------------------------------------------------------------------------
(* The theorems *)

\* What history remembers keeps its type.
LEMMA HistoryTypes ==
    ASSUME TurnInv, TurnNext
    PROVE  moved' \in [cmd : BOOLEAN, pause : BOOLEAN] /\ events' \in 0..MaxEvents
<1> DEFINE Kept == moved' = moved \/ moved' = [moved EXCEPT !.pause = FALSE]
                     \/ moved' = [moved EXCEPT !.cmd = FALSE] \/ moved' = [cmd |-> TRUE, pause |-> TRUE]
           Counted == events' = events \/ Event
<1>1. ASSUME AdvanceTurn \/ RewindTurn \/ EndTurn
      PROVE  Kept /\ Counted
  BY <1>1 DEF AdvanceTurn, RewindTurn, EndTurn, TurnCommand, Sends, Lands, Unwritten
<1>2. ASSUME UpdateParticipant \/ ResetInitiative \/ AddActor \/ RemoveParticipant
             \/ RollInitiativeBatch \/ RollInitiativeOne \/ PlayerRoll
      PROVE  Kept /\ Counted
  BY <1>2 DEF UpdateParticipant, ResetInitiative, AddActor, RemoveParticipant, RollInitiativeBatch,
              RollInitiativeOne, PlayerRoll, Takes
<1>3. ASSUME Roll \/ RollFails \/ Done \/ NativeTurn \/ ServerRestarts
      PROVE  Kept /\ Counted
  BY <1>3 DEF Roll, RollFails, Done, NativeTurn, ServerRestarts, Unwritten
<1>4. ASSUME Score \/ Update \/ Reset \/ Add \/ Remove \/ Mend \/ Pause \/ Restore \/ Preserve
      PROVE  Kept /\ Counted
  BY <1>4 DEF Score, Update, Reset, Add, Remove, Mend, Pause, Restore, Preserve, Sends, Lands, Unwritten
<1>5. Kept /\ Counted
  BY <1>1, <1>2, <1>3, <1>4 DEF TurnNext
<1>6. moved' \in [cmd : BOOLEAN, pause : BOOLEAN]
  <2>1. moved \in [cmd : BOOLEAN, pause : BOOLEAN]
    BY DEF TurnInv
  <2>2. CASE moved' = moved
    BY <2>1, <2>2
  <2>3. CASE moved' = [moved EXCEPT !.pause = FALSE]
    BY <2>1, <2>3
  <2>4. CASE moved' = [moved EXCEPT !.cmd = FALSE]
    BY <2>1, <2>4
  <2>5. CASE moved' = [cmd |-> TRUE, pause |-> TRUE]
    BY <2>5
  <2> QED
    BY <1>5, <2>2, <2>3, <2>4, <2>5
<1>7. events' \in 0..MaxEvents
  BY <1>5, TurnBoundsAreNats DEF TurnInv, Event
<1> QED
  BY <1>6, <1>7

\* The rows present with any scores, and no command.
LEMMA TurnInitFits == TurnInit => TurnInv
<1> SUFFICES ASSUME TurnInit PROVE TurnInv
  OBVIOUS
<1>1. encounter.round = 0 /\ encounter.turn = NoTurn /\ encounter.pause = NoPause
  BY DEF TurnInit
<1>0. /\ 0 \in 0..MaxRound /\ NoTurn \in -1..N
      /\ NoPause \in [who : Combatants \cup {None}, score : Scores \cup {Unscored},
                      reason : {"none", "initiative", "skip"}]
  BY TurnBoundsAreNats DEF NoTurn, NoPause
<1>5. encounter \in Documents
  BY <1>0 DEF TurnInit, Documents
<1>2. Bare(encounter)
  BY DEF TurnInit, Bare
<1>3. DocFits(encounter, owed, moved)
  BY <1>1, <1>2, <1>5 DEF TurnInit, DocFits
<1>4. Fits(encounter, cmd, owed, moved)
  BY IdleIsPosed DEF TurnInit, Fits, Posed
<1> QED
  BY <1>3, <1>4, TurnBoundsAreNats DEF TurnInit, TurnInv

\* Every step keeps the invariant.
LEMMA TurnInvStep == TurnInv /\ [TurnNext]_turnVars => TurnInv'
<1> SUFFICES ASSUME TurnInv, [TurnNext]_turnVars PROVE TurnInv'
  OBVIOUS
<1>1. CASE TurnNext
  <2>1. Onward
    <3>1. CASE AdvanceTurn \/ RewindTurn \/ EndTurn
      BY <3>1, TurnStep
    <3>2. CASE UpdateParticipant \/ ResetInitiative \/ AddActor \/ RemoveParticipant
                 \/ RollInitiativeBatch \/ RollInitiativeOne \/ PlayerRoll
      BY <3>2, TakesStep
    <3>3. CASE Roll \/ RollFails
      BY <3>3, RollStep
    <3>4. CASE Score \/ Update \/ Reset \/ Add \/ Remove \/ Mend
      BY <3>4, ScoreStep, UpdateStep, ResetStep, AddStep, RemoveStep, MendStep
    <3>5. CASE Pause \/ Restore \/ Preserve
      BY <3>5, PauseStep, RestoreStep, PreserveStep
    <3>6. CASE Done \/ ServerRestarts
      BY <3>6, EndStep
    <3> QED
      BY <1>1, <3>1, <3>2, <3>3, <3>4, <3>5, <3>6, NativeStep DEF TurnNext
  <2>2. moved' \in [cmd : BOOLEAN, pause : BOOLEAN] /\ events' \in 0..MaxEvents
    BY <1>1, HistoryTypes
  <2> QED
    BY <2>1, <2>2 DEF Onward, TurnInv
<1>2. CASE UNCHANGED turnVars
  BY <1>2 DEF turnVars, TurnInv
<1> QED
  BY <1>1, <1>2

\* The invariant of the turns: who is due comes after the turn or after the place of the one that is
\* paused, and a command knows at each stage what it needs to give the turn back
\* (CombatManagerService.ts, CombatTurnQueue.ts).
THEOREM TurnInvariance == TurnSpec => []TurnInv
BY TurnInitFits, TurnInvStep, PTL DEF TurnSpec

\* The document and the command have their types, and who left has neither score nor Skip.
THEOREM TurnTypes == TurnSpec => []TurnTypeOK
<1>1. TurnInv => TurnTypeOK
  BY DEF TurnInv, TurnTypeOK, DocFits, Bare, Fits, Posed, TurnRequests
<1> QED
  BY <1>1, TurnInvariance, PTL

\* A command that is not about the turn leaves it with the combatant that had it, or paused in its
\* name, whatever it reorders, adds or clears, and for rolls and the reset when part of it fails.
THEOREM TurnsKept == TurnSpec => []CommandsKeepTheTurn
<1>1. TurnInv => CommandsKeepTheTurn
  <2> SUFFICES ASSUME TurnInv, cmd.stage = "done", cmd.kind # "remove", encounter.round > 0, ~moved.cmd,
                      cmd.out = "ok" \/ (cmd.out = "error" /\ cmd.kind \in Finally), cmd.held # None
               PROVE  Holder(encounter) = cmd.held
    BY DEF CommandsKeepTheTurn
  <2>1. AtDone(encounter, cmd, owed, moved)
    BY DEF TurnInv, Fits
  <2> QED
    BY <2>1 DEF AtDone, Sees
<1> QED
  BY <1>1, TurnInvariance, PTL

\* A write of a row, or one that gives the turn back or pauses it, leaves the round alone.
LEMMA RoundStays ==
    ASSUME TurnInv, Score \/ Update \/ Reset \/ Add \/ Remove \/ Mend \/ Pause \/ Restore \/ Preserve
    PROVE  encounter'.round = encounter.round
<1>1. encounter \in Documents
  BY DEF TurnInv, DocFits
<1>2. CASE Score \/ Update \/ Reset \/ Add \/ Remove
  BY <1>1, <1>2 DEF Score, Update, Reset, Add, Remove, Sends, Lands, Unwritten, Documents
<1>3. CASE Mend \/ Pause \/ Preserve \/ Restore
  BY <1>1, <1>3 DEF Mend, Pause, Preserve, Restore, At, Sends, Lands, Unwritten, Documents
<1> QED
  BY <1>2, <1>3

\* A round ends when everybody who was eligible when it began has had the turn, whatever was
\* paused, rolled, added and removed in between, and whichever writes failed.
THEOREM RoundsAreComplete == TurnSpec => RoundIsComplete
<1>1. ASSUME TurnInv, [TurnNext]_turnVars, encounter'.round > encounter.round, encounter.round > 0
      PROVE  NativeTurn \/ owed = {}
  <2>1. encounter.round \in Int
    BY <1>1 DEF TurnInv, DocFits, Documents
  <2>2. encounter'.round # encounter.round
    BY <1>1, <2>1
  <2>3. CASE AdvanceTurn \/ RewindTurn \/ EndTurn
    BY <1>1, <2>3, TurnStep
  <2>4. CASE UpdateParticipant \/ ResetInitiative \/ AddActor \/ RemoveParticipant
               \/ RollInitiativeBatch \/ RollInitiativeOne \/ PlayerRoll \/ Roll \/ RollFails
               \/ Done \/ ServerRestarts
    BY <1>1, <2>2, <2>4, TakesStep, RollStep, EndStep
  <2>5. CASE Score \/ Update \/ Reset \/ Add \/ Remove \/ Mend \/ Pause \/ Restore \/ Preserve
    BY <1>1, <2>2, <2>5, RoundStays
  <2>6. TurnNext
    BY <1>1, <2>2 DEF turnVars
  <2> QED
    BY <2>3, <2>4, <2>5, <2>6 DEF TurnNext
<1>2. TurnInv /\ [TurnNext]_turnVars =>
        [encounter'.round > encounter.round /\ encounter.round > 0 => NativeTurn \/ owed = {}]_turnVars
  BY <1>1
<1> QED
  BY <1>2, TurnInvariance, PTL DEF TurnSpec, RoundIsComplete

\* While the turn is paused nobody has it, and the pause ends with a manager's turn command, or by
\* giving the turn to the combatant it is kept for.
THEOREM PausesHold == TurnSpec => PauseHolds
<1> DEFINE Lawful == \/ encounter'.pause = encounter.pause /\ (encounter'.turn = NoTurn \/ NativeTurn)
                     \/ AdvanceTurn \/ RewindTurn
                     \/ cmd.stage = "restore" /\ Current(encounter') = encounter.pause.who
<1>1. ASSUME TurnInv, [TurnNext]_turnVars, Paused(encounter), ~moved.pause
      PROVE  Lawful
  <2>1. encounter \in Documents /\ encounter.turn = NoTurn
    BY <1>1 DEF TurnInv, DocFits
  <2>2. encounter' = encounter => Lawful
    BY <2>1
  <2>3. ~EndTurn
    BY <1>1, TurnBoundsAreNats DEF EndTurn, ManagedCurrent, Combatants, None
  <2>4. NativeTurn => Lawful
    BY <2>1 DEF NativeTurn, Documents
  <2>5. Score \/ Update \/ Reset \/ Add \/ Remove => Lawful
    BY <2>1 DEF Score, Update, Reset, Add, Remove, Sends, Lands, Unwritten, Documents
  <2>6. ASSUME Mend PROVE Lawful
    <3>1. Eligible(encounter) = {}
      BY <1>1, <2>6 DEF TurnInv, Fits, AtMend, Mend
    <3>2. encounter' = [encounter EXCEPT !.turn = NoTurn] \/ encounter' = encounter
      BY <2>6, <3>1 DEF Mend, Sends, Lands, Unwritten
    <3> QED
      BY <2>1, <3>2 DEF Documents
  <2>7. ~Pause /\ ~Preserve
    BY <1>1 DEF TurnInv, Fits, AtPause, AtPreserve, Pause, Preserve
  <2>8. Restore => Lawful
    BY <1>1, <2>2, RestoreStep DEF Restore
  <2>9. CASE UpdateParticipant \/ ResetInitiative \/ AddActor \/ RemoveParticipant
               \/ RollInitiativeBatch \/ RollInitiativeOne \/ PlayerRoll \/ Roll \/ RollFails
               \/ Done \/ ServerRestarts
    BY <1>1, <2>2, <2>9, TakesStep, RollStep, EndStep
  <2>10. TurnNext \/ encounter' = encounter
    BY <1>1 DEF turnVars
  <2> QED
    BY <2>2, <2>3, <2>4, <2>5, <2>6, <2>7, <2>8, <2>9, <2>10 DEF TurnNext
<1>2. TurnInv /\ [TurnNext]_turnVars => [Paused(encounter) /\ ~moved.pause => Lawful]_turnVars
  BY <1>1
<1> QED
  BY <1>2, TurnInvariance, PTL DEF TurnSpec, PauseHolds
=============================================================================
