--------------------------- MODULE EncounterTurns ---------------------------
(***************************************************************************)
(* Whose turn it is in a managed encounter (CombatManagerService.ts,       *)
(* CombatTurnQueue.ts, the managed branches of CombatService.ts).          *)
(*                                                                         *)
(* Foundry stores the turn as an index into rows it sorts by initiative.   *)
(* Every change of a score, and every row that comes or goes, therefore    *)
(* moves the turn to somebody else until a second write puts the index     *)
(* right, and a row whose score is cleared leaves the order altogether:    *)
(* the turn is then paused, and the place it had is kept in a flag.        *)
(*                                                                         *)
(* The encounter's lock lets one command of the server run at a time; it   *)
(* is a chain of writes that other programs' turn commands interleave with *)
(* and any of which may be refused or lose its answer.  The need for a     *)
(* write is decided where the code decides it, in the step that ends the   *)
(* await before it.  A restart of the server forgets the command.          *)
(* The store that mirrors the encounter is DocumentMirror's subject: here  *)
(* it holds what Foundry holds.  The names that every module has carry     *)
(* Turn here, because EncounterProofs extends EncounterLifecycle as well.  *)
(***************************************************************************)
EXTENDS Integers, FiniteSets

CONSTANTS
    N,            \* the combatants, 1..N, in the order of their ids
    Npcs,         \* those no player owns
    MaxScore,     \* initiatives are 1..MaxScore
    MaxRound,     \* rounds that are played
    MaxEvents     \* writes refused or unanswered, restarts of the server, turns moved in Foundry itself

ASSUME TurnBoundsAreNats == {N, MaxScore, MaxRound, MaxEvents} \subseteq Nat
ASSUME NpcsAreCombatants == Npcs \subseteq 1..N

VARIABLES
    encounter, \* the Combat document
    cmd,       \* the command that holds the encounter's lock
    owed,      \* who has yet to get the turn in this round, see Owing
    moved,     \* Foundry moved the turn since: [cmd |-> the command began, pause |-> the pause began]
    events     \* events so far

turnVars == <<encounter, cmd, owed, moved, events>>

Combatants == 1..N
None       == 0         \* nobody
Unscored   == 0         \* initiative: null
Scores     == 1..MaxScore
NoTurn     == -1        \* turn: null
Keep       == "keep"    \* a field the request does not have
KeepScore  == -1

NoPause == [who |-> None, score |-> Unscored, reason |-> "none"]

\* A command: its request (who, score, skip), currentCombatantId as the code keeps it (was) and whose
\* turn the manager showed when the command began (held), the round and turn it began in, the rows it rolls
\* for and those left, and what it reports.
Idle == [kind |-> "none", stage |-> "idle", who |-> None, score |-> KeepScore, skip |-> Keep,
         was |-> None, held |-> None, turn |-> NoTurn, round |-> 0, targets |-> {}, left |-> {}, out |-> "ok"]

\* The combatants present with any scores, not begun.
TurnInit ==
    /\ encounter \in [round: {0}, turn: {NoTurn}, pause: {NoPause}, in: SUBSET Combatants,
                   gone: {{}}, score: [Combatants -> Scores \union {Unscored}], skip: {[c \in Combatants |-> FALSE]}]
    /\ \A c \in Combatants \ encounter.in : encounter.score[c] = Unscored
    /\ cmd = Idle
    /\ owed = {}
    /\ moved = [cmd |-> FALSE, pause |-> FALSE]
    /\ events = 0

-----------------------------------------------------------------------------
(* The prepared encounter of a Combat document k                           *)

\* sortPreparedRows: descending initiative, rows without one last, ties by ascending id.
Precedes(k, a, b) == \/ k.score[a] > k.score[b]
                     \/ k.score[a] = k.score[b] /\ a < b

\* A combatant's index in the rows.
Index(k, c) == Cardinality({d \in k.in : Precedes(k, d, c)})

\* currentCombatantId
Current(k) == LET here == {c \in k.in : Index(k, c) = k.turn} IN
              IF here = {} THEN None ELSE CHOOSE c \in here : TRUE

\* isManagedTurnEligible
Eligible(k) == {c \in k.in : k.score[c] # Unscored /\ ~k.skip[c]}

First(k, S) == CHOOSE c \in S : \A d \in S \ {c} : Precedes(k, c, d)
Last(k, S)  == CHOOSE c \in S : \A d \in S \ {c} : Precedes(k, d, c)

Paused(k) == k.pause.who # None

\* managedCurrentCombatantId: whose turn the manager shows.
ManagedCurrent(k) == IF k.round = 0 \/ Paused(k) \/ Current(k) \notin Eligible(k) THEN None ELSE Current(k)

\* compareAnchor > 0, and < 0: after or before the place the paused combatant had.
\* Fault: ties with the anchor are taken to come before it.
AfterAnchorUntied(k, c) == k.score[c] < k.pause.score
AfterAnchor(k, c)  == k.score[c] < k.pause.score \/ (k.score[c] = k.pause.score /\ c > k.pause.who)
BeforeAnchor(k, c) == k.score[c] > k.pause.score \/ (k.score[c] = k.pause.score /\ c < k.pause.who)

Following(k) == {c \in Eligible(k) :
                    IF Paused(k) THEN c # k.pause.who /\ AfterAnchor(k, c) ELSE Index(k, c) > k.turn}
Preceding(k) == {c \in Eligible(k) :
                    IF Paused(k) THEN c # k.pause.who /\ BeforeAnchor(k, c) ELSE Index(k, c) < k.turn}

At(k, round, c) == [k EXCEPT !.round = round, !.turn = Index(k, c), !.pause = NoPause]

\* resolveManagedTurn, where somebody is eligible, with the flag the command writes.
NextTurn(k) ==
    IF k.round = 0 THEN At(k, 1, First(k, Eligible(k)))
    ELSE IF Following(k) # {} THEN At(k, k.round, First(k, Following(k)))
    ELSE At(k, k.round + 1, First(k, Eligible(k)))

Unbegun(k) == [k EXCEPT !.round = 0, !.turn = 0, !.pause = NoPause]
PreviousTurn(k) ==
    IF k.round = 0 THEN Unbegun(k)
    ELSE IF Preceding(k) # {} THEN At(k, k.round, Last(k, Preceding(k)))
    ELSE IF k.round > 1 THEN At(k, k.round - 1, Last(k, Eligible(k)))
    ELSE Unbegun(k)

-----------------------------------------------------------------------------
(* What history remembers                                                  *)

\* Whose turn it is, or was when it was paused.
Holder(k) == IF Paused(k) THEN k.pause.who ELSE Current(k)

\* A write gives the combatant whose turn it is another place in the order.
Displaces(old, new) ==
    LET h == Holder(old) IN
    /\ h # None /\ h \in new.in
    /\ IF Paused(old) THEN ~Paused(new) /\ new.score[h] # old.pause.score
       ELSE ~Paused(new) /\ new.score[h] # old.score[h]

\* A combatant that was due when the round began stays due until it has the turn, its own score
\* or Skip changes, it leaves, or the one whose turn it is is placed elsewhere.
Owing(old, new) ==
    IF Displaces(old, new) THEN {}
    ELSE {c \in owed : /\ c \in new.in /\ c # Current(new)
                       /\ new.score[c] = old.score[c] /\ new.skip[c] = old.skip[c]}

\* Foundry holds `new`; `due` have yet to get the turn.
Lands(new, due) ==
    /\ encounter' = new
    /\ owed'   = due
    /\ moved'  = IF Paused(encounter) THEN moved ELSE [moved EXCEPT !.pause = FALSE]

Unwritten == UNCHANGED <<encounter, owed, moved>>

Event == events < MaxEvents /\ events' = events + 1

\* A write that is answered lets the command go on; one that is refused, or lands without an
\* answer, throws.
Sends(new, due, answered, thrown) ==
    \/ Lands(new, due) /\ cmd' = answered /\ UNCHANGED events
    \/ /\ Event
       /\ Lands(new, due) \/ Unwritten
       /\ cmd' = thrown

-----------------------------------------------------------------------------
(* Turn commands: a check of the stored encounter and the one write, sent  *)
(* in the step of the check, so that the lock is taken and left in it.     *)

TurnCommand(new, due) ==
    /\ cmd.stage = "idle"
    /\ Eligible(encounter) # {}
    /\ new.round <= MaxRound
    /\ Sends(new, due, cmd, cmd)

\* A round owes everyone eligible when it begins a turn.
Due(new) == IF new.round > encounter.round THEN Eligible(new) \ {Current(new)} ELSE owed \ {Current(new)}

\* The managers' commands.
AdvanceTurn == TurnCommand(NextTurn(encounter), Due(NextTurn(encounter)))
RewindTurn  == TurnCommand(PreviousTurn(encounter), {})

\* A player ends the turn of a combatant they own, as they last saw it.
EndTurn ==
    /\ ManagedCurrent(encounter) \in Combatants \ Npcs
    /\ TurnCommand(NextTurn(encounter), Due(NextTurn(encounter)))

-----------------------------------------------------------------------------
(* The writes that keep the turn                                           *)

\* pauseCurrentTurn would write.
Pauses(k) == ManagedCurrent(k) # None

\* restorePausedTurn(c) would write.
Restores(k, c) == Paused(k) /\ k.pause.who = c /\ c \in Eligible(k)

\* preserveCurrentTurn(was) would write.
\* Fault: a pause does not keep the turn from being given back.
PreservesPaused(k, was) == was \in Eligible(k) /\ k.round > 0 /\ Index(k, was) # k.turn
Preserves(k, was) == was \in Eligible(k) /\ k.round > 0 /\ ~Paused(k) /\ Index(k, was) # k.turn

Finishes(m, out) == [m EXCEPT !.stage = "done", !.out = out]

\* What is left of command m over encounter k when its other writes are over.
Preserving(k, m, out) == IF Preserves(k, m.was) THEN [m EXCEPT !.stage = "preserve", !.out = out]
                         ELSE Finishes(m, out)
Restoring(k, m, c)    == IF Restores(k, c) THEN [m EXCEPT !.stage = "restore"]
                         ELSE Preserving(k, m, "ok")

\* The commands that preserve the turn in a `finally`.
Finally == {"rollAll", "rollOne", "reset"}
\* Fault: what throws ends there.
ThrowsAtOnce(k, m) == Finishes(m, "error")
Throws(k, m) == IF m.kind \in Finally THEN Preserving(k, m, "error") ELSE Finishes(m, "error")

\* `turn: null` and the pause, in one write.
Pause ==
    /\ cmd.stage = "pause"
    /\ LET clears == cmd.kind = "reset" \/ cmd.score = Unscored
           new == [encounter EXCEPT !.turn = NoTurn, !.pause =
                      [who |-> cmd.was, score |-> encounter.score[cmd.was],
                       reason |-> IF clears THEN "initiative" ELSE "skip"]] IN
       Sends(new, Owing(encounter, new), [cmd EXCEPT !.stage = "write"], Finishes(cmd, "error"))

Restore ==
    /\ cmd.stage = "restore"
    /\ LET new == At(encounter, encounter.round, encounter.pause.who) IN
       Sends(new, Owing(encounter, new),
             IF cmd.kind = "update" /\ cmd.score = KeepScore THEN Finishes(cmd, "ok") ELSE Preserving(new, cmd, "ok"),
             Throws(encounter', cmd))

Preserve ==
    /\ cmd.stage = "preserve"
    /\ LET new == [encounter EXCEPT !.turn = Index(encounter, cmd.was)] IN
       Sends(new, Owing(encounter, new), Finishes(cmd, cmd.out), Finishes(cmd, "unsure"))

-----------------------------------------------------------------------------
(* The commands                                                            *)

\* Takes the lock, or refuses with EncounterBusyError.
Takes(m) ==
    /\ cmd.stage = "idle"
    /\ cmd' = [m EXCEPT !.was = Current(encounter), !.turn = encounter.turn, !.round = encounter.round,
                        !.held = ManagedCurrent(encounter)]
    /\ moved' = [moved EXCEPT !.cmd = FALSE]
    /\ UNCHANGED <<encounter, owed, events>>

PausesFor(c, v, s) == /\ Current(encounter) = c /\ Pauses(encounter)
                      /\ v = Unscored \/ (s = "on" /\ ~encounter.skip[c])

UpdateParticipant ==
    \E c \in encounter.in, v \in Scores \union {Unscored, KeepScore}, s \in {Keep, "on", "off"} :
        /\ v # KeepScore \/ s # Keep
        /\ Takes([Idle EXCEPT !.kind = "update", !.who = c, !.score = v, !.skip = s,
                               !.stage = IF PausesFor(c, v, s) THEN "pause" ELSE "write"])

ResetInitiative ==
    /\ \E c \in encounter.in : encounter.score[c] # Unscored
    /\ Takes([Idle EXCEPT !.kind = "reset", !.stage = IF Pauses(encounter) THEN "pause" ELSE "write"])

AddActor == \E c \in Combatants \ (encounter.in \union encounter.gone) : Takes([Idle EXCEPT !.kind = "add", !.who = c, !.stage = "write"])
RemoveParticipant == \E c \in encounter.in : Takes([Idle EXCEPT !.kind = "remove", !.who = c, !.stage = "write"])

\* The rows without a score, or those of them no player owns.
RollInitiativeBatch ==
    \E scope \in {Combatants, Npcs} :
        LET rows == {c \in encounter.in \intersect scope : encounter.score[c] = Unscored} IN
        /\ rows # {}
        /\ Takes([Idle EXCEPT !.kind = "rollAll", !.targets = rows, !.left = rows, !.stage = "roll"])

RollInitiativeOne ==
    \E c \in encounter.in : Takes([Idle EXCEPT !.kind = "rollOne", !.targets = {c}, !.left = {c}, !.stage = "roll"])

PlayerRoll ==
    \E c \in encounter.in \ Npcs :
        /\ encounter.score[c] = Unscored
        /\ Takes([Idle EXCEPT !.kind = "player", !.targets = {c}, !.left = {c}, !.stage = "roll"])

\* Foundry answers a roll.  Only then a player's command looks whose turn it is.
Roll ==
    /\ cmd.stage = "roll"
    /\ \E c \in cmd.left :
        cmd' = [cmd EXCEPT !.who = c, !.stage = "score",
                           !.was = IF cmd.kind # "player" THEN @
                                   ELSE IF Paused(encounter) THEN None ELSE Current(encounter)]
    /\ UNCHANGED <<encounter, owed, moved, events>>

RollFails ==
    /\ cmd.stage = "roll"
    /\ Event
    /\ cmd' = Throws(encounter, cmd)
    /\ Unwritten

\* A player's command restores no turn over a newer one: it gives up when the round or the turn
\* is not the one it began in.
PlayerScored(k) ==
    IF <<k.round, k.turn>> # <<cmd.round, cmd.turn>> THEN Finishes(cmd, "error")
    ELSE IF cmd.was # None /\ k.round > 0 /\ cmd.was \notin Eligible(k) THEN Finishes(cmd, "error")
    ELSE Preserving(k, cmd, "ok")

\* A row is scored: the next one is rolled for, or the pause of one of the rows is over.
Scored(k) ==
    LET m == [cmd EXCEPT !.left = @ \ {cmd.who}] IN
    IF cmd.kind = "player" THEN PlayerScored(k)
    ELSE IF m.left # {} THEN [m EXCEPT !.stage = "roll"]
    ELSE IF k.pause.who \in m.targets THEN Restoring(k, m, k.pause.who)
    ELSE Preserving(k, m, "ok")

Score ==
    /\ cmd.stage = "score"
    /\ \E v \in Scores :
        LET new == [encounter EXCEPT !.score[cmd.who] = v] IN
        Sends(new, Owing(encounter, new), Scored(new), Throws(encounter', cmd))

\* Unskipping restores a turn that Skip paused, and a score any turn.
Updated(k) ==
    IF Restores(k, cmd.who) /\ (cmd.score \in Scores \/ (cmd.skip = "off" /\ k.pause.reason = "skip"))
    THEN [cmd EXCEPT !.stage = "restore"]
    ELSE IF cmd.score # KeepScore THEN Preserving(k, cmd, "ok") ELSE Finishes(cmd, "ok")

Update ==
    /\ cmd.stage = "write" /\ cmd.kind = "update"
    /\ LET new == [encounter EXCEPT !.score[cmd.who] = IF cmd.score = KeepScore THEN @ ELSE cmd.score,
                                 !.skip[cmd.who] = IF cmd.skip = Keep THEN @ ELSE cmd.skip = "on"] IN
       Sends(new, Owing(encounter, new), Updated(new), Throws(encounter', cmd))

\* All the scores, in one write.
Reset ==
    /\ cmd.stage = "write" /\ cmd.kind = "reset"
    /\ LET new == [encounter EXCEPT !.score = [c \in Combatants |-> Unscored]] IN
       Sends(new, Owing(encounter, new), Preserving(new, cmd, "ok"), Throws(encounter', cmd))

Add ==
    /\ cmd.stage = "write" /\ cmd.kind = "add"
    /\ LET new == [encounter EXCEPT !.in = @ \union {cmd.who}] IN
       Sends(new, Owing(encounter, new), Preserving(new, cmd, "ok"), Throws(encounter', cmd))

\* Nobody is left to have a turn, or the one whose turn it was is gone.
Removed(k) ==
    IF cmd.round > 0 /\ (Eligible(k) = {} \/ cmd.was = cmd.who) THEN [cmd EXCEPT !.stage = "mend"]
    ELSE IF cmd.round > 0 THEN Preserving(k, cmd, "ok") ELSE Finishes(cmd, "ok")

Remove ==
    /\ cmd.stage = "write" /\ cmd.kind = "remove"
    /\ LET new == [encounter EXCEPT !.in = @ \ {cmd.who}, !.gone = @ \union {cmd.who},
                                 !.score[cmd.who] = Unscored, !.skip[cmd.who] = FALSE] IN
       Sends(new, Owing(encounter, new), Removed(new), Throws(encounter', cmd))

\* The turn goes to the next row from the place of the one removed, or to the first.
Successors(k) == {c \in Eligible(k) : Index(k, c) >= cmd.turn}
Mend ==
    /\ cmd.stage = "mend"
    /\ LET new == [encounter EXCEPT !.turn =
                      IF Eligible(encounter) = {} THEN NoTurn
                      ELSE IF Successors(encounter) # {} THEN Index(encounter, First(encounter, Successors(encounter)))
                      ELSE Index(encounter, First(encounter, Eligible(encounter)))] IN
       Sends(new, Owing(encounter, new), Finishes(cmd, "ok"), Finishes(cmd, "error"))

Done ==
    /\ cmd.stage = "done"
    /\ cmd' = Idle
    /\ UNCHANGED <<encounter, owed, moved, events>>

-----------------------------------------------------------------------------
(* The environment                                                         *)

\* Somebody moves the turn in Foundry, whose commands know neither the lock nor the pause.
NativeTurn ==
    /\ Event
    /\ encounter.round > 0
    /\ \E r \in {encounter.round, encounter.round + 1} \intersect 1..MaxRound, c \in encounter.in :
        encounter' = [encounter EXCEPT !.round = r, !.turn = Index(encounter, c)]
    /\ encounter' # encounter
    /\ owed' = {}
    /\ moved' = [cmd |-> TRUE, pause |-> TRUE]
    /\ UNCHANGED cmd

\* The server restarts: the lock and the command are gone.
ServerRestarts ==
    /\ cmd.stage # "idle"
    /\ Event
    /\ cmd' = Idle
    /\ Unwritten

TurnNext ==
    \/ AdvanceTurn \/ RewindTurn \/ EndTurn
    \/ UpdateParticipant \/ ResetInitiative \/ AddActor \/ RemoveParticipant
    \/ RollInitiativeBatch \/ RollInitiativeOne \/ PlayerRoll
    \/ Roll \/ RollFails \/ Score \/ Update \/ Reset \/ Add \/ Remove \/ Mend
    \/ Pause \/ Restore \/ Preserve \/ Done
    \/ NativeTurn \/ ServerRestarts

TurnSpec == TurnInit /\ [][TurnNext]_turnVars

-----------------------------------------------------------------------------
(* Properties                                                              *)

Documents == [round: 0..MaxRound, turn: -1..N, pause: [who: Combatants \union {None},
               score: Scores \union {Unscored}, reason: {"none", "initiative", "skip"}],
               in: SUBSET Combatants, gone: SUBSET Combatants, score: [Combatants -> Scores \union {Unscored}],
               skip: [Combatants -> BOOLEAN]]

\* The document and the command have their types, and who left has neither score nor Skip.
TurnTypeOK ==
    /\ encounter \in Documents
    /\ \A c \in Combatants \ encounter.in : encounter.score[c] = Unscored /\ ~encounter.skip[c]
    /\ cmd.stage \in {"idle", "pause", "write", "roll", "score", "restore", "preserve", "mend", "done"}
    /\ cmd.targets \subseteq encounter.in /\ cmd.left \subseteq cmd.targets
    /\ owed \subseteq Eligible(encounter)
    /\ moved \in [cmd: BOOLEAN, pause: BOOLEAN]
    /\ events \in 0..MaxEvents

\* A command that is not about the turn leaves it with the combatant that had it, or paused in its
\* name, whatever it reorders, adds or clears: when it succeeds, and for a manager's rolls (not a player's) and the reset also when
\* a part of it fails ("even if a later roll fails after earlier writes",
\* CombatManagerService.ts:837), unless the write that gives the turn back fails itself or somebody
\* moves the turn in Foundry meanwhile.  (updateParticipant, rollInitiativeBatch,
\* rollInitiativeOne, resetInitiative, addWorldActor, rollInitiativeCore)
CommandsKeepTheTurn ==
    /\ cmd.stage = "done" /\ cmd.kind # "remove" /\ encounter.round > 0 /\ ~moved.cmd
    /\ cmd.out = "ok" \/ (cmd.out = "error" /\ cmd.kind \in Finally)
    => cmd.held = None \/ Holder(encounter) = cmd.held

\* A round ends when everybody who was eligible when it began has had the turn, except those whose own score or Skip
\* changed, who left, and unless the one whose turn it was was moved in the order, or the turn
\* was moved back or in Foundry: whatever was paused, rolled, added and removed in between,
\* and whichever writes failed.  (resolveManagedTurn, compareAnchor, removeParticipant)
RoundIsComplete ==
    [][encounter'.round > encounter.round /\ encounter.round > 0 => NativeTurn \/ owed = {}]_turnVars

\* While the turn is paused nobody has it, and the pause ends with a manager's turn command, or by
\* giving the turn to the combatant it is kept for: no roll, no score and no failure of a write
\* does it.  (pauseCurrentTurn, restorePausedTurn, preserveCurrentTurn)
PauseHolds ==
    [][Paused(encounter) /\ ~moved.pause =>
        \/ encounter'.pause = encounter.pause /\ (encounter'.turn = NoTurn \/ NativeTurn)
        \/ AdvanceTurn \/ RewindTurn
        \/ cmd.stage = "restore" /\ Current(encounter') = encounter.pause.who]_turnVars
=============================================================================
