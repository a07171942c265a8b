---------------------------- MODULE FoundrySessions ----------------------------
(***************************************************************************)
(* Player sessions: FoundryUserConnectionService.ts with the handlers of   *)
(* index.ts that drive it.  A session is a live connection, a persisted    *)
(* record, or both; logins, restorations and authorization rebinds await   *)
(* Foundry, and what retires a session must win against each of them.      *)
(*                                                                         *)
(* The session store works synchronously inside the promise queue, so a    *)
(* load-change-save under isSaving is one step.  Only calls of the same    *)
(* turn meet on isSaving: the first one runs, the others sleep.            *)
(***************************************************************************)
EXTENDS Integers, FiniteSets

CONSTANTS
    Sessions,       \* session ids that logins may create
    Users,          \* Foundry users
    Owner,          \* the user of each session
    Worlds,
    Null,           \* no world, no record, no connection
    MaxEvents       \* bound on role changes, lifecycle changes and failures

ASSUME OwnerType == Owner \in [Sessions -> Users]
ASSUME BoundNat  == MaxEvents \in Nat

VARIABLES
    life,           \* worldLifecycleStore
    world,          \* worldStateStore's current world
    seen,           \* userStore: each user's role, "gone" for one it has not
    foundry,        \* Foundry: the running world and the users' roles
    conn,           \* connections
    stored,         \* the persisted records, by their world id
    login,          \* createSession calls
    restore,        \* restorePromises with the attempt under way
    rebind,         \* authorizationRefreshPromises
    clearing,       \* clearSession calls asleep on isSaving
    deleted,        \* deletedUserIds
    suspended,      \* suspended
    events,         \* events so far
    purged,         \* history: sessions whose login began before the last purge
    out,            \* history: sessions logged out
    missed          \* history: users whose role changed without an event

world_ == <<life, world, seen, foundry>>
flows  == <<login, restore, rebind>>
flags  == <<deleted, suspended>>
marks  == <<purged, out, missed>>
vars   == <<life, world, seen, foundry, conn, stored, login, restore, rebind, clearing,
            deleted, suspended, events, purged, out, missed>>

NONE      == "none"
RoleNames == {NONE, "player", "trusted"}
Attempts  == 3      \* restoreSessionFromCache(sessionId, 3)
Absent    == "absent"

\* A connection: the world it was made for, and the role it was bound to.
Connections == [world : Worlds \cup {Null}, role : RoleNames]

ASSUME NullApart == Null \notin Worlds \cup Connections

\* An operation remembers whether authorityEpoch (fresh) and the session's authority
\* version (untouched), or its connection object (same), are still what it captured.
NoLogin   == [pc |-> "idle", fresh |-> FALSE, role |-> NONE]
NoRestore == [pc |-> "idle", tries |-> 0, fresh |-> FALSE, untouched |-> FALSE, world |-> Null, role |-> NONE]
NoRebind  == [pc |-> "idle", same |-> FALSE, role |-> NONE]

Live(s)      == conn[s] # Null
LiveOf(u)    == {s \in Sessions : Live(s) /\ Owner[s] = u}
RoleOf(x)    == IF x = "gone" THEN NONE ELSE x    \* getRole of a user the store has not
\* Foundry accepts the session's credential, issued in world w; a role of NONE is a ban.
Reachable(s, w) == foundry.role[Owner[s]] \notin {"gone", NONE} /\ w \in {Null, foundry.world}

Event        == events < MaxEvents /\ events' = events + 1

Init ==
    /\ life = "active"
    /\ foundry \in [world : Worlds, role : [Users -> {"player"}]]
    /\ world = foundry.world
    /\ seen = foundry.role
    /\ conn = [s \in Sessions |-> Null]
    /\ stored = [s \in Sessions |-> Absent]
    /\ login = [s \in Sessions |-> NoLogin]
    /\ restore = [s \in Sessions |-> NoRestore]
    /\ rebind = [s \in Sessions |-> NoRebind]
    /\ clearing = {} /\ deleted = {} /\ suspended = FALSE /\ events = 0
    /\ purged = {} /\ out = {} /\ missed = {}

-----------------------------------------------------------------------------
(* Retirement *)

\* Fault: the version of a session under restoration is not moved on.
RetireUnversioned(S) ==
    /\ conn' = [s \in Sessions |-> IF s \in S THEN Null ELSE conn[s]]
    /\ rebind' = [s \in Sessions |-> IF s \in S THEN [rebind[s] EXCEPT !.same = FALSE] ELSE rebind[s]]
    /\ restore' = restore

\* retireSessionAuthority for each of S: synchronous, before anything is awaited.
Retire(S) ==
    /\ conn' = [s \in Sessions |-> IF s \in S THEN Null ELSE conn[s]]
    /\ rebind' = [s \in Sessions |-> IF s \in S THEN [rebind[s] EXCEPT !.same = FALSE] ELSE rebind[s]]
    /\ restore' = [s \in Sessions |-> IF s \in S THEN [restore[s] EXCEPT !.untouched = FALSE] ELSE restore[s]]

\* Chains of clearSession called in one turn: one runs, the others sleep.
Clear(chains) ==
    IF chains = {} THEN UNCHANGED <<stored, clearing>>
    ELSE \E first \in chains :
           /\ stored' = [s \in Sessions |-> IF s \in first THEN Absent ELSE stored[s]]
           /\ clearing' = clearing \cup UNION (chains \ {first})

\* destroySession
Destroy(s) == Retire({s}) /\ Clear({{s}})

\* A clearSession wakes up.
ClearWakes(s) ==
    /\ s \in clearing
    /\ stored' = [stored EXCEPT ![s] = Absent]
    /\ clearing' = clearing \ {s}
    /\ UNCHANGED <<world_, conn, flows, flags, events, marks>>

\* The epoch moves on: whatever is in flight was authorised before.
NewEpoch ==
    /\ login' = [s \in Sessions |-> [login[s] EXCEPT !.fresh = FALSE]]
    /\ restore' = [s \in Sessions |-> [restore[s] EXCEPT !.fresh = FALSE]]
    /\ rebind' = [s \in Sessions |-> [rebind[s] EXCEPT !.same = FALSE]]
    /\ conn' = [s \in Sessions |-> Null]

\* clearAllSessions; the store is purged under the same lock.
ClearAll ==
    /\ NewEpoch
    /\ stored' = [s \in Sessions |-> Absent]
    /\ deleted' = {}
    /\ purged' = purged \cup {s \in Sessions : login[s].pc # "idle"}

-----------------------------------------------------------------------------
(* Authorization refreshes *)

Rebinding(r) == [pc |-> "connecting", same |-> TRUE, role |-> r]

\* Fault: the records are not searched.
HeldByLive(u) == LiveOf(u)

\* The sessions destroySessionsForUser finds, live or persisted.
HeldBy(u) == LiveOf(u) \cup {s \in Sessions : Owner[s] = u /\ stored[s] # Absent}

\* Events of one turn.  Users that are gone: destroySessionsForUser.  The other users'
\* live sessions whose role is not the one of now: NONE retires, another role rebinds,
\* and a pending rebind will look again itself.
UserEvents(users, gone, now) ==
    LET due  == {s \in Sessions : /\ Owner[s] \in users \ gone /\ Live(s) /\ rebind[s].pc = "idle"
                                  /\ conn[s].role # RoleOf(now[Owner[s]])}
        kick == {s \in due : RoleOf(now[Owner[s]]) = NONE}
        down == kick \cup UNION {HeldBy(u) : u \in gone}
    IN /\ conn' = [s \in Sessions |-> IF s \in down THEN Null ELSE conn[s]]
       /\ restore' = [s \in Sessions |-> IF s \in down THEN [restore[s] EXCEPT !.untouched = FALSE] ELSE restore[s]]
       /\ rebind' = [s \in Sessions |-> CASE s \in due \ kick -> Rebinding(RoleOf(now[Owner[s]]))
                                           [] s \in down -> [rebind[s] EXCEPT !.same = FALSE]
                                           [] OTHER -> rebind[s]]
       /\ Clear(({{s} : s \in kick} \cup {HeldBy(u) : u \in gone}) \ {{}})
       /\ seen' = now
       /\ deleted' = deleted \cup gone
       /\ missed' = missed \ users

\* A new connection is registered with the role captured before it connected; rec is
\* what the store then holds.
Register(s, r, w, rec) ==
    LET now  == RoleOf(seen[Owner[s]])
        down == r # now /\ now = NONE
    IN /\ conn' = [conn EXCEPT ![s] = IF down THEN Null ELSE [world |-> w, role |-> r]]
       /\ stored' = [stored EXCEPT ![s] = IF down THEN Absent ELSE rec]
       /\ rebind' = IF r # now /\ ~down /\ rebind[s].pc = "idle"
                    THEN [rebind EXCEPT ![s] = Rebinding(now)] ELSE rebind

\* The next attempt of a restoration, unless it was the last one.
Retryable(r) ==
    IF r.tries + 1 < Attempts THEN [NoRestore EXCEPT !.pc = "backoff", !.tries = r.tries + 1] ELSE NoRestore

\* What a restoration does once the rebind it waits for has ended.
Resumed(s, failed) ==
    [restore EXCEPT ![s] = IF @.pc # "refreshing" THEN @ ELSE IF failed THEN Retryable(@) ELSE NoRestore]

\* Fault: the role is not compared again when a rebind ends.
RebindConnectedOnce(s) ==
    /\ rebind[s].pc = "connecting" /\ Reachable(s, IF Live(s) THEN conn[s].world ELSE Null)
    /\ conn' = IF rebind[s].same THEN [conn EXCEPT ![s].role = rebind[s].role] ELSE conn
    /\ stored' = IF rebind[s].same THEN [stored EXCEPT ![s] = world] ELSE stored
    /\ rebind' = [rebind EXCEPT ![s] = NoRebind]
    /\ restore' = Resumed(s, FALSE)
    /\ UNCHANGED <<world_, login, clearing, flags, events, marks>>

\* rebindSessionAuthorization has reconnected: the session is saved, and the role is
\* compared again.
RebindConnected(s) ==
    LET now   == RoleOf(seen[Owner[s]])
        bound == IF rebind[s].same THEN [conn EXCEPT ![s].role = rebind[s].role] ELSE conn
        saved == IF rebind[s].same THEN [stored EXCEPT ![s] = world] ELSE stored
        stale == bound[s] # Null /\ bound[s].role # now
        down  == stale /\ now = NONE
    IN /\ rebind[s].pc = "connecting" /\ Reachable(s, IF Live(s) THEN conn[s].world ELSE Null)
       /\ conn' = IF down THEN [bound EXCEPT ![s] = Null] ELSE bound
       /\ stored' = IF down THEN [saved EXCEPT ![s] = Absent] ELSE saved
       /\ rebind' = [rebind EXCEPT ![s] = IF stale /\ ~down THEN Rebinding(now) ELSE NoRebind]
       /\ restore' = IF stale /\ ~down THEN restore ELSE Resumed(s, FALSE)
       /\ UNCHANGED <<world_, login, clearing, flags, events, marks>>

\* The reconnection fails: the session is destroyed.
RebindFails(s) ==
    /\ rebind[s].pc = "connecting"
    /\ conn' = IF rebind[s].same THEN [conn EXCEPT ![s] = Null] ELSE conn
    /\ stored' = IF rebind[s].same THEN [stored EXCEPT ![s] = Absent] ELSE stored
    /\ rebind' = [rebind EXCEPT ![s] = NoRebind]
    /\ restore' = Resumed(s, TRUE)
    /\ UNCHANGED <<world_, login, clearing, flags, events, marks>>

-----------------------------------------------------------------------------
(* Logins *)

\* Fault: the epoch is not compared.
MayRegisterAnyEpoch(op, s) == Owner[s] \notin deleted

\* Authority must not have been retired while the operation was connecting.
MayRegister(op, s) == op.fresh /\ Owner[s] \notin deleted

\* createSession: the epoch is captured before the user's other sessions are replaced.
LoginBegin(s) ==
    /\ login[s].pc = "idle" /\ ~suspended
    /\ login' = [login EXCEPT ![s] = [NoLogin EXCEPT !.pc = "replacing", !.fresh = TRUE]]
    /\ UNCHANGED <<world_, conn, stored, restore, rebind, clearing, flags, events, marks>>

LoginReplaces(s) ==
    /\ login[s].pc = "replacing"
    /\ \E t \in LiveOf(Owner[s]) : Destroy(t)
    /\ UNCHANGED <<world_, login, flags, events, marks>>

LoginResolves(s) ==
    /\ login[s].pc = "replacing" /\ LiveOf(Owner[s]) = {}
    /\ login' = [login EXCEPT ![s].pc = "resolving"]
    /\ UNCHANGED <<world_, conn, stored, restore, rebind, clearing, flags, events, marks>>

\* The user id is known: the role is captured before the transport connects.
LoginConnects(s) ==
    /\ login[s].pc = "resolving"
    /\ login' = [login EXCEPT ![s] = IF Owner[s] \in deleted THEN [NoLogin EXCEPT !.pc = "done"]
                                     ELSE [@ EXCEPT !.pc = "connecting", !.role = RoleOf(seen[Owner[s]])]]
    /\ UNCHANGED <<world_, conn, stored, restore, rebind, clearing, flags, events, marks>>

LoginConnected(s) ==
    /\ login[s].pc = "connecting" /\ Reachable(s, Null)
    /\ login' = [login EXCEPT ![s] = [NoLogin EXCEPT !.pc = "done"]]
    /\ IF MayRegister(login[s], s) THEN Register(s, login[s].role, world, world)
       ELSE UNCHANGED <<conn, stored, rebind>>
    /\ UNCHANGED <<world_, restore, clearing, flags, events, marks>>

LoginFails(s) ==
    /\ login[s].pc \in {"resolving", "connecting"}
    /\ login' = [login EXCEPT ![s] = [NoLogin EXCEPT !.pc = "done"]]
    /\ UNCHANGED <<world_, conn, stored, restore, rebind, clearing, flags, events, marks>>

\* The logout route.
Logout(s) ==
    /\ login[s].pc = "done" /\ Event
    /\ Destroy(s)
    /\ out' = out \cup {s}
    /\ UNCHANGED <<world_, login, flags, purged, missed>>

-----------------------------------------------------------------------------
(* Requests and restorations *)

To(s, r) == restore' = [restore EXCEPT ![s] = r] /\ UNCHANGED <<conn, stored, rebind, clearing>>

\* invalidatePersistedSession, and the restoration ends.
Purge(s) ==
    /\ conn' = [conn EXCEPT ![s] = Null]
    /\ rebind' = [rebind EXCEPT ![s].same = FALSE]
    /\ restore' = [restore EXCEPT ![s] = NoRestore]
    /\ Clear({{s}})

\* The record of an attempt against the current world; the role is captured before the
\* transport connects.
Judge(s, r) ==
    IF r.world # world \/ Owner[s] \in deleted THEN Purge(s)
    ELSE To(s, [r EXCEPT !.pc = "connecting", !.role = RoleOf(seen[Owner[s]])])

\* tryRestoreSession: the authority is captured, then the record is read.
Attempt(s, tries) ==
    LET r == [NoRestore EXCEPT !.tries = tries, !.fresh = TRUE, !.untouched = TRUE, !.world = stored[s]]
    IN CASE suspended -> To(s, Retryable(r))
         [] ~suspended /\ stored[s] = Absent -> To(s, NoRestore)
         [] ~suspended /\ stored[s] # Absent /\ world = Null ->
              To(s, IF life \in {"startup", "active"} THEN [r EXCEPT !.pc = "waiting"] ELSE Retryable(r))
         [] OTHER -> Judge(s, r)

\* resolveSession in an active world: a live session of another world is destroyed, a
\* session that is not live is restored by one restoration at a time.
Request(s) ==
    /\ life = "active" /\ ~suspended /\ login[s].pc = "done"
    /\ \/ /\ Live(s) /\ conn[s].world \notin {Null, world}
          /\ Destroy(s)
       \/ /\ ~Live(s) /\ restore[s].pc = "idle" /\ stored[s] # Absent
          /\ Attempt(s, 0)
    /\ UNCHANGED <<world_, login, flags, events, marks>>

\* A later attempt, after its backoff; an expired record is purged.
RestoreRetries(s) ==
    /\ restore[s].pc = "backoff"
    /\ Attempt(s, restore[s].tries)
    /\ UNCHANGED <<world_, login, flags, events, marks>>

RestoreExpires(s) ==
    /\ restore[s].pc = "backoff" /\ ~suspended /\ stored[s] # Absent /\ Event
    /\ Purge(s)
    /\ UNCHANGED <<world_, login, flags, marks>>

\* The world identity came up while the attempt waited for it, or did not.
RestoreWaited(s) ==
    /\ restore[s].pc = "waiting"
    /\ IF world = Null THEN To(s, Retryable(restore[s])) ELSE Judge(s, restore[s])
    /\ UNCHANGED <<world_, login, flags, events, marks>>

\* The transport is connected: the authority captured by the attempt must still stand.
RestoreConnected(s) ==
    LET r == restore[s]
        ok == MayRegister(r, s) /\ r.untouched
    IN /\ r.pc = "connecting" /\ Reachable(s, r.world)
       /\ IF ok THEN Register(s, r.role, r.world, stored[s]) ELSE UNCHANGED <<conn, stored, rebind>>
       /\ restore' = [restore EXCEPT ![s] = IF ok /\ conn'[s] # Null /\ rebind'[s].pc # "idle"
                                            THEN [r EXCEPT !.pc = "refreshing"] ELSE NoRestore]
       /\ UNCHANGED <<world_, login, clearing, flags, events, marks>>

\* Foundry answers for another user: the record is purged.
RestoreMisidentified(s) ==
    /\ restore[s].pc = "connecting" /\ Event
    /\ Purge(s)
    /\ UNCHANGED <<world_, login, flags, marks>>

\* Fault: failed attempts are not counted.
RestoreFailsUncounted(s) ==
    /\ restore[s].pc = "connecting"
    /\ To(s, [NoRestore EXCEPT !.pc = "backoff"])
    /\ UNCHANGED <<world_, login, flags, events, marks>>

RestoreFails(s) ==
    /\ restore[s].pc = "connecting"
    /\ To(s, Retryable(restore[s]))
    /\ UNCHANGED <<world_, login, flags, events, marks>>

-----------------------------------------------------------------------------
(* The world, its users, maintenance and restarts *)

Unmirrored == [u \in Users |-> "gone"]

\* A User event, heard while the users are mirrored and the world is connected.
UserChanges(u, x) ==
    LET now == [foundry.role EXCEPT ![u] = x]
    IN /\ foundry.role[u] \notin {x, "gone"} /\ Event
       /\ foundry' = [foundry EXCEPT !.role = now]
       /\ IF life = "active" THEN UserEvents({u}, {u} \cap {v \in Users : x = "gone"}, now)
          ELSE UNCHANGED <<seen, conn, stored, restore, rebind, clearing, deleted, missed>>
       /\ UNCHANGED <<life, world, login, suspended, purged, out>>

GoOffline ==
    /\ life = "active" /\ Event
    /\ life' = "offline"
    /\ UNCHANGED <<world, seen, foundry, conn, stored, flows, clearing, flags, marks>>

\* Same-world recovery: every user that changed meanwhile is published in one turn.
Recovered ==
    LET changed == {u \in Users : seen[u] # foundry.role[u]}
    IN /\ life = "offline" /\ world = foundry.world
       /\ life' = "active"
       /\ UserEvents(changed, {u \in changed : foundry.role[u] = "gone"}, foundry.role)
       /\ UNCHANGED <<world, foundry, login, suspended, events, purged, out>>

\* Fault: the tombstones and connections go, the records stay.
EnterSetupKeepingRecords ==
    /\ life # "setup" /\ Event
    /\ life' = "setup" /\ world' = Null /\ seen' = Unmirrored
    /\ NewEpoch /\ deleted' = {} /\ stored' = stored
    /\ purged' = purged \cup {s \in Sessions : login[s].pc # "idle"}
    /\ UNCHANGED <<foundry, clearing, suspended, out, missed>>

\* The lifecycle turns to setup: the world is retired and every session with it.
EnterSetup ==
    /\ life # "setup" /\ Event
    /\ life' = "setup" /\ world' = Null /\ seen' = Unmirrored
    /\ ClearAll
    /\ UNCHANGED <<foundry, clearing, suspended, out, missed>>

\* The service account lost its role: the runtime is retired, the sessions stay.
CloseWorld ==
    /\ life \in {"active", "startup"} /\ Event
    /\ life' = "closed" /\ world' = Null /\ seen' = Unmirrored
    /\ UNCHANGED <<foundry, conn, stored, flows, clearing, flags, marks>>

Startup ==
    /\ life \in {"closed", "setup", "offline"} /\ world = Null
    /\ life' = "startup"
    /\ UNCHANGED <<world, seen, foundry, conn, stored, flows, clearing, flags, events, marks>>

\* A bootstrap seeds the mirrors; seeds publish no User events.
Bootstrapped ==
    /\ life = "startup"
    /\ life' = "active" /\ world' = foundry.world /\ seen' = foundry.role
    /\ missed' = missed \cup {u \in Users : \E s \in LiveOf(u) : conn[s].role # RoleOf(foundry.role[u])}
    /\ UNCHANGED <<foundry, conn, stored, flows, clearing, flags, events, purged, out>>

SwitchWorld(w) ==
    /\ life # "active" /\ w # foundry.world /\ Event
    /\ foundry' = [foundry EXCEPT !.world = w]
    /\ UNCHANGED <<life, world, seen, conn, stored, flows, clearing, flags, marks>>

\* suspendForMaintenance keeps the records.
Suspend ==
    /\ ~suspended /\ Event
    /\ suspended' = TRUE
    /\ NewEpoch
    /\ UNCHANGED <<world_, stored, clearing, deleted, marks>>

\* A new Core process: only the records survive.
Restart ==
    /\ Event
    /\ life' = "offline" /\ world' = Null /\ seen' = Unmirrored
    /\ conn' = [s \in Sessions |-> Null]
    /\ login' = [s \in Sessions |-> IF login[s].pc = "idle" THEN NoLogin ELSE [NoLogin EXCEPT !.pc = "done"]]
    /\ restore' = [s \in Sessions |-> NoRestore]
    /\ rebind' = [s \in Sessions |-> NoRebind]
    /\ clearing' = {} /\ deleted' = {} /\ suspended' = FALSE
    /\ UNCHANGED <<foundry, stored, marks>>

-----------------------------------------------------------------------------
RestoreStep(s) == RestoreRetries(s) \/ RestoreWaited(s) \/ RestoreConnected(s) \/ RestoreFails(s)

Next ==
    \/ \E s \in Sessions :
         \/ LoginBegin(s) \/ LoginReplaces(s) \/ LoginResolves(s) \/ LoginConnects(s)
         \/ LoginConnected(s) \/ LoginFails(s) \/ Logout(s) \/ ClearWakes(s)
         \/ RebindConnected(s) \/ RebindFails(s)
         \/ Request(s) \/ RestoreRetries(s) \/ RestoreExpires(s) \/ RestoreWaited(s)
         \/ RestoreConnected(s) \/ RestoreMisidentified(s) \/ RestoreFails(s)
    \/ \E u \in Users, x \in RoleNames \cup {"gone"} : UserChanges(u, x)
    \/ GoOffline \/ Recovered \/ EnterSetup \/ CloseWorld \/ Startup \/ Bootstrapped
    \/ \E w \in Worlds : SwitchWorld(w)
    \/ Suspend \/ Restart

\* Timers fire; every connection attempt succeeds or fails.
Fairness ==
    /\ \A s \in Sessions : WF_vars(RestoreStep(s)) /\ WF_vars(RebindConnected(s) \/ RebindFails(s))

Spec     == Init /\ [][Next]_vars
FairSpec == Spec /\ Fairness

-----------------------------------------------------------------------------
(* Properties *)

\* Types of the variables.
TypeOK ==
    /\ life \in {"offline", "setup", "startup", "active", "closed"}
    /\ world \in Worlds \cup {Null}
    /\ seen \in [Users -> RoleNames \cup {"gone"}]
    /\ conn \in [Sessions -> {Null} \cup Connections]
    /\ stored \in [Sessions -> Worlds \cup {Null, Absent}]
    /\ \A s \in Sessions :
         /\ login[s].pc \in {"idle", "replacing", "resolving", "connecting", "done"}
         /\ restore[s].pc \in {"idle", "waiting", "connecting", "refreshing", "backoff"}
         /\ restore[s].tries \in 0..Attempts - 1
         /\ rebind[s].pc \in {"idle", "connecting"}
    /\ clearing \subseteq Sessions /\ deleted \subseteq Users

\* A session whose login began before the last entry to setup is neither live nor
\* restorable, whatever login, restoration or rebind was in flight.
PurgeIsFinal == \A s \in purged : ~Live(s) /\ stored[s] = Absent

\* While suspended for maintenance no connection exists or comes up.
SuspensionIsQuiet == suspended => \A s \in Sessions : ~Live(s)

\* A deleted user has no live session, and records only until their removal has run.
DeletedUsersAreGone ==
    \A s \in Sessions : Owner[s] \in deleted => ~Live(s) /\ (stored[s] = Absent \/ s \in clearing)

\* A session that was logged out is never live again.
LoggedOutStaysOut == \A s \in out : ~Live(s)

\* In an active world every session is bound to its user's mirrored role, or being
\* rebound, unless the change came without an event.
RolesAreReconciled ==
    life = "active" =>
        \A s \in Sessions : Live(s) /\ Owner[s] \notin missed =>
            conn[s].role = RoleOf(seen[Owner[s]]) \/ rebind[s].pc # "idle"

\* Every restoration ends.
RestoresEnd == \A s \in Sessions : restore[s].pc # "idle" ~> restore[s].pc = "idle"
=============================================================================
