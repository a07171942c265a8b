# SheetDelver: specifications of the Core server

SheetDelver is a companion server for Foundry VTT. One Node.js process ("Core") holds a service
account's socket to a Foundry server, mirrors its running world in memory, and serves players'
browsers from the mirrors; players' own Foundry sockets carry their writes. These modules specify the
part of Core that decides *when* something may be served or sent, *who* may act, *what* the mirror
and the browsers hold after Foundry, the network and the administrators have done their worst, and
what is left on disk and in the world when a chain of writes is cut anywhere.

Paths are relative to the repository (`src/server` is `src/src/server` in `PROJECT.json`).

- [The system](#the-system)
- [The modules](#the-modules)
- [What each run shows](#what-each-run-shows)
- [Bounds](#bounds)
- [Fairness](#fairness)
- [What is proved](#what-is-proved)
- [Where code and documents disagree](#where-code-and-documents-disagree)
- [What is not modelled](#what-is-not-modelled)
- [Plan](#plan)
- [How to run](#how-to-run)

## The system

```
  browsers ──HTTP──▶ routes ── ensureInitialized ──▶ services ──▶ player sessions ──user socket──▶ Foundry
     ▲                             │                               (FoundryUserConnectionService)     │
     │                       WorldWorkGate                                                            │
  AppSocketGateway ◀─events─ document stores ◀─ FoundryEventIngress ◀──main socket (CoreSocket)───────┘
                             (the mirror)             ▲
                                    ▲                 │
                             WorldBootstrapper ◀── SystemService ◀── WorldTransportController

  on disk:  module packages, artifact and lifecycle stores (module registry)
            maintenance mode, jobs, receipts, leases (MaintenanceController, UpgradeJournal)
```

| Component | State it keeps | Operations | What is hard | Correct when | Module |
|---|---|---|---|---|---|
| **Work gate** `core/world/WorldWorkGate.ts` | keyed blockers, generation, in-flight count, registered drains | `block`, `release`, `activateServingToken`, `withWorldWorkScope`, `dispatch`, `drain` | requests outlive a close and a reopen; sends settle around a drain's timer | no stale request sends; the count is exact; a drain is never forgotten | `WorldWorkGate` |
| **Bootstrap and recovery** `services/world/WorldBootstrapper.ts`, `SystemService.ts` | epoch, `ready`, `contextRefreshFailed`, bootstrap and recovery promises, world context, prepared actors, adapter, recovery baseline | `bootstrap`, `recover`, `refreshWorldContext`, `reset`, handlers of `SystemService` | three kinds of run await Foundry and module code while sockets, worlds, settings and roles change | what is served is of this connection and world, prepared from the published context | `WorldBootstrap` |
| **Transport** `services/world/WorldTransportController.ts`, `EngagementService.ts`, `core/foundry/sockets/CoreSocket.ts` | heartbeat epoch, retry timer, connection attempt, setup evidence, closed title, pauses | handlers of `CoreSocket` events, launch, shutdown, heartbeat | late probes and timers against a transport that moved on | Core never stops looking; it ends in the state Foundry's world calls for | `WorldTransport` |
| **Player sessions** `services/foundry/FoundryUserConnectionService.ts`, `index.ts` | connections, persisted records, in-flight restores and rebinds, authority epoch, deleted users, `suspended` | login, logout, restore, rebind, role and user events, purge, suspend | every one of them awaits Foundry while another retires the session | what was retired stays retired; roles follow Foundry | `FoundrySessions` |
| **Document mirror** `core/documents/primary/`, `services/world/FoundryEventIngress.ts` | rows, `mutationRevision`, refresh state per root, baseline | broadcasts, acknowledgements, autosaves, targeted reads, repairs, seeds | a write arrives twice, over two sockets, or only as a signal; reads race it | the mirror converges to Foundry, and browsers are told | `DocumentMirror` |
| **App socket gateway** `realtime/AppSocketGateway.ts`, `SystemStatusBroadcaster.ts` | browser sockets, rooms, subscriptions | admit, authenticate, attach, defer, invalidate, forward, statuses | readiness and sessions change between the check and the subscription | no socket outlives its session; every change served was announced | `BrowserLink` |
| **Browser client** `client/ui/context/` | link state, session marker, lists read over HTTP | verify, hand-shake again, log in and out, coalesced reads | answers of another session or another connection; events during a read | a settled dashboard shows Core's list, of this session | `BrowserLink` |
| **Maintenance and upgrades** `services/world/migrations/`, `app/startMaintenance.ts` | persisted mode, job, receipts, leases | enter, plan, approve, execute, resume, cancel, poll | crashes between any two steps of a durable protocol; three coroutines on one journal | no possible write is forgotten; whole worlds only; one owner at a time | `MaintenanceUpgrade`, `WorldLease` |
| **Module registry** `modules/registry/` | packages, artifact and lifecycle stores | scan, install, upgrade, roll back, uninstall, enable, switch, lock | two renames and two stores that must agree, and commands that land in the operation's await | a failed operation leaves the former module; who disabled it stays obeyed | `ModuleRegistry` |
| **Combat manager** `services/combats/` | encounter flag, copies, turn and its pause | turns, rolls, scores, Skip, add, remove, create, rename, complete | chains of native writes that may each fail, in an order the writes themselves change | the turn stays where it was; nothing outlives its encounter | `EncounterTurns`, `EncounterLifecycle` |
| **Administrators** `security/admin*.ts` | sessions, credentials | login, revoke, restart handoff | little: synchronous maps and files | single use, revocation | - |
| **Compendium**, **prepared actors**, **resolver**, **status** | caches of what Foundry has | read, invalidate | stale caches | misses are read again | - |
| **Scripts**, **presentation** | views | render, start, release | - | - | - |

Interaction. `WorldTransportController` turns socket events into lifecycle changes and calls
`SystemService.handleConnect`, which asks the bootstrapper to *recover* a prepared world or
*bootstrap* an unprepared one. The bootstrapper seeds the stores, publishes a world context, runs the
adapter's hook and then releases the gate's keys. Ingress writes broadcasts into the stores; the
stores' events make the bootstrapper refresh the context (settings), the session service rebind
(users), and the gateway tell browsers. The tab reads what it shows over HTTP and reads it again when
an event or a status tells it to. Everything runs on one thread, so a handler with its
synchronous callbacks is atomic; everything that awaits Foundry, a timer, the journal's worker or module
code can be overtaken. Under maintenance another process runs instead of the server: it takes the same
connection by polling, and its commands are journalled so that a restart can finish or undo them.
`PROJECT.json` lists the hazards that follow at their lines.

## The modules

| Module | Models | Checked by |
|---|---|---|
| `WorldWorkGate` | the gate, every operation of it | `MCWorldWorkGate` |
| `WorldBootstrap` | bootstraps, recoveries, context refreshes and the handlers around them | `MCWorldBootstrap` |
| `WorldBootstrapProofs` | its theorems | the proof system |
| `WorldTransport` | the supervision of the connection to Foundry | `MCWorldTransport` |
| `WorldSupervisionProofs` | the theorems of the gate and of the transport | the proof system |
| `FoundrySessions` | logins, restorations, rebinds, retirements | `MCFoundrySessions` |
| `FoundrySessionsProofs` | its theorems | the proof system |
| `DocumentMirror` | one document from Foundry through Core to the browsers | `MCDocumentMirror` |
| `DocumentMirrorProofs` | its theorems | the proof system |
| `BrowserLink` | one browser tab, its socket, session and list of actors, with Core's end of them | `MCBrowserLink` |
| `BrowserLinkProofs` | its theorems | the proof system |
| `UpgradeLedger` | what a reviewed upgrade promises of the world (abstract) | through `MaintenanceUpgrade` |
| `MaintenanceUpgrade` | one upgrade under persistent maintenance, with crashes | `MCMaintenanceUpgrade` (two configurations) |
| `Lease` | what a lease on a directory promises (abstract) | through `WorldLease` |
| `WorldLease` | the lease as system calls on directories | `MCWorldLease` |
| `MaintenanceProofs` | the theorems of the lease, the refinement among them, and of the upgrade | the proof system |
| `ModuleRegistry` | one module's package, stores and lifecycle | `MCModuleRegistry` |
| `ModuleRegistryProofs` | its theorems | the proof system |
| `EncounterTurns` | the turn of a managed encounter | `MCEncounterTurns` |
| `EncounterLifecycle` | the documents managed encounters own | `MCEncounterLifecycle` |
| `EncounterProofs` | theorems of `EncounterLifecycle` and `EncounterTurns` | the proof system |

The modules are separate because each abstracts its neighbours to a few facts: `WorldTransport` knows of a
bootstrap that it is a run with an outcome; `DocumentMirror` knows of one that it seeds and then
succeeds or fails; `FoundrySessions` knows the lifecycle and the world; `WorldBootstrap` knows whether
each source is seeded on this connection; `BrowserLink` knows whether the world is served and which sessions
live; `MaintenanceUpgrade` knows of the lease who holds it. Composing them in full would
only multiply their states. Definitions commented "Fault" are deliberate bugs beside the operator they
distort: each property has one that it catches (`PROJECT.json`, "mutants"). No specification uses them.

### WorldWorkGate

`blockers`, `generation`, `inFlight` are the class's fields. The names every module has (`Init`, `Next`, `Spec`, `TypeOK`, `vars`) carry the
prefix `Gate` here, because `WorldSupervisionProofs` extends this module and `WorldTransport`. A *work* is one asynchronous flow:
`EnterScope` is `withWorldWorkScope` capturing the generation (`revision`), `Dispatch`/`Settle` are the
two halves of `dispatch` around its await, `DrainCall`, `DrainTimeout`, `DrainConsumed` one caller of
`drain`. A release of the last key empties the set and so reopens; every change increments the
generation. `stale` and `covered` are history variables: the scopes that saw a block or a token
change, and the drains whose gate has been closed since the call.

### WorldBootstrap

The process is one record, `core`, whose fields carry the names of the code's variables (`Init` says
which). Handlers are pure operators from a state of the process to the next, because that is what
they are between two awaits: `Reset`, `Recover`, `JoinBootstrap`, `RefreshWorldContext`,
`ReadinessFailed`, ... An action composes the handlers that run in one turn, including promise
reactions. What suspends is a run; `boot.pc` and `rec.pc` name what it awaits:

| `pc` | awaiting in `runBootstrap` / `runRecovery` |
|---|---|
| `snapshot`, `packs`, `documents` | a source's answer |
| `context` | (recovery) the context refreshes already running |
| `compatibility` | the checks of the installed module against the world's data |
| `initialize` / `hook` | module code |
| `replaced` | (recovery) the bootstrap that it became when the world turned out to be another |

Abstractions. `live` stands for "the epoch I captured is current", `sameConn` for "the connection I
captured is current"; comparing numbers would only add states. The stores of a world are three
mirrors that are absent, of an earlier connection, or current. A system is identified with its world.
A source's data is loaded at the instant its answer arrives. One representative request, `admitted`,
holds the generation that `ensureInitialized` captured. Retry timers and the heartbeat are the action
`Connect` (their own protocol is `WorldTransport`); the routes of the administrator are `AdminConnect` and
`AdminRetry`. An adapter's module
always loads; its hooks may fail or time out, and a timed-out hook goes on running (`orphan`).

### WorldTransport

`core` holds the controller's fields (`retry` and `beat` are its two timers, `evidence` is
`setupEvidenceCount`, `title` is `closedWorldStatusTitle`), the socket (`attempt`, `up`, `wire`) and the
engagement policy (`engaged`, `paused`). A heartbeat's status request is a member of `probes`, because several can
be out at once: `fresh` stands for "my `heartbeatEpoch` is current", `as` for the lifecycle it fired under, and
a superseded one stays there until it settles. `attempt.pc` names what `CoreSocket.connect` awaits
(`handshake`, `discover`, `connect`, `status`); `doomed` is an attempt whose socket was torn down under it.
`post` is the administrator's launch or shutdown while it waits for Foundry, with Foundry acting
(`FoundryActs`), signalling over the socket, and answering (`PostAnswered`) in any order. A bootstrap or recovery is
`run` with an outcome: success, failure, no usable role. `late` holds the runs whose connection was replaced and that are bound to fail: one that the connections after it
share (`joined`), a retired bootstrap that the next one waits for (`ahead`), a retired recovery (`aside`).
`native.refusing` are the worlds without a usable service account.
Delays are left out: a timer that is set fires at some time, so the backoff's numbers do not appear.

### FoundrySessions

`conn`, `stored`, `restore`, `rebind`, `clearing`, `deleted`, `suspended` are the service's maps and
flags, `login` the `createSession` calls in flight, `seen` what the user store says of each user and
`foundry` what Foundry says. An operation remembers whether its `authorityEpoch` (`fresh`), the
session's authority version (`untouched`) and its connection object (`same`) are still what it
captured. The session store does its file work synchronously inside a promise queue, so a locked
load-change-save is one step, and only calls made in the same turn meet on `isSaving`: `Clear` lets
one proceed and puts the others to sleep in `clearing`, for the 50 ms retry `ClearWakes`. Lifecycle
changes (`CloseWorld`, `EnterSetup`, `Recovered`, `Bootstrapped`, `Startup`, ...) are what
`WorldBootstrap` does seen from here. A remote logout has no effect on the state; store failures and a disabled
store are left out.

### DocumentMirror

One document with two fields; a field holds the number of the write that set it, so that "which write
won" is visible. `truth` is Foundry's content, `doc` the store's row, `shown` what browsers were last
sent. `wire` is the main socket, in order; acknowledgements (`acks`) and repair reads of users' sockets
arrive in any order. `refresh` is the `RootRefreshState` of the document with its loop: coalescing by
`dirty`, `required` for repairs, three attempts, a read applied as an update for an autosave and as a
create for a repair. `run` is a bootstrap or recovery seeding the store, fenced by
`mutationRevision` (`touched`); `baseline` is what `captureRecoveryBaseline` took when the first of
several sockets was lost. The gateway forwards an event only while the world is served (`Serving`).
`gaps` and `missed` are history variables that say why the mirror or the browsers may lawfully be
behind: a read that failed, an acknowledgement that came late, an event while the gate was closed.

### BrowserLink

Two ends of one socket. `sock` is Core's end: `admitted` by the middleware, with its status being assembled, then
`open`; `attached` and `deferred` are the subscriptions of `attachWorldBackedListeners` and the wait for
`world:ready`. `tab` is the page: `conn` and `link` are the socket and `linkState` of `RealtimeContext`, `cookie`,
`token` (the session marker) and `logout` those of `SessionContext`, `check` the verification of this connection's cookie,
`list` the list of actors with its coalesced read (`pc`, `queued`), the session that asked (`asker`) and the
session the list on screen was read by (`by`). `wire` is what Core has sent and the tab has not handled.
The tab's handlers are operators on its record; `Commit` is what React does between two handlers: render,
then the effects of the values that changed.

| Action | Code |
|---|---|
| `Admit`, `Welcome`, `Greet` | the gateway's middleware, `connection` handler up to its await, and the rest of it |
| `Receive`, `Poll` | the tab's handlers of `connect`, statuses, changes, `sessionInvalidated`; the status sent every four seconds |
| `CheckServed`/`CheckArrives`, `ListServed`/`ListArrives`, `LogoutServed`/`LogoutAnswered` | a request handled by Core, and its answer handled by the tab |
| `WorldReady`, `WorldDown`, `RefreshBegins`, `RefreshEnds`, `Change`, `Revoke` | what the rest of Core does |
| `Drop`, `Restart`, `RequestFails`, `LogoutLost`, `BudgetSpent`, `Reload` | the network, the process, the user |

Abstractions. The list of actors stands for the lists of combats, chat and journals, which follow the same
protocol; its content is the number of changes. A login is atomic at its answer; a status is taken and emitted in one
step; the world and setup purges appear as `WorldDown` and `Revoke`. Left out: two tabs that share a cookie
jar (hence `authenticated-user-changed`), the reload that a new runtime token or a restart announcement asks for,
and a socket that closes while its first status is assembled.

### MaintenanceUpgrade and UpgradeLedger

`durable` is what survives the process: the mode record (`config/module-upgrades/maintenance.json`), the job's metadata and its receipts
(separate files, written in this order: receipts, then metadata), whether the receipts end in an incomplete line (`torn`),
the lease, and the module's directory and registry entry. `world` is Foundry: which operations it has applied, and
which were sent and not answered. `co` are the three coroutines of the maintenance process:

| Coroutine | Code | `pc` prefixes |
|---|---|---|
| `work` | `MaintenanceController.work` running `plan`, `approve`/`reapprove` or `resume`, then `execute` | `pl_`, `ap_`, `ra_`, `rs_`, `r_`, `e_`, `ex_`, `f_` |
| `cancel` | `MaintenanceController.cancel`, which aborts the work, waits for it and restores | `c_` |
| `poll` | the poll of `startMaintenance.ts` that takes the connection over and loads the world | `p_` |

They meet in the journal's worker (`queue`): one call at a time, in the order of the calls; an aborted or
terminated computation is `Rejected`. `Crash` kills the process at any step, with the call at the head of the queue done,
done in part (`Landings`) or not done; `WorkerExits` kills the worker alone. `Boot` is `restoreMaintenanceMode` and the
start of the next process, for maintenance or for players by the mode it finds. `events` counts commands, deaths and lost connections; its `stale` is history:
the poll's save put back a job older than the one on disk (`Older`), the defect under [Maintenance](#where-code-and-documents-disagree). `Fence` is `fence` of the coordinator; `Current` the source scope of a snapshot. Files move
in the order of `promotePreparedModuleArchive`, each rename after the journal's answer.

`UpgradeLedger` is the promise: operations are *declared* before Foundry may have them, a declaration is never taken
back, and players are released either to the whole upgrade or to a world for which nothing was declared. Under the mapping
at the end of `MaintenanceUpgrade` the receipts are the declarations once the job says `possibleWrite`,
and the mode's stage with the job's phase is the verdict. `ImplementsLedger` is checked as a refinement.

### WorldLease and Lease

`WorldLease` is the file protocol of `UpgradeJournal.acquire`/`release`, one system call a step: `mkdir` of the lock
(`MakeLock`), `owner.json` (`WriteOwner`), the takeover of a dead owner's lock under a second directory
(`MakeRecovery`, `ReadOwner`, `ReplaceOwner`, `RemoveRecovery`), and `unlink`, `rmdir` to give back. `at` is the key the
loop is at, `upto` where a loop that gives back ends. A process that dies stays in `pc` where it died. `Lease` is the
promise: a lock has one holder, taken free or from a dead holder of the same job. `owner.json` refines the holder.
`MaintenanceUpgrade` uses the lease as that promise (`Acquirable`, `TakeLease`, `DropLease`).

### ModuleRegistry

One module with its two sources, `managed` and `local`. `pkg`, `kept`, `kind` are the directories; `art`, `locked` the
artifact record; `file` and `rec` the lifecycle record on disk and in memory; `plugin` what `pluginMap` selects;
`using` a request or browser that runs the adapter. `Scan` is the whole of a refresh: `Classify` and `Discover`
for both sources, `Rate` for the status that follows. An archive operation is `Begin` (preview), then, without
yielding, `Retain`, `Promote`, `Verify`, `Register`, `RecordArtifact`, `Finish` or (after `UndoRecord`, `UndoArtifact`) `RollBack`, `Answer`: its steps are
separate because each write, rename and removal may fail (`faults`) and the process may die between any two (`Crash`). A store is
written in place, so a write that fails may leave a file that reads as empty (`TornRecord`, `TornArtifact`). A failure that is
`Returned` ends in `rollback`, which the catch calls again when it throws; an exception (`Thrown`) only in that catch: `calls` is how many calls are left.
Each of the three steps of a call may fail, and a call after one that failed in its last removes the package that was put back.
`hurt` says what could not be put back, `wrecked` (history) which versions a second call removed. Other commands
land only while the operation is `waiting`; the writes of scans and of the operator's enable, disable, switch, lock and validate are taken to succeed. `Uninstall` is likewise four steps. `prior` is what the operation found and `word`
what the operator last said of a source (history). Left out: dependencies and conflicts between modules, trust and
permission gates, pinned versions, routes that register a version without an archive.

### EncounterTurns

`encounter` is the Combat document: round, turn index, scores, Skip flags, and the pause kept in the
manager's flag. `Index` and `Current` are Foundry's order (descending initiative, unscored last, ties by id);
`NextTurn`, with its anchor, is `CombatTurnQueue`. `cmd` is the one command that holds the encounter's lock, with
`stage` naming the write it awaits: `pause`, `write`, `roll`, `score`, `restore`, `preserve`, `mend`. A write lands, is refused, or
lands without an answer; `finally` and `catch` are modelled by which stage follows. `NativeTurn` is a turn moved in
Foundry itself. `owed` (who has yet to get the turn in this round) and `moved` are history. Left
out: the players' participation policy, hidden and defeated rows, the `expectedInitiative` precondition, the `active` bit.

### EncounterLifecycle

`combat` holds the flag of each encounter (status, name, whether to keep its actors, Folder, copies, deletion
requested), `folders` and `home` the Folder and the copied Actors, `req` the commands under way, `creating` the names
being taken. A command reads the flag when it begins and writes it back whole; `Merge` is what Foundry makes of it (a field
the write does not have stays). The creation of an encounter does not hold the encounter's lock, the other commands do.
`early` is history: encounters completed or deleted while they were still being created, for which two
properties make an exception that the section on disagreements explains.

## What each run shows

Twelve runs, all expected to pass; each checks every property of its row over every reachable state of its
instance.

| Run | Property | What it says |
|---|---|---|
| `gate` | `DrainedMeansQuiet` | a drain resolved under a gate held closed since the call leaves nothing in flight |
| | `StaleScopesSendNothing` | a scope that lived through a block or a token change never sends again |
| `bootstrap` | `ServedMirrorIsCurrent` | what is served was seeded on this connection from the running world, under its adapter |
| | `PreparedMatchesContext` | actors are prepared from the context that is published |
| | `FailureStaysGated` | after a failure the gate stays closed until something succeeds |
| | `RecoveryReplaysChanges` | a recovery never publishes a setting older than Foundry's |
| | `EventuallyServes` | a qualified account's world is served again after any faults, or stands behind a closed gate with a live connection until an administrator retries |
| `transport` | `MonitoringNeverStops` | disconnected or serving, a timer, a request, an attempt or the end of a pause is always to come |
| | `ThePastDecidesNothing` | a status request from before a launch or shutdown has no effect after it |
| | `SettlesWithFoundry` | Core ends in the lifecycle that Foundry's world calls for |
| `sessions` | `PurgeIsFinal` | no login or restoration from before a purge comes back after it |
| | `SuspensionIsQuiet` | nothing is connected while maintenance suspends sessions |
| | `DeletedUsersAreGone` | a deleted user keeps neither connection nor record |
| | `LoggedOutStaysOut` | a logged-out session does not come back, whatever was in flight |
| | `RolesAreReconciled` | a live session has Foundry's role, or a rebind is on its way |
| | `RestoresEnd` | every restoration ends |
| `mirror` | `MirrorConverges` | nothing but what is on the wire separates the mirror from Foundry |
| | `BrowsersSawTheMirror` | browsers were sent what is served, across lost sockets and failed recoveries |
| | `SeedsUndoNothing` | a seed never undoes a write the store had applied |
| `link` | `ReadyShowsTheWorld` | a settled dashboard shows Core's list of actors |
| | `NothingOutlivesItsSession` | no subscription and no list on screen belongs to a session that ended |
| | `LinkSettles` | with a good cookie and a served world the tab ends ready, or says it is unavailable |
| `upgrade` | `FilesStayForWrites` | from the first possible native write on, the previous files never come back |
| | `OnlyWholeWorldsAreReleased` | players come back to the whole upgrade or to an untouched world |
| | `ImplementsLedger` | the job implements `UpgradeLedger` |
| `upgrade_eager` | `ApprovalIsBound` | a published job is never an orphan of its approval |
| | `EveryCommandEnds` | no command waits for ever on another, the journal or the poll |
| `lease` | `MutualExclusion` | two live holders share no lock, and each passes `assertLease` |
| | `StuckOnlyByDeath` | only a death leaves a lock that nobody can take |
| | `ImplementsLease` | the directories implement `Lease` |
| `registry` | `RecordedPackageSurvives` | the package the record names is never lost |
| | `FailureChangesNothing` | an archive operation that answers a failure changed nothing |
| | `DisabledStaysDisabled` | what an operator disabled does not run until the operator says so |
| | `LocksHold` | a locked package is neither replaced nor uninstalled |
| `turns` | `CommandsKeepTheTurn` | a command that is not about the turn leaves it where it was |
| | `RoundIsComplete` | a round ends when everybody who was eligible has had the turn |
| | `PauseHolds` | a paused turn is nobody's, and ends as it may |
| `lifecycle` | `NothingOutlivesTheCombat` | a deleted encounter leaves no copied Actor and no Folder |
| | `DeletionIsNeverForgotten` | a deletion that was stored is carried through |
| | `NamesStayUnique` | no two encounters have one name |

Each module also defines its `TypeOK`; the theorems prove it where there is a proof. The exceptions built into properties
are deliberate and named at their definitions: `MirrorConverges` excludes `gaps`, `BrowsersSawTheMirror` excludes
`missed`, `RolesAreReconciled` excludes users whose role changed without an event, `EventuallyServes` lets a process alone end `Stranded`, `SettlesWithFoundry` excludes runs that
failed where `handleConnect` retries nothing, behind a closed gate or because of an earlier rejection of the account (`held`) and closed worlds whose name was never learnt (`blind`), `ReadyShowsTheWorld` excludes
changes no subscription heard and reads that failed, `NothingOutlivesItsSession` excludes lists read after the clean-up of a
pending logout (`late`), `DeletionIsNeverForgotten` and `NothingOutlivesTheCombat` exclude `early`, the three properties of `upgrade` hold until the poll has put an older job back (`stale`),
`RecordedPackageSurvives` excludes a version that a second call of `rollback` removed (`wrecked`), `FailureChangesNothing` what could not be put back (`hurt`). What happens there is
the subject of [Where code and documents disagree](#where-code-and-documents-disagree).

## Bounds

| Run | Instance | Distinct states | Why enough |
|---|---|---|---|
| `gate` | 2 keys, 2 works, 2 drains, 6 generations | 158 004 | a scope can outlive two closings and reopenings, with another work sending meanwhile, and one drain's timer while the other waits |
| `bootstrap` | 2 worlds, 4 faults, 2 setting changes | 474 760 | two lost connections, a world change and a failure within one recovery; a setting that changes during a hook and again during the refresh it causes |
| `transport` | 2 worlds, 3 events | 925 629 | a superseded probe, a retry timer and an attempt at once; a launch with a signal and a lost socket before its answer; a change of world between two refusals |
| `sessions` | 2 sessions of one user, 2 worlds, 4 events | 440 416 | two sessions of one user are the case where calls contend; four events allow change, restoration of the role, logout and purge during one restore |
| `mirror` | 4 writes, 2 faults | 5 241 897 | create, update, delete and recreate around one read; a repair at its limit of three attempts; a failed recovery between two lost sockets |
| `link` | 2 sessions, 3 events | 733 499 | a session that ends while its answers and statuses are on the way and another that begins; a closing, a change and a lost socket around one read |
| `upgrade` | 2 operations, 2 approvals, 3 commands, 1 crash or 1 cut | 2 413 474 | a batch applied in part before a death, a second approval for the rest, and a cancellation of either; a connection lost and taken over again under the runner |
| `upgrade_eager` | 1 operation, 2 approvals, 3 commands, 1 crash | 384 781 | work, cancellation and poll in the journal's queue together |
| `lease` | 4 processes (3 of one job, 1 of another installation), 3 locks, symmetry | 2 056 072 | two takers of a dead owner's lock, and a third after them; two jobs that meet on the world with different modules |
| `registry` | 2 versions, 2 faults, 1 crash, 1 edit, three of these four at most | 5 954 668 | a failure and the failure of its undo, with the second call of `rollback` that follows; a death in either; a lock, a switch or an edit of the checkout during the await |
| `turns` | 3 combatants (1 NPC), scores 1..2, 2 rounds, 1 event | 6 947 988 | ties, cleared scores and joins on both sides of the current row; one write that fails anywhere |
| `lifecycle` | 2 encounters, 2 names, 2 copies, 2 commands, 2 faults, symmetry | 1 090 162 | two commands on one encounter and on one name; an unanswered write followed by a restart |

`MaxGeneration`, `MaxFaults`, `MaxSetting`, `MaxEvents`, `MaxWrites`, `MaxLogins`, `MaxApprovals`, `MaxCommands`, `MaxCrashes`,
`MaxCuts`, `MaxFailures` (deaths and cuts of an upgrade together), `MaxVersion`, `MaxEdits` (with faults and crashes in `MaxEvents`) and `MaxRound` bound counters that the code
does not bound; each is a guard of the actions that count. `CHECK_DEADLOCK FALSE` stands where the instance may come to
rest: when events, writes, rounds or names have run out, or every process has died.

Symmetry (`lease`, `lifecycle`) permutes processes of one job, names and copies, which no
definition tells apart; neither run has a liveness property.

## Fairness

Each condition is weak and stands for something the code or its runtime guarantees.

- `WorldBootstrap`: `BootStep` and `RecStep` (answers and timeouts of requests), `HookSettles` (the
  five-second limit on hooks ends a waiting run; `EventuallyServes` also assumes that module code that
  timed out returns in the end), `Connect` (retry timers and heartbeat). Failures, settings changes and
  administrators are not fair. What `EventuallyServes` says of administrators is a hypothesis of the property's second
  half only: one who finds the process `Stranded`, where nothing of its own will try again, does not leave it so for ever. Of the process
  alone it says that it serves again or ends up stranded (first disagreement below).
- `WorldTransport`: the two timers fire; a probe is answered or fails and then settles; each step of a connection attempt (all of them
  end by a timeout); the socket delivers its signal; a run ends (`RunVerifies`, `RunSucceeds`, `RunFindsNoRole`, `LateRunFails`, never the failure of its own);
  a pause ends (`Resume`, the `finally` of a long read); Foundry acts on a setup action and answers it.
- `FoundrySessions`: `RestoreStep(s)` (backoff timers, bounded waits) and
  `RebindConnected \/ RebindFails` (a connection attempt succeeds or fails), for each session.
- `BrowserLink`: `Receive \/ Poll` (statuses are sent every four seconds and arrive) and `Progress` (requests
  are answered, handshakes are made, the five-second timer fires, Core finishes what it does to the world). `LinkSettles` says nothing
  unless a good cookie and a served world come to stay.
- `MaintenanceUpgrade` (`upgrade_eager` only): the process schedules its coroutines (`WorkSteps`, `CancelSteps`, and `PollSteps` while the
  journal has calls). A supervisor's restart and Foundry's answers need no fairness: a death ends every command, and an answer that does not come is `Unacknowledged`.
- `WorldWorkGate`, `DocumentMirror`, `WorldLease`, `ModuleRegistry`, `EncounterTurns` and `EncounterLifecycle` have no liveness
  property. For the mirror, convergence is stated as an invariant of what is still on the wire.

## What is proved

Forty-eight theorems about eleven of the modules, for every value of the constants their assumptions allow. Of the forty properties the runs check they establish thirty-five, every invariant, action property and refinement among them; the
five liveness properties are only model-checked.

| Module | Theorem | Property |
|---|---|---|
| `WorldSupervisionProofs` | `TypeCorrect` | `TypeOK` of `WorldTransport` |
| | `Monitors` | `MonitoringNeverStops` |
| | `PastIsOver` | `ThePastDecidesNothing` |
| | `GateTypes` | `GateTypeOK` |
| | `CountsInFlight` | `InFlightExact`: the counter is the number of unsettled sends |
| | `WakesDrains` | `NoLostWakeup`: a waiting drain has a send that will wake it |
| | `DrainIsQuiet` | `DrainedMeansQuiet` |
| | `FencesStaleScopes` | `StaleScopesSendNothing` |
| `MaintenanceProofs` | `TypeCorrect` | `TypeOK` of `WorldLease` |
| | `Exclusion` | `MutualExclusion` |
| | `OnlyDeathsStick` | `StuckOnlyByDeath` |
| | `Refinement` | `ImplementsLease` |
| | `UpgradeTypes` | `UpgradeTypeOK` |
| | `ApprovalsAreBound` | `ApprovalIsBound` |
| | `FilesStay` | `FilesStayForWrites` |
| | `WholeWorldsAreReleased` | `OnlyWholeWorldsAreReleased` |
| | `LedgerIsKept` | `ImplementsLedger` |
| `ModuleRegistryProofs` | `TypeCorrect` | `TypeOK` |
| | `Survival` | `RecordedPackageSurvives` |
| | `FailuresUndone` | `FailureChangesNothing` |
| | `Locks` | `LocksHold` |
| | `DisablesHold` | `DisabledStaysDisabled` |
| `EncounterProofs` | `TypeCorrect` | `TypeOK` of `EncounterLifecycle` |
| | `NamesUnique` | `NamesStayUnique` |
| | `DeletionRemembered` | `DeletionIsNeverForgotten` |
| | `NothingLeft` | `NothingOutlivesTheCombat` |
| | `TurnTypes` | `TurnTypeOK` |
| | `TurnsKept` | `CommandsKeepTheTurn` |
| | `RoundsAreComplete` | `RoundIsComplete` |
| | `PausesHold` | `PauseHolds` |
| `FoundrySessionsProofs` | `SessionTypes` | `TypeOK` |
| | `PurgesAreFinal` | `PurgeIsFinal` |
| | `SuspensionsAreQuiet` | `SuspensionIsQuiet` |
| | `DeletionsHold` | `DeletedUsersAreGone` |
| | `LogoutsHold` | `LoggedOutStaysOut` |
| | `RolesFollow` | `RolesAreReconciled` |
| `WorldBootstrapProofs` | `BootstrapTypes` | `TypeOK` |
| | `MirrorsAreCurrent` | `ServedMirrorIsCurrent` |
| | `ActorsArePrepared` | `PreparedMatchesContext` |
| | `FailuresStayGated` | `FailureStaysGated` |
| | `ChangesAreReplayed` | `RecoveryReplaysChanges` |
| `BrowserLinkProofs` | `BrowserTypes` | `TypeOK` |
| | `DashboardsShow` | `ReadyShowsTheWorld` |
| | `SessionsAreWalls` | `NothingOutlivesItsSession` |
| `DocumentMirrorProofs` | `MirrorTypes` | `TypeOK` |
| | `MirrorsConverge` | `MirrorConverges` |
| | `BrowsersSaw` | `BrowsersSawTheMirror` |
| | `SeedsHold` | `SeedsUndoNothing` |

**Work gate.** Assumption: `BoundNat`. Flows and drains need not be finitely many: sends begin and end one at a time, so those
under way are. The invariant is

    GateInv == GateTypeOK /\ InFlightExact /\ NoLostWakeup /\ DrainedMeansQuiet
               /\ IsFiniteSet(sending) /\ ScopeFence /\ CoverFence

None of the four properties is inductive by itself. `NoLostWakeup` survives `Settle` only because the
counter that `Settle` tests is the number of unsettled sends, so `InFlightExact` is needed, and that needs
the count of a finite set to change by exactly one (`InFlightZero` and the library's facts on
cardinality). `DrainedMeansQuiet` survives `Dispatch` only because the gate is closed while a drain is
covered: `CoverFence`. `StaleScopesSendNothing` is an action property: `ScopeFence` says that a stale
scope's revision is older than the generation, so the assertion of `Dispatch` refuses it.

**Transport.** Assumptions: `NoneIsNoWorld` and `MaxEventsNat`; worlds need not be finite. Every handler of the controller is an operator on `core`, so there is a
lemma per handler, and `IInv` is `Good(core)` with the types of what is around it. `MonitoringNeverStops` fails of itself at the handlers that stop
one watcher and start another, unless a retry timer is never beside a connection or an attempt (`Linked`: else a connection could be up with
neither heartbeat nor attempt), and unless what is starting or served has a connection or an attempt to it (`Placed`). `ThePastDecidesNothing` rests on `Known`: a request
that counts was made of the lifecycle now served, and one from before a launch or shutdown never counts again, because every handler that takes note of one moves the
epoch; `Past` says that such a request stays outstanding until it settles, and `Undecided` that its settling moves nothing.

**Lease.** Assumption: `LeaseAssumption` (the two keys of a process differ, `None` is no process); the sets of processes and locks
need not be finite, and any assignment of jobs and keys is covered. The invariant `IInv` adds to `TypeOK` that a live
process owns exactly the locks its place in the loop says (`OwnsItsLocks`), that an owner has a directory
(`OwnerHasDirectory`), that a lock without an owner belongs to one process between `mkdir` and `owner.json` or between `unlink` and
`rmdir` (`BareLocks`), that a takeover has its recovery directory to itself and that the owner it read stays dead and stays the owner
(`Takeovers`), and that a loop that gives back is within its range (`GivingBack`). `Takeovers` is what makes `ReplaceOwner` a
`Take` of `Lease`: between reading and replacing, nobody else may write the owner.

**Upgrade.** Assumption: `BoundsAreNats` (at least one approval can happen); operations, approvals, commands, crashes and lost connections may be any number, and nothing is
assumed of when administrators ask or how often a process connects. `ApprovalIsBound` compares two records that are written by different calls to the journal, and each call writes what its
coroutine read in an earlier one. `UpInv` therefore says what a coroutine holds while it waits: the work that publishes has the intent in the mode and the lease in this
process (`UpWork`); the poll, which takes the lease over and saves the mode it read before, knows of the job published since, or is ahead of the approval in the journal's
line and so meets a lease its own process has, and fails (`UpPoll`); the cancellation reads only after the work has ended (`UpCancel`). The line itself is part of
the invariant (`UpLine`): a coroutine is in it once, exactly while it waits for the journal. `Turned` says what a turn of the line does to the places of the others; `WorkMoves`,
`PollMoves` and `CancelMoves` are what a step of one coroutine owes the other two, and the lemmas of the actions are instances of them.

The promise of `UpgradeLedger` and the two invariants about files and release hold until the poll's save puts an older job back: the history variable `stale` records it, the model goes on,
and TLC refutes all three without it (the disagreement under Maintenance). So the invariant is `UpWhole`: `UpInv`, the types of the histories, and `stale` or `WholeInv`. The latter says:

- `Sound` and `MetaFits`: what the metadata of a job tell of the files and the world. `possibleWrite` has the new files, a job without a file transition the old ones, a completed one
  everything applied; a reviewed plan leaves out only what is applied already; and nothing was sent that the receipts do not declare.
- `WorkHolds` and `Placed`: how far the place that the work has reached is ahead of the disk. Between two saves the files may be ahead of the job (`ap_retained`: gone; `ap_promoted`: new, not registered), which is
  why `MetaFits` of the *disk* is weaker than what each place knows, and why a save cut short (`CutShort`) still lands on a job that fits. At every place but the `Loose` ones this process holds the lease.
- `CancelHolds` and `Agrees`: the copies that the cancellation will write back say what the disk says, but for their token and for a phase still open; their saves add no receipt, so they
  cannot tear the ledger.
- `Releases` and `Closed`: a released mode, on the disk or in the hands of the poll, has a whole world, a job that is not open and an untorn ledger, and the work is at a place where it has no copy of the job. The poll may still write such a
  mode back after somebody else has begun, but only if the lease is free, and whoever has begun has claimed it.

Nothing need be said of the copy that the poll holds. When it is the job of the disk but for its token, its save changes nothing else (`LatestSaves`, `SameJob`); otherwise the save sets `stale`.

Every other step owes the same `Outcome`: `WholeInv'`, and `Follows`, by which declarations only grow, do not change while the world is free, and a free world keeps its verdict. The
refinement (`LedgerSteps`) needs no more of the code than that: each step is a `Declare`, `Finish`, `Undo`, `Withdraw`, an `Apply` or a stutter.

**Registry.** Assumption: `RegistryAssumption` (the bounds are naturals). `IInv` has, besides `TypeOK` and the property itself, who may be in the middle of what
(`Exclusive`), which version each step has promoted (`Promoted`), where the record's package lies while its place is empty or
taken, also between two calls of `rollback` (`SetAside`, `Counted`), that no record that is about to be written is locked (`Unlocked`), and that an operation has moved
nothing but the files it will put back, or names them as `hurt` (`AsFound`). `ScanStep` and `ScanKeepsSource` are lemmas of their own: whatever the
directories hold, a refresh makes a record of a record, and of one with a selected source one with a selected source.
`DisabledStaysDisabled` needs more, `DInv`: the record on disk and the one in memory say of each source what the operator last said (`Heeded`), so does
the copy an operation will put back (`Remembered`), and a package that is not fit has a diagnostic that keeps the next scan from enabling it (`Judged`). The
scan is the step that could break it, since it rewrites every flag; its lemmas take the four ways it classifies a source apart.

**Encounters.** Assumptions: `BoundsAreNats`, `CopiesFinite` (a command adds at most as many Actors as there are ids) and `NoLabelApart` (no name
is the value that stands for none). What carries the proof is that a lock holder and the documents agree although the creation does
not hold the lock: behind a lock the encounter is there under the name that was read (`Holding`), what is not a deletion has met no deletion (`Undeleted`), and
only a deletion overlaps a creation, which makes the encounter early (`Making`). A name being taken is in `creating`, nobody
else takes it and no encounter has it (`Reserved`, `Apart`), so the write that comes several awaits later cannot make two alike. A copied Actor
has a Folder that the flag names (`Homes`), and each later step of the cleanup knows what is left (`Sweeping`), whatever was refused
or unanswered before. `SaveStep` is the lemma for every write of the flag, `ContentStep` for Actors and the Folder.

**Turns.** Assumptions: `TurnBoundsAreNats` and `NpcsAreCombatants`. `TurnInv` has two layers. `DocFits` is about the document: whoever is due comes after the turn in the
order of the rows or, while the turn is paused, after the place kept in the flag. It survives a write that moves rows because one row that changes moves another by
one place at most (`OneRowMoves`, by cardinalities), and the one that would move onto the turn *is* then the current row and no longer due. Giving the turn to a
row needs that a non-empty set of rows has a first (`FirstRow`, from the well-foundedness of strict inclusion on finite sets). `Fits` is about the command: at each of its stages, what it
read when it took the lock still tells whom to give the turn to (`Sees`, `Returns`), and what it will give the turn to comes before all who are due (`Behind`).
`CommandsKeepTheTurn` is `Fits` at the stage `done`; `RoundIsComplete` follows because only a turn command raises the round, and it does so when nobody follows, so nobody is due
(`DueFollow`); `PauseHolds` because a paused document shows nobody's turn, so a player's command has nothing to end, and `Pause`, `Preserve` and a `Mend` that finds a row begin only when nothing is paused.

**Sessions.** Assumptions: `OwnerType` (each session has one user), `BoundNat` and `NullApart` (the value for "no connection" and "no world" is
neither). Sessions, users and worlds may be infinite. The four properties about retirement say what *is not*; none is inductive, because what could bring a session back is in
flight. `IInv` says for each session why it loses: a login or restoration has lost its epoch (`Quiet`), or the session's authority version, or meets the
tombstone of a deleted user; a rebind that lost its connection meets no later one, because nothing is left to restore from (`Orphaned`). `Orphaned` is
the strengthening that a test would hardly suggest: without it a restoration could come back between the two halves of a rebind. `RolesAreReconciled` needs it
also of an offline world (`Bound`), since the roles are compared again when the world returns.

**Bootstrap.** Assumptions: `NoneIsNoWorld` and `BoundsNat`; the set of worlds need not be finite. The handlers are operators on one record, so there is a lemma per
handler: from a good state it leads to a good state, and `Keeps` says what it leaves alone. `IInv` ties what a run has read to what it may publish: a bootstrap or
recovery whose epoch and connection are current has read every source before its place in the sequence, from the world that runs (`BootFrom`, `RecFrom`), and
the setting too unless it is fenced; only a ready runtime is recovered and a ready one has its own world's adapter (`Lives`); actors prepared from another context are
behind a closed gate (`Prepared`). For the refreshes it must say how many wait and which hook they wait for (`Counted`, `Hooked`): the gate reopens when the *last* of them ends, and
that one was given the published context.

**Browser.** Assumptions: `MaxLoginsNat` (at least one login can happen) and `MaxEventsNat`. The first layer is about the tab's handlers alone: each keeps
`Tidy`, what a tab may look like between two of its events, but for a marker just lost or gained, which only `Commit` settles. The second
adds the wire: what the tab believes of its socket and of the world is true, or the message that corrects it is on its way (`Believes`, `Vouched`, `Trusted`); a socket that
was greeted hears changes or is known not to (`Subscribed`); a list shows what Core has, or is owed a read, or the change that makes the tab read is on the wire (`Fresh`,
`Informed`); a request knows whom it asked for (`Knows`), so that an answer of a session that ended is a refusal.

**Mirror.** Assumption: `BoundsAreNat` (at least one write can happen). What is under way on the main socket is in Foundry's order: the last write on it that sets a field sets it to
what Foundry has, and an answer on it is what Foundry has but for the writes behind it (`Ordered`). `Mirrored` is the heart: once a connection has fed the
store, a field that nothing under way sets is what Foundry has, or a read is owed; of a read over a user's socket, whose answer is beside that order, it must say that the answer has
what the store lacks unless the refresh is marked to run again. Of a deleted document it says that the store has lost it or hears of it (`Gone`); that Foundry does not use an id again
(`Unborn`) is what lets an empty answer mean a deletion. `SeedsUndoNothing` compares numbers of writes, so it needs that nothing under way is newer than what
Foundry has (`Behind`), and `BrowsersSawTheMirror` that browsers saw the store or the baseline taken of it (`Seen`). `MirrorConverges` speaks of the last
write on the wire that sets each field, not of the store after the whole wire is applied: the two are the same, and the first needs no induction over the wire.

Each proof has one lemma per action (or small group), one lemma that joins them, and `Invariance` closes the temporal argument.

Only model-checked:

- Liveness (`EventuallyServes`, `SettlesWithFoundry`, `RestoresEnd`, `LinkSettles`, `EveryCommandEnds`): fairness and ENABLED are beyond the
  proof system's backends.

The inductive invariants were invariants of TLC's runs before they were proved. Six models changed for the proofs, with the same reachable states: `BrowserLink` assumes a login
(`MaxLogins = 0` has no initial state of the right type), `FoundrySessions` names its connections, `DocumentMirror` states `MirrorConverges` without a fold,
`WorldWorkGate` has names of its own and assumes nothing of its flows,
`EncounterTurns` has names of its own, and `MaintenanceUpgrade` has too, states a turn of the journal's line without a filter and assumes an approval
(`MaxApprovals = 0` has no receipts for the first job).

## Where code and documents disagree

What follows was met while modelling. None of it is a property of a passing run; where a property would say it, the
exception is built in and named, and the model contains the behaviour. No run is kept for them.

**Recovery and the mirror**

- A bootstrap or a recovery that fails on a live socket leaves the gate closed; `handleConnect` then only starts the heartbeat
  (`SystemService.ts:365-369`), which does not run in `startup`. Nothing retries until an administrator does, whereas
  ADR-0056:81 has "Failure stays unavailable and retries." The failure may be that of an older connection: a reload loses the socket
  without a teardown, the next connection shares the bootstrap of the first, and both fail when the first one's request times out
  (`BootTimeout`; a missing snapshot is a plain error, `WorldBootstrapper.ts:197-205`). `EventuallyServes` without `Stranded` is
  false; in `WorldTransport` it is `held`.
- An account's rejection is remembered until a run has verified the next one, so a run that fails before that, also one of an earlier connection, closes a
  world whose account is qualified (`SystemService.ts:364`, again `held`).
- Foundry's reload sets the lifecycle to offline and drops the socket without moving the gate
  (`WorldTransportController.ts:289`), so a request from before is still answered; ADR-0056:56 has "No world-backed read or write is served
  while offline or reconciling."
- `refreshWorldContext` returns at once while a bootstrap is not ready, and the bootstrap does not compare at publication, so a
  setting that changes in between is in no context until the next change; ADR-0064:133 has "On setting create/update/delete, Core validates
  and publishes a new immutable context". `RecoveryReplaysChanges` is therefore about recoveries only.
- A document that changes while a context refresh holds the gate is dropped by `emitWorldBackedEvent`, and the refresh has no baseline to
  publish from (ADR-0012:291). `BrowserLink` shows how far it goes: the status that the gate's closing and opening emits makes a tab that is connected
  check again and read everything again, so `ReadyShowsTheWorld` holds in spite of it.
- A user's acknowledgement that arrives after a later broadcast puts the older content back, and nothing corrects it; ADR-0034:150 has one logical mutation
  emit one change "regardless of which path arrives first" (`MirrorConverges` excludes it by `gaps`).
- An autosave heard while a doomed read is pending is only marked, and when the read fails nobody reads again (the gap `unread`).
- A world that was closed before its name was known (`blind`) is not noticed to have been replaced by another.

**Sessions**

- A role of NONE and the restored role that both fall into one rebind are not seen, and the kicked session lives on, against the comment at
  `FoundryUserConnectionService.ts:292-295`.
- Of two sessions kicked together the second's record waits for the store's lock (`:625`, a sleep of 50 ms), and a browser may restore it
  meanwhile, against the comment at `:225-228`.
- A role that changed while no user was mirrored is seeded without an event, and a live session keeps the former authorization
  (`src/server/index.ts:138-140`).

**Gateway and browser**

- A socket that connects while a context refresh holds the gate waits for `world:ready`, which a refresh never emits
  (`WorldBootstrapper.ts:713-764`): it stays status-only until the next bootstrap or recovery (ADR-0021:416: "cannot miss the event … and
  remain status-only"; the exception `unheard`).
- A `sessionInvalidated` or 401 that comes before the tab has restored its marker closes the socket, and no marker transition follows: the
  tab is a guest without statuses until the user logs in or reloads ("The marker transition creates a fresh public-status handshake").
- Reads that an event starts while an explicit logout is pending, after its clean-up, are let in and survive into the next login (the exception `late`;
  `SessionContext.tsx`: "Both explicit logout and server-side revocation must retire every session-bound client cache").
- A socket that closes while its first status is assembled: the `disconnect` handlers are registered after the await, so a
  listener leaks and the browser count stays one too high ("registered once for both"). It is left out of the model.
- A logout request that is lost leaves the cookie and the session in place, and the tab logs back in by itself.

**Maintenance**

- The poll of `startMaintenance.ts` acquires a lease again when it finds the job's lease released (`:79`), also after a cancellation, where
  `MAINTENANCE_RUNTIME.md:178` has the lease retained until the administrator cancels.
- The poll reads the job, the runner's save of its first intent is next in the journal's queue, and the poll's save of its
  own copy comes after it (`startMaintenance.ts:81-83`, "transfer verified ownership, never approval/outcomes"): `possibleWrite` is
  false again while the native write is on its way, and a cancellation then restores the previous files. `API.md:1269` has "after possible
  writes retain maintenance/recovery; no undo". It takes an administrator who approves or resumes while the poll is still taking the connection over (after a failed attempt, say), or a socket that is lost and taken over again
  while the runner works. The model contains both; `stale` is set by the save, and without it TLC refutes `FilesStayForWrites`, `OnlyWholeWorldsAreReleased` and `ImplementsLedger`.

**Module registry**

- `rollback` is called when an operation has returned a failure, and once more by the catch when that call throws (`archiveOperations.ts:365-381`). It is `closed` only after its last removal
  (`archiveTransaction.ts:405-422`): when that one fails, the second call removes the package the first has put back and reports that the backup is missing. ADR-0037:73 has "Transaction rollback
  after a failed mutation remains automatic", ADR-0003:167 "Install/upgrade/uninstall failures are rollback-safe and diagnosable" (the exception `wrecked`).
- Installing and upgrading save the result of the verification before the `try` that restores the stores (`managedModules.ts:815-816,1043-1044`). When that write fails it may have truncated
  `artifacts.json`, and nothing writes it again: artifact records and locks of every module are lost (the exception `hurt`; `LocksHold` lets such a write lose a lock).
- Uninstall deletes the artifact record and then purges the lifecycle record; when the second write fails only the
  lifecycle record is restored, though the comment says "Rollback: restore prior record and artifact if it was removed already" (`manager.ts:376`).
- `recordLifecycleRuntimeFailure` records a failure against the source that is active when it arrives, not the one whose code failed, against "A
  runtime failure disables only the source that actually failed" (`lifecycle.ts`).
- `enableModule` with a source that is not selected switches to it, scans, and enables the source the scan selected, which may be the
  other (`moduleSources.ts:257-266`). A blocked source of which nothing was said keeps the record's own flag, that is what was said of the other
  (`lifecycle.ts:315-319`; ADR-0033:1286: "it never copies enabled state").
- The record that `installModule` makes for a module never seen lacks title, directory and times, so `isValidRecord` drops it at the next load.

**Combat**

- `preserveCurrentTurn` gives the turn back although Foundry may have moved it meanwhile, which `CombatService.ts:655` takes care
  not to do ("Never restore an old turn over that newer command"). A turn moved in Foundry while it is paused leaves the pause in the flag. A turn paused for its
  initiative whose combatant is then set to Skip and scored again does not resume when Skip is taken back.
- `updateParticipant` has no `finally`: when its second write fails the turn is left where the first put it.
- Removing the combatant whose turn it is when its row is the last gives the turn to the first row in the same round.
- The creation of an encounter does not hold its lock. Deleted at the time, it may leave a Folder, or become active with
  its deletion requested (the exceptions `early`; `CombatManagerService.ts:1055`: "Interrupted attempts cannot later fall through the normal retention path").
- A copied Actor whose creation was not acknowledged is in no list; it stays in the Folder until the Folder's contents are
  cleaned up (`CombatManagerService.ts:675`: "A copy must never be left outside the Combat's cleanup list").

## What is not modelled

`PROJECT.json` lists every component with its status and reason. In short:

- *Data*: what adapters prepare, what migration rules compute, parsing, formats, layout, dice, Foundry's
  handshake, requirement rules of manifests. They have no interleavings of their own.
- *Most of the client and all scripts*: pages, forms and presentation, which are the larger part of the repository's lines, show state the contexts
  hold; command-line tools and release scripts run one after another.
- *Detail within modelled components*: audiences and ownership of documents, the field operators of a
  partial update, embedded collections per type, results scoped to a pack, presence, encryption and old
  formats of the session store, the compendium's entries, dependencies between modules, trust gates, edits of health and
  resources in combat, idempotency keys and digests of upgrades.
- *Small and synchronous*: administrators, status projections, prepared actors as a map: no await separates a check from its use.
- *Timing*: delays, backoffs and limits are nondeterministic; a property that depends on a number of milliseconds cannot be stated.
- *File systems that fail*, in `WorldLease`; partial writes are in `ModuleRegistry` and `MaintenanceUpgrade`.

Hazards that have no property of a run: the poll's save of an older job (`startMaintenance.ts:83`, above), which the properties except by name, a hook that times out and goes on running beside its retry (`WorldBootstrapper.ts:362`; `orphan` is
in the model, what module code does with it is not), the contended `clearSession`
(`FoundryUserConnectionService.ts:625`, above), and lost wake-ups of drains, which the theorem `WakesDrains` excludes.

## Plan

Done: the gate, transport, bootstrap, sessions, mirror, registry, the lifecycle of encounters, the gateway and the browser, each with its proofs; the lease with its
refinement and proofs; the turns of encounters with their proofs; the upgrade with the proofs of its approvals, its files and its ledger. Left, in this order:

1. Abstract specifications: *readiness* (a world is served only between a completed preparation and the
   next loss) implemented by `WorldBootstrap`, and *authority* (a session is live only from a
   grant until its retirement) implemented by `FoundrySessions`.
2. Composition of `FoundrySessions` with `BrowserLink` over their common sessions, with two tabs on one cookie.
3. The registry's routes that register a version without an archive, and dependencies between modules.

## How to run

    tlc -workers 2 -config MCWorldBootstrap.cfg MCWorldBootstrap
    tlc -workers 2 -config MCUpgradeEager.cfg MCMaintenanceUpgrade
    tlapm MaintenanceProofs.tla

`PROJECT.json` lists each run with its module, configuration and properties.
