---------------------------- MODULE WorldBootstrap ----------------------------
(***************************************************************************)
(* Preparation and recovery of the connected world: WorldBootstrapper.ts   *)
(* with the handlers that drive it (SystemService.ts,                      *)
(* WorldTransportController.ts) and what it gates (ServiceAccountAuthority,*)
(* WorldLifecycleStore, ModuleWorldContextService, ensureInitialized).     *)
(*                                                                         *)
(* Core runs on one thread: a handler, and every promise reaction it       *)
(* settles, is one step.  The handlers are therefore operators from a      *)
(* state `c` of the process to its next state, and an action composes the  *)
(* ones that run in the same turn.  What suspends is a run (boot, rec): its*)
(* pc names what it awaits.  A run remembers whether its epoch and its     *)
(* connection are still the current ones instead of their numbers.         *)
(***************************************************************************)
EXTENDS Integers, FiniteSets

CONSTANTS
    Worlds,         \* worlds the Foundry server can run, each with its own system
    None,           \* no world
    MaxFaults,      \* bound on lost connections, failures and world changes
    MaxSetting      \* bound on changes of the declared world setting

ASSUME NoneIsNoWorld == None \notin Worlds
ASSUME BoundsNat     == MaxFaults \in Nat /\ MaxSetting \in Nat

VARIABLES
    core,           \* the state of the Core process, see Init
    native,         \* Foundry: its running world, the service account's GM role, the setting
    faults          \* environment faults so far

vars == <<core, native, faults>>

Sources     == {"snapshot", "packs", "documents"}
BlockerKeys == {"runtime-retired", "context-refresh", "service-identity", "migration-compatibility"}
Lifecycles  == {"offline", "setup", "startup", "active", "closed"}
BootPcs     == {"idle", "snapshot", "packs", "documents", "compatibility", "initialize"}
RecPcs      == {"idle", "context", "snapshot", "packs", "documents", "compatibility", "hook", "replaced"}
Cleared     == -1   \* no world context
Unavailable == -2   \* a context whose settings are all unavailable

NoMirror == [s \in Sources |-> "none"]

\* heard: handleConnect awaits this run.  fenced: the context request serial has moved
\* since the recovery captured it.
NoBoot == [pc |-> "idle", live |-> FALSE, sameConn |-> FALSE, heard |-> FALSE]
NoRec  == [pc |-> "idle", live |-> FALSE, sameConn |-> FALSE, heard |-> FALSE, fenced |-> FALSE]

Init ==
    /\ core = [ up |-> FALSE,               \* the main socket is connected to an active world
                lifecycle |-> "offline",    \* worldLifecycleStore
                title |-> None,             \* closedWorldStatusTitle
                evidence |-> 0,             \* setupEvidenceCount
                blockers |-> {},            \* worldWorkGate
                admitted |-> FALSE,         \* a request holds the gate's current generation
                diagnostic |-> FALSE,       \* serviceAccountAuthority.diagnostic
                retired |-> FALSE,          \* runtimeRetired
                ready |-> FALSE,            \* ready
                failed |-> FALSE,           \* contextRefreshFailed
                world |-> None,             \* worldStateStore's world
                mirror |-> NoMirror,        \* "current": seeded on this connection
                adapter |-> None,           \* activeAdapter, by the world whose system it serves
                stored |-> Cleared,         \* the setting as SettingStore mirrors it
                context |-> Cleared,        \* moduleWorldContext.current
                prepared |-> Cleared,       \* the context prepared actors were built from
                hook |-> "none",            \* contextHookPending, and who still waits for it
                given |-> Cleared,          \* the context passed to the pending hook
                refreshes |-> 0,            \* pendingContextRefreshes
                boot |-> NoBoot,            \* bootstrapPromise
                chained |-> {},             \* bootstraps queued behind a stale one: are they heard?
                rec |-> NoRec ]             \* recoveryPromise
    /\ native \in [world : Worlds, gm : BOOLEAN, setting : {0}]
    /\ faults = 0

-----------------------------------------------------------------------------
(* The gate and readiness *)

\* Every change of the blockers moves the generation on: admitted requests are refused.
Block(c, k) == [c EXCEPT !.blockers = @ \cup {k}, !.admitted = FALSE]

Release(c, k) ==
    IF k \in c.blockers THEN [c EXCEPT !.blockers = @ \ {k}, !.admitted = FALSE] ELSE c

\* SystemService.isReady, the condition on which ensureInitialized admits a request.
IsReady(c) == c.blockers = {} /\ c.lifecycle = "active" /\ c.ready

\* Fault: the connection is not compared.
CurrentIgnoringConnection(run) == run.live

\* assertCurrentConnection
Current(run) == run.live /\ run.sameConn

\* A socket went away: pending requests on it never complete, its mirrors age.
Disconnected(c) ==
    [c EXCEPT !.up = FALSE,
              !.boot.sameConn = FALSE,
              !.rec.sameConn = FALSE,
              !.mirror = [s \in Sources |-> IF @[s] = "none" THEN "none" ELSE "old"]]

-----------------------------------------------------------------------------
(* Teardown *)

\* reset: a new epoch.  Queued refreshes are dropped, a running hook is not cancelled.
Reset(c) ==
    IF c.retired THEN c ELSE
    LET d == Release(Release(Block(c, "runtime-retired"), "context-refresh"), "migration-compatibility")
    IN [d EXCEPT !.retired = TRUE, !.ready = FALSE, !.failed = c.hook # "none",
                 !.world = None, !.mirror = NoMirror, !.adapter = None,
                 !.stored = Cleared, !.context = Cleared, !.prepared = Cleared,
                 !.hook = IF @ = "none" THEN "none" ELSE "orphan",
                 !.given = Cleared, !.refreshes = 0,
                 !.boot.live = FALSE, !.rec.live = FALSE]

\* serviceAccountAuthority.fail and blockServiceAccount
RejectAccount(c) == Block([c EXCEPT !.diagnostic = TRUE], "service-identity")

BlockServiceAccount(c) == Disconnected(Reset([c EXCEPT !.lifecycle = "closed"]))

\* The catch of handleConnect: a closed gate only starts the heartbeat.
ReadinessFailed(c) ==
    IF c.diagnostic THEN BlockServiceAccount(c)
    ELSE IF c.blockers # {} THEN c
    ELSE Disconnected([c EXCEPT !.lifecycle = "offline"])

-----------------------------------------------------------------------------
(* Starting, joining and ending runs *)

\* runBootstrap up to its first await; without a socket it has already failed.
StartBootstrap(c, heard) ==
    LET d == [c EXCEPT !.retired = FALSE]
        e == IF c.hook = "none" THEN d ELSE Block(d, "context-refresh")
    IN IF c.up /\ c.hook = "none"
       THEN [d EXCEPT !.boot = [pc |-> "snapshot", live |-> TRUE, sameConn |-> TRUE, heard |-> heard]]
       ELSE IF heard THEN ReadinessFailed(e) ELSE e

\* bootstrap: share the run of this epoch, queue behind the run of an earlier one.
JoinBootstrap(c, heard) ==
    CASE c.boot.pc = "idle" -> StartBootstrap(c, heard)
      [] c.boot.pc # "idle" /\ c.boot.live -> [c EXCEPT !.boot.heard = @ \/ heard]
      [] OTHER -> [c EXCEPT !.chained = @ \cup {heard}]

\* Fault: recoveryPromise is only cleared by a success.
RecoveryEndsHoldingPromise(c, ok) ==
    LET d == IF ok THEN [c EXCEPT !.rec = NoRec] ELSE [c EXCEPT !.rec = [NoRec EXCEPT !.pc = "replaced"]]
    IN IF c.rec.heard /\ ~ok THEN ReadinessFailed(d) ELSE d

\* recoveryPromise is cleared, then its callers continue.
RecoveryEnds(c, ok) ==
    LET d == [c EXCEPT !.rec = NoRec]
    IN IF c.rec.heard /\ ~ok THEN ReadinessFailed(d) ELSE d

\* bootstrapPromise is cleared; its callers continue before the queued bootstrap starts.
BootstrapEnds(c, ok) ==
    LET a == [c EXCEPT !.boot = NoBoot]
        b == IF c.boot.heard /\ ~ok THEN ReadinessFailed(a) ELSE a
        d == IF c.chained = {} THEN b
             ELSE JoinBootstrap([b EXCEPT !.chained = {}], TRUE \in c.chained)
    IN IF c.rec.pc = "replaced" THEN RecoveryEnds(d, ok) ELSE d

\* The catch of runBootstrap; a stale run touches nothing.
BootstrapFails(c, stale) ==
    BootstrapEnds(IF ~stale /\ c.boot.live /\ c.blockers = {} THEN Reset(c) ELSE c, FALSE)

\* Fault: the gate is left as the recovery found it.
RecoveryFailsUngated(c) ==
    LET a == IF c.rec.live THEN [c EXCEPT !.failed = TRUE] ELSE c
        b == IF "migration-compatibility" \in a.blockers THEN [a EXCEPT !.ready = FALSE] ELSE a
    IN RecoveryEnds(b, FALSE)

\* The catch of runRecovery.
RecoveryFails(c) ==
    LET a == IF c.rec.live THEN Block([c EXCEPT !.failed = TRUE], "context-refresh") ELSE c
        b == IF "migration-compatibility" \in a.blockers THEN [a EXCEPT !.ready = FALSE] ELSE a
    IN RecoveryEnds(b, FALSE)

\* runRecovery resumes once the refreshes queued before it have settled.
AfterRefreshes(c) ==
    IF c.rec.pc # "context" \/ ~c.rec.live \/ c.refreshes # 0 THEN c
    ELSE IF c.hook # "none" \/ ~c.up THEN RecoveryFails(c)
    ELSE [c EXCEPT !.rec.pc = "snapshot"]

\* runRecovery up to its first await: the gate closes before anything is read.
StartRecovery(c, heard) ==
    AfterRefreshes(Block([c EXCEPT !.rec = [NoRec EXCEPT !.pc = "context", !.live = TRUE,
                                                         !.sameConn = c.up, !.heard = heard]],
                         "context-refresh"))

\* recover: at most one recovery, whichever connection it belongs to.
Recover(c, heard) ==
    CASE ~c.ready -> JoinBootstrap(c, heard)
      [] c.ready /\ c.rec.pc = "idle" -> StartRecovery(c, heard)
      [] OTHER -> [c EXCEPT !.rec.heard = @ \/ heard]

-----------------------------------------------------------------------------
(* World-context refreshes *)

RefreshFails(c) ==
    AfterRefreshes(Block([c EXCEPT !.failed = TRUE, !.context = Unavailable, !.refreshes = 0],
                         "context-refresh"))

StartRefreshHook(c) ==
    IF c.hook # "none" THEN RefreshFails(c)
    ELSE [c EXCEPT !.hook = "refresh", !.given = c.context]

\* Fault: an older hook's snapshot is published over a newer one.
RefreshSettlesUnchecked(c) ==
    LET d == [c EXCEPT !.refreshes = @ - 1, !.hook = "none", !.prepared = c.given]
    IN IF d.refreshes # 0 THEN Release(StartRefreshHook(d), "context-refresh")
       ELSE AfterRefreshes(Release(d, "context-refresh"))

\* A refresh's hook has returned; the last pending refresh reopens the gate.
RefreshSettles(c) ==
    LET d == [c EXCEPT !.refreshes = @ - 1, !.hook = "none", !.given = Cleared,
                       !.prepared = IF c.given = c.context THEN c.context ELSE @]
    IN IF d.refreshes # 0 THEN StartRefreshHook(d)
       ELSE AfterRefreshes(IF c.failed THEN d ELSE Release(d, "context-refresh"))

\* refreshWorldContext, on a change of a mirrored setting.
RefreshWorldContext(c) ==
    IF ~c.ready \/ c.adapter = None THEN c
    ELSE IF c.rec.pc # "idle" THEN [c EXCEPT !.rec.fenced = c.rec.pc \in {"compatibility", "hook"}]
    ELSE IF c.failed \/ c.stored = c.context THEN c
    ELSE LET d == Block([c EXCEPT !.context = c.stored, !.refreshes = @ + 1], "context-refresh")
         IN IF d.refreshes = 1 THEN StartRefreshHook(d) ELSE d

-----------------------------------------------------------------------------
(* Steps of a bootstrap and of a recovery.  A response to a request arrives only on *)
(* the connection the request was sent on.                                          *)

Fault == faults < MaxFaults /\ faults' = faults + 1

Seed(c, source) == [c EXCEPT !.mirror[source] = "current"]

\* Foundry's answer to the world snapshot, the service account verified against it.
Verified(c) == Release([c EXCEPT !.diagnostic = FALSE], "service-identity")

BootSnapshot ==
    /\ core.boot.pc = "snapshot" /\ Current(core.boot)
    /\ core' = IF ~native.gm THEN BootstrapFails(RejectAccount(core), FALSE)
               ELSE Seed([Verified(core) EXCEPT !.world = native.world, !.boot.pc = "packs"], "snapshot")
    /\ UNCHANGED <<native, faults>>

BootPacks ==
    /\ core.boot.pc = "packs" /\ core.boot.sameConn
    /\ core' = IF core.boot.live THEN Seed([core EXCEPT !.boot.pc = "documents"], "packs")
               ELSE BootstrapFails(core, TRUE)
    /\ UNCHANGED <<native, faults>>

\* seedDocuments, configureWorldContext, and checkDataCompatibility up to its await.
BootDocuments ==
    /\ core.boot.pc = "documents" /\ core.boot.sameConn
    /\ core' = IF ~core.boot.live THEN BootstrapFails(core, TRUE)
               ELSE Block(Seed([core EXCEPT !.stored = native.setting, !.context = native.setting,
                                            !.boot.pc = "compatibility"], "documents"),
                          "migration-compatibility")
    /\ UNCHANGED <<native, faults>>

\* The source checks end: the candidate adapter is loaded, its initialize is called.
BootCompatibility ==
    /\ core.boot.pc = "compatibility"
    /\ core' = IF core.boot.live
               THEN [core EXCEPT !.adapter = core.world, !.boot.pc = "initialize"]
               ELSE BootstrapFails(core, TRUE)
    /\ UNCHANGED <<native, faults>>

\* initialize has returned: actors are prepared, the connection is checked, the world published.
BootInitialize ==
    LET prepared  == Release([core EXCEPT !.prepared = core.context], "migration-compatibility")
        published == Release(Release([prepared EXCEPT !.ready = TRUE, !.failed = FALSE,
                                                      !.lifecycle = "active"],
                                     "context-refresh"), "runtime-retired")
    IN /\ core.boot.pc = "initialize"
       /\ core' = CASE ~core.boot.live        -> BootstrapFails(core, TRUE)
                    [] core.boot.live /\ ~Current(core.boot) -> BootstrapFails(prepared, TRUE)
                    [] OTHER                  -> BootstrapEnds(published, TRUE)
       /\ UNCHANGED <<native, faults>>

\* A source, the compatibility check or the adapter fails.
BootFault ==
    /\ core.boot.pc # "idle" /\ Fault
    /\ core' = BootstrapFails(core, FALSE)
    /\ UNCHANGED native

\* A request whose connection is gone times out.  A missing snapshot is an error like any
\* other, so a runtime that still stands is retired also when the connection was lost.
BootTimeout ==
    /\ core.boot.pc \in Sources /\ ~core.boot.sameConn
    /\ core' = BootstrapFails(core, FALSE)
    /\ UNCHANGED <<native, faults>>

RecSnapshot ==
    LET replaced == JoinBootstrap(Reset([Verified(core) EXCEPT !.lifecycle = "setup",
                                                               !.rec.pc = "replaced"]), FALSE)
    IN /\ core.rec.pc = "snapshot" /\ core.rec.sameConn
       /\ core' = CASE ~core.rec.live -> RecoveryFails(core)
                    [] core.rec.live /\ ~native.gm -> RecoveryFails(RejectAccount(core))
                    [] core.rec.live /\ native.gm /\ native.world # core.world -> replaced
                    [] OTHER -> Seed([Verified(core) EXCEPT !.rec.pc = "packs"], "snapshot")
       /\ UNCHANGED <<native, faults>>

RecPacks ==
    /\ core.rec.pc = "packs" /\ core.rec.sameConn
    /\ core' = IF core.rec.live THEN Seed([core EXCEPT !.rec.pc = "documents"], "packs")
               ELSE RecoveryFails(core)
    /\ UNCHANGED <<native, faults>>

\* reconcileDocuments, configureWorldContext, the captured serial, and
\* checkDataCompatibility up to its await.
RecDocuments ==
    /\ core.rec.pc = "documents" /\ core.rec.sameConn
    /\ core' = IF ~core.rec.live THEN RecoveryFails(core)
               ELSE Block(Seed([core EXCEPT !.stored = native.setting, !.context = native.setting,
                                            !.rec.pc = "compatibility"], "documents"),
                          "migration-compatibility")
    /\ UNCHANGED <<native, faults>>

\* Fault: a source notification heard during the recovery is not replayed.
RecoveryHookDoneUnfenced(c) ==
    LET d == [c EXCEPT !.hook = "none", !.given = Cleared]
        prepared == Release([d EXCEPT !.prepared = c.context], "migration-compatibility")
    IN IF ~Current(c.rec) THEN RecoveryFails(d)
       ELSE RecoveryEnds(Release([prepared EXCEPT !.failed = FALSE, !.lifecycle = "active"],
                                 "context-refresh"), TRUE)

\* The recovery's hook has returned: the prepared context is refreshed and published
\* unless the connection or a dependency moved meanwhile.
RecoveryHookDone(c) ==
    LET d == [c EXCEPT !.hook = "none", !.given = Cleared]
        prepared == Release([d EXCEPT !.prepared = c.context], "migration-compatibility")
    IN IF ~Current(c.rec) THEN RecoveryFails(d)
       ELSE IF c.rec.fenced THEN RecoveryFails(prepared)
       ELSE RecoveryEnds(Release([prepared EXCEPT !.failed = FALSE, !.lifecycle = "active"],
                                 "context-refresh"), TRUE)

\* The source checks end: refreshAdapterContext runs before the epoch is compared.
RecCompatibility ==
    /\ core.rec.pc = "compatibility"
    /\ core' = CASE core.hook # "none" \/ core.context = Cleared -> RecoveryFails(core)
                 [] core.hook = "none" /\ core.context # Cleared /\ core.adapter = None -> RecoveryHookDone(core)
                 [] OTHER -> [core EXCEPT !.hook = "recovery", !.given = core.context, !.rec.pc = "hook"]
    /\ UNCHANGED <<native, faults>>

HookSettles ==
    /\ core.hook # "none"
    /\ core' = CASE core.hook = "refresh"  -> RefreshSettles(core)
                 [] core.hook = "recovery" -> RecoveryHookDone(core)
                 [] core.hook = "orphan"   -> [core EXCEPT !.hook = "none", !.given = Cleared]
    /\ UNCHANGED <<native, faults>>

\* The hook throws, or five seconds pass: then it keeps running, orphaned.
HookFails ==
    /\ core.hook \in {"refresh", "recovery"} /\ Fault
    /\ \E left \in {"none", "orphan"} :
         LET d == [core EXCEPT !.hook = left, !.given = Cleared]
         IN core' = IF core.hook = "refresh" THEN RefreshFails(d) ELSE RecoveryFails(d)
    /\ UNCHANGED native

RecFault ==
    /\ core.rec.pc \in Sources \cup {"compatibility"} /\ Fault
    /\ core' = RecoveryFails(core)
    /\ UNCHANGED native

\* Also a recovery whose runtime was retired while it waited for the refreshes or its hook.
RecTimeout ==
    /\ \/ core.rec.pc \in Sources /\ ~core.rec.sameConn
       \/ core.rec.pc = "context" /\ ~core.rec.live
       \/ core.rec.pc = "hook" /\ core.hook # "recovery"
    /\ core' = RecoveryFails(core)
    /\ UNCHANGED <<native, faults>>

-----------------------------------------------------------------------------
(* Transport *)

\* CoreSocket.connect against a running world: the probe rejects an account without
\* the Gamemaster role; otherwise the lifecycle goes to startup and handleConnect runs.
Attempt ==
    LET found == [core EXCEPT !.title = native.world, !.evidence = 0, !.lifecycle = "startup"]
    IN core' = IF native.gm THEN Recover([found EXCEPT !.up = TRUE], TRUE)
               ELSE RejectAccount([found EXCEPT !.lifecycle = "closed"])

\* A retry timer, the heartbeat or a returning browser; from closed only another world's title.
Connect ==
    /\ ~core.up
    /\ core.lifecycle = "closed" => native.world # core.title
    /\ Attempt
    /\ UNCHANGED <<native, faults>>

\* The admin route /world/retry.
AdminConnect ==
    /\ ~core.up /\ core.lifecycle = "closed"
    /\ Attempt
    /\ UNCHANGED <<native, faults>>

\* The admin route /module-upgrades/retry-context, allowed at any time.
AdminRetry ==
    /\ core' = Recover(core, FALSE)
    /\ UNCHANGED <<native, faults>>

\* handleTransportDisconnected: a runtime that never became ready is retired.
Lost ==
    LET retired == Block(core, "service-identity")
        down    == Disconnected(IF core.ready THEN retired ELSE Reset(retired))
    IN /\ core.up /\ Fault
       /\ core' = [down EXCEPT !.lifecycle = IF @ = "setup" THEN "setup" ELSE "offline"]
       /\ UNCHANGED native

\* handleReload: Foundry's reload signal drops the socket without retiring the account.
Reload ==
    /\ core.up /\ Fault
    /\ core' = Disconnected([core EXCEPT !.lifecycle = "offline"])
    /\ UNCHANGED native

\* recordSetupEvidence after a handshake or a heartbeat; the first report against a
\* retained world only goes offline.
SetupReported ==
    LET gone == [Disconnected(core) EXCEPT !.evidence = 0, !.title = None, !.lifecycle = "setup"]
    IN /\ core.lifecycle # "startup" /\ Fault
       /\ core' = CASE core.world = None -> gone
                    [] core.world # None /\ core.evidence = 0 ->
                         [Disconnected(core) EXCEPT !.evidence = 1, !.lifecycle = "offline"]
                    [] OTHER -> Reset(gone)
       /\ UNCHANGED native

\* handleShutdown
Shutdown ==
    /\ core.up /\ Fault
    /\ core' = Disconnected(Reset([core EXCEPT !.evidence = 0, !.lifecycle = "setup"]))
    /\ UNCHANGED native

-----------------------------------------------------------------------------
(* Foundry, and requests *)

SwitchWorld(w) ==
    /\ ~core.up /\ w # native.world /\ Fault
    /\ native' = [native EXCEPT !.world = w]
    /\ UNCHANGED core

\* A User event is heard once the users of the snapshot are mirrored.
Demote ==
    /\ native.gm /\ Fault
    /\ native' = [native EXCEPT !.gm = FALSE]
    /\ core' = IF core.up /\ core.mirror["snapshot"] # "none"
               THEN BlockServiceAccount(RejectAccount(core)) ELSE core

Promote ==
    /\ ~native.gm
    /\ native' = [native EXCEPT !.gm = TRUE]
    /\ UNCHANGED <<core, faults>>

\* A Setting event is heard once the settings are mirrored.
ChangeSetting ==
    /\ native.setting < MaxSetting
    /\ native' = [native EXCEPT !.setting = @ + 1]
    /\ core' = IF core.up /\ core.mirror["documents"] # "none"
               THEN RefreshWorldContext([core EXCEPT !.stored = native.setting + 1]) ELSE core
    /\ UNCHANGED faults

\* ensureInitialized captures the generation; the answer asserts it again.
Admit ==
    /\ IsReady(core) /\ ~core.admitted
    /\ core' = [core EXCEPT !.admitted = TRUE]
    /\ UNCHANGED <<native, faults>>

-----------------------------------------------------------------------------
BootStep == \/ BootSnapshot \/ BootPacks \/ BootDocuments \/ BootCompatibility
            \/ BootInitialize \/ BootTimeout
RecStep  == \/ RecSnapshot \/ RecPacks \/ RecDocuments \/ RecCompatibility \/ RecTimeout

Unattended ==
    \/ BootSnapshot \/ BootPacks \/ BootDocuments \/ BootCompatibility \/ BootInitialize
    \/ BootFault \/ BootTimeout
    \/ RecSnapshot \/ RecPacks \/ RecDocuments \/ RecCompatibility \/ RecFault \/ RecTimeout
    \/ HookSettles \/ HookFails
    \/ Connect \/ Lost \/ Reload \/ SetupReported \/ Shutdown
    \/ \E w \in Worlds : SwitchWorld(w)
    \/ Demote \/ Promote \/ ChangeSetting \/ Admit

Next == Unattended \/ AdminConnect \/ AdminRetry

\* Timers, responses and hooks arrive; the transport keeps trying to connect.
Fairness ==
    /\ WF_vars(BootStep) /\ WF_vars(RecStep) /\ WF_vars(HookSettles) /\ WF_vars(Connect)

Spec     == Init /\ [][Next]_vars
FairSpec == Spec /\ Fairness

-----------------------------------------------------------------------------
(* Properties *)

\* Types of the process state.
TypeOK ==
    /\ core.lifecycle \in Lifecycles
    /\ core.blockers \subseteq BlockerKeys
    /\ core.mirror \in [Sources -> {"none", "old", "current"}]
    /\ core.hook \in {"none", "refresh", "recovery", "orphan"}
    /\ core.refreshes \in 0..MaxSetting
    /\ core.boot.pc \in BootPcs /\ core.rec.pc \in RecPcs
    /\ {core.world, core.adapter, core.title} \subseteq Worlds \cup {None}
    /\ {core.stored, core.context, core.prepared} \subseteq Unavailable..MaxSetting
    /\ core.admitted => core.blockers = {}

\* While requests are admitted, everything they read was seeded on this very connection, from
\* the world that is running, and the adapter is that world's: no older run publishes over a
\* newer connection or world (assertCurrentEpoch, assertCurrentConnection).
ServedMirrorIsCurrent ==
    IsReady(core) =>
        /\ core.up
        /\ \A s \in Sources : core.mirror[s] = "current"
        /\ core.world = native.world /\ core.adapter = native.world

\* While requests are admitted, actors are prepared from the context that they are told,
\* although settings change while module code runs (refreshWorldContext).
PreparedMatchesContext == IsReady(core) => core.prepared = core.context

\* A failed or timed-out preparation keeps the gate closed until a later one succeeds, also
\* when refreshes and recoveries share the key they block, and no request admitted before it is
\* answered (runRecovery, refreshWorldContext, ensureInitialized).
FailureStaysGated == core.failed => core.blockers # {} /\ ~core.admitted

\* Nothing of Core's own will try again: nothing runs or is queued behind a closed gate, and
\* the transport has either a live connection, so that handleConnect's catch left it at
\* starting the heartbeat, or the lifecycle of a rejected account.
Stranded ==
    /\ core.boot.pc = "idle" /\ core.chained = {} /\ core.rec.pc = "idle" /\ core.blockers # {}
    /\ core.up \/ core.lifecycle = "closed"

AdminHelps == Stranded /\ (AdminRetry \/ AdminConnect)

\* A running world with a qualified account is served again after any of the bounded faults
\* by the process alone, unless it is stranded for good: retries are left out for a closed
\* gate with a live connection (handleConnect, SystemService.ts:365).  Then it is served
\* again if an administrator who finds it stranded does not leave it so (retry-context and
\* world/retry).
EventuallyServes ==
    (<>[]native.gm) =>
        /\ []<>IsReady(core) \/ <>[]Stranded
        /\ WF_vars(AdminHelps) => []<>IsReady(core)

\* A recovery publishes the setting that Foundry has then, whatever changed meanwhile: it
\* compares contextRequestSerial and the revision before it publishes (runRecovery).
RecoveryReplaysChanges ==
    [][core.rec.pc = "hook" /\ core.rec.live /\ core'.rec.pc = "idle" /\ IsReady(core')
         => core'.prepared = native'.setting]_vars
=============================================================================
