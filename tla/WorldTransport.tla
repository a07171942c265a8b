----------------------------- MODULE WorldTransport -----------------------------
(***************************************************************************)
(* The supervision of Core's connection to Foundry                         *)
(* (WorldTransportController.ts with EngagementService.ts, CoreSocket.ts): *)
(* the heartbeat and its epoch, the retry timer, the connection attempt,   *)
(* the evidence that a world was left, the world Core refuses to serve,    *)
(* and the administrator's launch and shutdown.                            *)
(*                                                                         *)
(* As in WorldBootstrap a handler is an operator from the state `c` of the *)
(* controller and its socket to the next, since each runs in one turn.     *)
(* A status request that was superseded stays in `probes` with fresh FALSE *)
(* until it settles; a superseded connection attempt has no effect left.   *)
(* What a bootstrap or a recovery does is WorldBootstrap's subject: here   *)
(* it is a pending run with an outcome, a recovery if a world is retained. *)
(***************************************************************************)
EXTENDS Integers, FiniteSets

CONSTANTS
    Worlds,     \* worlds the Foundry server can run
    None,       \* no world
    MaxEvents   \* bound on what Foundry, administrators, browsers and the network do

ASSUME NoneIsNoWorld == None \notin Worlds
ASSUME MaxEventsNat  == MaxEvents \in Nat

VARIABLES
    core,       \* the controller, the transport and the engagement policy, see Init
    post,       \* the administrator's setup action in flight
    native,     \* Foundry: its running world, the worlds that lack a GM service account
    events      \* events so far

vars == <<core, post, native, events>>

Lifecycles == {"offline", "setup", "startup", "active", "closed"}

\* A status answer: the world's name, setup, an active world without its name, or no answer yet or at all.
Answers == Worlds \cup {"setup", "untitled", "failed", "pending"}
AttemptPcs == {"none", "handshake", "discover", "connect", "status", "doomed"}

\* as: the lifecycle when the heartbeat fired.  before: a launch or shutdown was confirmed since.
Probes == [fresh : BOOLEAN, as : {"setup", "offline", "closed", "active"}, answer : Answers, before : BOOLEAN]

\* Runs of earlier connections, all doomed.  joined: connections still share it.  ahead: a
\* retired bootstrap, which the next one waits for.  aside: a retired recovery.
LateRuns == {"joined", "ahead", "aside"}

NoAttempt == [pc |-> "none", answer |-> "pending"]
NoPost    == [pc |-> "none", signalled |-> FALSE]

Init ==
    /\ core = [ lifecycle |-> "offline",  \* worldLifecycleStore
                retained |-> FALSE,       \* a prepared world: worldBootstrapper.isReady, worldStateStore.isReady
                title |-> None,           \* closedWorldStatusTitle
                blind |-> FALSE,          \* history: the last handshake with an active world gave no name
                evidence |-> 0,           \* setupEvidenceCount
                reports |-> 0,            \* history: setup reports since the last sign of a world, up to 2
                retry |-> FALSE,          \* retryTimer
                beat |-> FALSE,           \* heartbeatTimer
                probes |-> {},            \* status requests of heartbeats
                attempt |-> [NoAttempt EXCEPT !.pc = "handshake"],  \* connect in flight: isConnecting
                up |-> FALSE,             \* isConnected
                wire |-> "none",          \* what the socket is about to deliver
                run |-> FALSE,            \* handleConnect awaits the run of this connection
                late |-> {},              \* the runs of earlier connections that handleConnect awaits
                rejected |-> FALSE,       \* serviceAccountAuthority.getDiagnostic
                held |-> FALSE,           \* history: a run failed and nothing retries it
                engaged |-> FALSE,        \* browserCount > 0
                paused |-> FALSE ]        \* pauseDepth > 0
    /\ post = NoPost
    /\ native \in [world : Worlds \cup {None}, refusing : SUBSET Worlds]
    /\ events = 0

-----------------------------------------------------------------------------
(* Timers and the transport                                                *)

StopHeartbeatOnly(c) == [c EXCEPT !.beat = FALSE]   \* Fault: the epoch does not move

\* stopHeartbeat: the epoch moves, so a request under way no longer counts.
StopHeartbeat(c) ==
    [c EXCEPT !.beat = FALSE, !.probes = {[p EXCEPT !.fresh = FALSE] : p \in @}]

StartHeartbeat(c) == [StopHeartbeat(c) EXCEPT !.beat = TRUE]

ScheduleReconnect(c) == [StopHeartbeat(c) EXCEPT !.retry = TRUE]

\* bootstrapPromise and recoveryPromise: a run of the same epoch is shared, also with the
\* connection after the one that it used.
Shared(c) == "joined" \in c.late \/ (c.retained /\ "aside" \in c.late)

\* The socket of the run is gone: the run goes on, unless it has not begun.
Abandoned(c) ==
    [c EXCEPT !.run = FALSE,
              !.late = IF c.run /\ ~Shared(c) /\ "ahead" \notin @ THEN @ \cup {"joined"} ELSE @]

\* CoreSocket.disconnect: a new generation.
TransportDisconnect(c) ==
    [Abandoned(c) EXCEPT !.attempt = NoAttempt, !.up = FALSE, !.wire = "none", !.held = FALSE]

\* connect: both timers go; a connected or connecting transport has nothing to do.
Connect(c) ==
    LET d == [StopHeartbeat(c) EXCEPT !.retry = FALSE]
    IN IF d.up \/ d.attempt.pc # "none" THEN d
       ELSE [d EXCEPT !.attempt = [NoAttempt EXCEPT !.pc = "handshake"]]

\* shouldRunHeartbeat
ShouldRunHeartbeat(c) ==
    /\ ~c.paused
    /\ c.attempt.pc = "none"
    /\ c.lifecycle # "startup"
    /\ c.up \/ c.lifecycle \in {"setup", "offline", "closed"}

\* A sign of a running world or of its end ends the count of setup reports.
World(c) == [c EXCEPT !.evidence = 0, !.reports = 0]

\* History: what was asked of Foundry before a confirmed launch or shutdown no longer describes it.
Confirmed(c) == [c EXCEPT !.probes = {[p EXCEPT !.before = TRUE] : p \in @}]

\* WorldBootstrapper.reset: a new epoch, whose bootstrap waits for a retired bootstrap only.
Teardown(c) ==
    [c EXCEPT !.retained = FALSE, !.run = FALSE,
              !.late = IF c.run \/ "joined" \in @
                       THEN (@ \ {"joined"}) \cup {IF c.retained THEN "aside" ELSE "ahead"} ELSE @]

-----------------------------------------------------------------------------
(* Handlers of transport events                                            *)

\* recordSetupEvidence: a prepared world is retired by the second report only.
RecordSetupEvidence(c) ==
    LET d == [c EXCEPT !.reports = IF @ < 2 THEN @ + 1 ELSE 2]
        left == [d EXCEPT !.evidence = 0, !.title = None, !.lifecycle = "setup"]
    IN IF c.retained /\ c.evidence = 0
       THEN ScheduleReconnect([d EXCEPT !.evidence = 1, !.lifecycle = "offline"])
       ELSE ScheduleReconnect(IF c.retained THEN Teardown(left) ELSE left)

ConnectionFailed(c) ==
    ScheduleReconnect([c EXCEPT !.lifecycle = IF @ = "setup" THEN "setup" ELSE "offline"])

WorldMissing(c) == ScheduleReconnect([World(c) EXCEPT !.lifecycle = "offline"])

\* serviceAccountMissing, serviceAccountRoleRejected: no retries, only a heartbeat.
AccountRejected(c) == StartHeartbeat([c EXCEPT !.rejected = TRUE, !.retry = FALSE, !.lifecycle = "closed"])

WorldInactive(c) == ScheduleReconnect([TransportDisconnect(c) EXCEPT !.lifecycle = "offline"])

\* handleTransportDisconnected; a run that was preparing a world is retired with it.
TransportDisconnected(c) ==
    LET a == IF c.retained THEN Abandoned(c) ELSE Teardown(c)
        d == StopHeartbeat([a EXCEPT !.up = FALSE, !.wire = "none", !.held = FALSE,
                                     !.lifecycle = IF @ = "setup" THEN "setup" ELSE "offline",
                                     !.attempt.pc = IF @ = "none" THEN "none" ELSE "doomed"])
    IN IF c.engaged THEN Connect(d) ELSE StartHeartbeat(d)

Shutdown(c) ==
    StartHeartbeat(TransportDisconnect(Teardown([Confirmed(World(c)) EXCEPT !.lifecycle = "setup"])))

Reload(c) == Connect(TransportDisconnect([c EXCEPT !.lifecycle = "offline"]))

\* handleProgress: a completed launch.
LaunchProgress(c) == Connect(TransportDisconnect(c))

-----------------------------------------------------------------------------
(* Heartbeats and the retry timer                                          *)

TitleOf(w) == IF w = None THEN "setup" ELSE w

Event == events < MaxEvents /\ events' = events + 1
Quiet == UNCHANGED events

RetryFires ==
    /\ core.retry
    /\ core' = Connect(core)
    /\ UNCHANGED <<post, native>> /\ Quiet

\* runHeartbeat up to its await.  At most two requests are outstanding in the model.
HeartbeatFires ==
    /\ core.beat /\ Cardinality(core.probes) < 2
    /\ core' = IF ShouldRunHeartbeat(core)
               THEN [core EXCEPT !.beat = FALSE,
                                 !.probes = @ \cup {[fresh |-> TRUE, as |-> core.lifecycle,
                                                     answer |-> "pending", before |-> FALSE]}]
               ELSE [core EXCEPT !.beat = FALSE]
    /\ UNCHANGED <<post, native>> /\ Quiet

Answered(p, a) == core' = [core EXCEPT !.probes = (@ \ {p}) \cup {[p EXCEPT !.answer = a]}]

ProbeAnswers(p) ==
    /\ p.answer = "pending"
    /\ Answered(p, TitleOf(native.world))
    /\ UNCHANGED <<post, native>> /\ Quiet

ProbeFails(p) ==
    /\ p.answer = "pending"
    /\ Event
    /\ Answered(p, "failed") \/ (native.world # None /\ Answered(p, "untitled"))
    /\ UNCHANGED <<post, native>>

\* The end of a heartbeat that found nothing to do.
Rearm(c) == IF c.retry THEN c ELSE [c EXCEPT !.beat = TRUE]

TitleIgnored(c, p) == FALSE   \* Fault: a closed world's name is not compared

\* closedWorldChanged
ClosedWorldChanged(c, p) == p.as = "closed" /\ c.title # None /\ p.answer # c.title

\* runHeartbeat after its await.
HeartbeatAnswered(c, p) ==
    CASE p.answer = "failed" -> Rearm(c)
      [] p.answer = "setup"  -> RecordSetupEvidence(TransportDisconnect(c))
      [] p.answer = "untitled" -> Rearm(World(c))
      [] OTHER -> IF p.as \in {"setup", "offline"} \/ ClosedWorldChanged(c, p)
                  THEN Connect(World(c))
                  ELSE Rearm(World(c))

ProbeSettles(p) ==
    /\ p.answer # "pending"
    /\ LET c == [core EXCEPT !.probes = @ \ {p}]
       IN core' = IF p.fresh THEN HeartbeatAnswered(c, p) ELSE c
    /\ UNCHANGED <<post, native>> /\ Quiet

-----------------------------------------------------------------------------
(* A connection attempt                                                    *)

\* The attempt ends without an exception; what its last event scheduled stays.
Ends(c) == [c EXCEPT !.attempt = NoAttempt]

\* The catch of connect: the socket is retired before connectionFailed is emitted.
AttemptFails(c) == ConnectionFailed(TransportDisconnect(c))

AttemptAnswered ==
    /\ core.attempt = [NoAttempt EXCEPT !.pc = "handshake"]
    /\ \/ core' = [core EXCEPT !.attempt.answer = TitleOf(native.world)] /\ Quiet
       \/ Event /\ native.world # None /\ core' = [core EXCEPT !.attempt.answer = "untitled"]
       \/ Event /\ core' = [core EXCEPT !.attempt.answer = "failed"]
    /\ UNCHANGED <<post, native>>

\* handleWorldTitleDetected
TitleDetected(c, w) ==
    [World(c) EXCEPT !.title = w, !.blind = FALSE,
                     !.lifecycle = IF @ = "active" THEN "active" ELSE "startup"]

Discovering(c) == [c EXCEPT !.attempt = [NoAttempt EXCEPT !.pc = "discover"]]

AttemptHandshake ==
    LET a == core.attempt.answer
    IN /\ core.attempt.pc = "handshake" /\ a # "pending"
       /\ core' = CASE a = "failed" -> AttemptFails(core)
                    [] a = "setup"  -> Ends(RecordSetupEvidence(core))
                    [] a = "untitled" -> Discovering([core EXCEPT !.blind = TRUE])
                    [] OTHER -> Discovering(TitleDetected(core, a))
       /\ UNCHANGED <<post, native>> /\ Quiet

\* probeWorldState and the service account's role in what it lists.
AttemptDiscovers ==
    /\ core.attempt.pc = "discover"
    /\ IF native.world = None THEN core' = Ends(WorldMissing(core))
       ELSE LET c == [World(core) EXCEPT !.lifecycle = "startup"]
            IN core' = IF native.world \in native.refusing THEN Ends(AccountRejected(c))
                       ELSE [c EXCEPT !.attempt.pc = "connect"]
    /\ UNCHANGED <<post, native>> /\ Quiet

\* The probe fails or lists no users; the login fails, or the main socket does.
AttemptBreaks ==
    /\ core.attempt.pc \in {"discover", "connect"}
    /\ \/ Event
       \/ core.attempt.pc = "connect" /\ native.world = None /\ Quiet
    /\ core' = AttemptFails(core)
    /\ UNCHANGED <<post, native>>

AttemptConnects ==
    /\ core.attempt.pc = "connect" /\ native.world # None
    /\ core' = [core EXCEPT !.up = TRUE, !.attempt.pc = "status"]
    /\ UNCHANGED <<post, native>> /\ Quiet

\* worldActive, then handleConnect: the run of this connection.
AttemptActive ==
    /\ core.attempt.pc = "status" /\ native.world # None
    /\ core' = Ends([World(core) EXCEPT !.lifecycle = "startup", !.run = TRUE, !.held = FALSE])
    /\ UNCHANGED <<post, native>> /\ Quiet

\* getWorldStatus answers no, or not in time.
AttemptInactive ==
    /\ core.attempt.pc = "status"
    /\ IF native.world = None THEN Quiet ELSE Event
    /\ core' \in {WorldInactive(core), AttemptFails(core)}
    /\ UNCHANGED <<post, native>>

\* The connection was lost before its status arrived: the attempt times out.
AttemptTimesOut ==
    /\ core.attempt.pc = "doomed"
    /\ core' = AttemptFails(core)
    /\ UNCHANGED <<post, native>> /\ Quiet

-----------------------------------------------------------------------------
(* Signals of the main socket                                              *)

Signal ==
    /\ core.up /\ core.wire # "none"
    /\ LET c == [core EXCEPT !.wire = "none"]
       IN core' = CASE core.wire = "lost" -> TransportDisconnected(c)
                    [] core.wire = "shutdown" -> Shutdown(c)
                    [] core.wire = "reload"   -> Reload(c)
                    [] core.wire = "progress" -> LaunchProgress(c)
    /\ post' = [post EXCEPT !.signalled = @ \/ (core.wire = "shutdown" /\ post.pc = "shutdown")]
    /\ UNCHANGED native /\ Quiet

-----------------------------------------------------------------------------
(* What bootstraps and recoveries report (SystemService.handleConnect)     *)

\* The run is this connection's own and has begun.
OwnRun == core.run /\ ~Shared(core) /\ "ahead" \notin core.late

\* verify: an earlier rejection of the account is forgotten.
RunVerifies ==
    /\ OwnRun /\ core.rejected /\ native.world \notin native.refusing
    /\ core' = [core EXCEPT !.rejected = FALSE]
    /\ UNCHANGED <<post, native>> /\ Quiet

RunSucceeds ==
    /\ OwnRun /\ ~core.rejected /\ native.world \notin native.refusing
    /\ core' = StartHeartbeat([core EXCEPT !.run = FALSE, !.retained = TRUE, !.lifecycle = "active"])
    /\ UNCHANGED <<post, native>> /\ Quiet

\* retryAfterRecoveryFailure
RetryAfterFailure(c) == ScheduleReconnect(TransportDisconnect([c EXCEPT !.lifecycle = "offline"]))

\* blockServiceAccount
BlockServiceAccount(c) ==
    StartHeartbeat(StopHeartbeat(TransportDisconnect(Teardown([c EXCEPT !.retry = FALSE, !.lifecycle = "closed"]))))

\* The catch of handleConnect: a rejection, also an earlier one, closes the world; behind a
\* closed gate nothing is retried; with an open one the connection is tried again.
Handled(c, mine, opens) ==
    IF c.rejected THEN {[BlockServiceAccount(c) EXCEPT !.held = TRUE]}
    ELSE {StartHeartbeat([c EXCEPT !.held = @ \/ mine])} \cup IF opens THEN {RetryAfterFailure(c)} ELSE {}

\* The run fails behind a gate that it leaves closed, or with the gate open.
RunFails ==
    /\ OwnRun /\ Event
    /\ core' \in Handled([core EXCEPT !.run = FALSE], TRUE, TRUE)
    /\ UNCHANGED <<post, native>>

\* The world changed during the attempt, or the account lost its role before the run verified it.
RunFindsNoRole ==
    /\ OwnRun /\ native.world # None
    /\ IF native.world \in native.refusing THEN Quiet ELSE Event
    /\ native' = [native EXCEPT !.refusing = @ \cup {native.world}]
    /\ core' = BlockServiceAccount([core EXCEPT !.rejected = TRUE, !.run = FALSE])
    /\ UNCHANGED post

\* A run of an earlier connection fails for every connection that shares it.  A bootstrap
\* may fail with the gate open as stale, a live recovery never, a retired one if a later
\* bootstrap has opened it; a retired bootstrap left it closed.
LateRunFails(k) ==
    LET mine  == core.run /\ (k = "joined" \/ (k = "aside" /\ core.retained))
        opens == (k = "joined" /\ ~core.retained) \/ (k = "aside" /\ core.retained)
    IN /\ k \in core.late
       /\ core' \in Handled([core EXCEPT !.late = @ \ {k}, !.run = @ /\ ~mine], mine, opens)
       /\ UNCHANGED <<post, native>> /\ Quiet

-----------------------------------------------------------------------------
(* Engagement and administrators                                           *)

\* handleReturnToEngagement
Engage ==
    /\ ~core.engaged /\ Event
    /\ LET c == StartHeartbeat([core EXCEPT !.engaged = TRUE])
       IN core' = IF c.lifecycle \in {"offline", "setup"} /\ c.attempt.pc = "none" THEN Connect(c) ELSE c
    /\ UNCHANGED <<post, native>>

Disengage ==
    /\ core.engaged /\ Event
    /\ core' = [core EXCEPT !.engaged = FALSE]
    /\ UNCHANGED <<post, native>>

\* withHeartbeatPaused, around a long read of a compendium
Pause ==
    /\ ~core.paused /\ Event
    /\ core' = [StopHeartbeat(core) EXCEPT !.paused = TRUE]
    /\ UNCHANGED <<post, native>>

ResumeWithoutHeartbeat(c) == [c EXCEPT !.paused = FALSE]   \* Fault: nobody hears heartbeatResumed

\* onHeartbeatResumed
Resumed(c) ==
    LET d == [c EXCEPT !.paused = FALSE]
    IN IF ~d.beat /\ ~d.retry /\ ShouldRunHeartbeat(d) THEN StartHeartbeat(d) ELSE d

Resume ==
    /\ core.paused
    /\ core' = Resumed(core)
    /\ UNCHANGED <<post, native>> /\ Quiet

\* POST /world/retry
AdminRetry ==
    /\ core.lifecycle = "closed" /\ Event
    /\ core' = Connect(core)
    /\ UNCHANGED <<post, native>>

PostSetupAction ==
    /\ post = NoPost /\ Event
    /\ post' \in {[NoPost EXCEPT !.pc = "launch"], [NoPost EXCEPT !.pc = "shutdown"]}
    /\ UNCHANGED <<core, native>>

\* What a socket hears when Foundry leaves its world: a shutdown, or only the end of the connection.
Leaves == \E signal \in {"shutdown", "lost"} : core' = IF core.up THEN [core EXCEPT !.wire = signal] ELSE core

FoundryActs ==
    /\ \/ /\ post.pc = "launch" /\ native.world = None
          /\ \E w \in Worlds : native' = [native EXCEPT !.world = w]
          /\ post' = [post EXCEPT !.pc = "launched"] /\ UNCHANGED core
       \/ /\ post.pc = "shutdown" /\ native.world # None
          /\ native' = [native EXCEPT !.world = None] /\ Leaves
          /\ post' = [post EXCEPT !.pc = "stopped"]
       \/ /\ IF native.world = None THEN post.pc = "shutdown" ELSE post.pc = "launch"
          /\ post' = NoPost /\ UNCHANGED <<core, native>>    \* refused: the handler throws
    /\ Quiet

\* shutdownWorld after its await; a native shutdown has already been handled.
ShutdownAnswered(c, signalled) ==
    IF signalled THEN c
    ELSE StartHeartbeat(TransportDisconnect(Teardown([Confirmed(c) EXCEPT !.lifecycle = "setup"])))

PostAnswered ==
    /\ post.pc \in {"launched", "stopped"}
    /\ core' = IF post.pc = "launched" THEN StartHeartbeat(Confirmed(core))
               ELSE ShutdownAnswered(core, post.signalled)
    /\ post' = NoPost
    /\ UNCHANGED native /\ Quiet

-----------------------------------------------------------------------------
(* Foundry and the network                                                 *)

WorldStarts ==
    /\ native.world = None /\ Event
    /\ \E w \in Worlds : native' = [native EXCEPT !.world = w]
    /\ UNCHANGED <<core, post>>

WorldStops ==
    /\ native.world # None /\ Event
    /\ native' = [native EXCEPT !.world = None]
    /\ Leaves
    /\ UNCHANGED post

SocketSignal ==
    /\ core.up /\ core.wire = "none" /\ Event
    /\ \E signal \in {"lost", "reload", "progress"} : core' = [core EXCEPT !.wire = signal]
    /\ UNCHANGED <<post, native>>

-----------------------------------------------------------------------------
Next ==
    \/ RetryFires \/ HeartbeatFires
    \/ \E p \in core.probes : ProbeAnswers(p) \/ ProbeFails(p) \/ ProbeSettles(p)
    \/ AttemptAnswered \/ AttemptHandshake \/ AttemptDiscovers \/ AttemptBreaks \/ AttemptConnects
    \/ AttemptActive \/ AttemptInactive \/ AttemptTimesOut
    \/ Signal \/ RunSucceeds \/ RunFails \/ RunFindsNoRole
    \/ RunVerifies \/ \E k \in LateRuns : LateRunFails(k)
    \/ Engage \/ Disengage \/ Pause \/ Resume \/ AdminRetry
    \/ PostSetupAction \/ FoundryActs \/ PostAnswered
    \/ WorldStarts \/ WorldStops \/ SocketSignal

Spec == Init /\ [][Next]_vars

\* Timers fire, requests and attempts end, the socket delivers, runs end and long reads return.
FairSpec ==
    /\ Spec
    /\ WF_vars(RetryFires) /\ WF_vars(HeartbeatFires)
    /\ WF_vars(\E p \in core.probes : ProbeAnswers(p)) /\ WF_vars(\E p \in core.probes : ProbeSettles(p))
    /\ WF_vars(AttemptAnswered) /\ WF_vars(AttemptHandshake) /\ WF_vars(AttemptDiscovers)
    /\ WF_vars(AttemptBreaks) /\ WF_vars(AttemptConnects)
    /\ WF_vars(AttemptActive) /\ WF_vars(AttemptInactive) /\ WF_vars(AttemptTimesOut)
    /\ WF_vars(Signal) /\ WF_vars(RunVerifies) /\ WF_vars(RunSucceeds) /\ WF_vars(RunFindsNoRole)
    /\ WF_vars(\E k \in LateRuns : LateRunFails(k)) /\ WF_vars(Resume)
    /\ WF_vars(FoundryActs) /\ WF_vars(PostAnswered)

-----------------------------------------------------------------------------
(* Properties                                                              *)

\* Each variable has its type, and only a socket that is up has a signal to deliver.
TypeOK ==
    /\ core \in [lifecycle : Lifecycles, retained : BOOLEAN, title : Worlds \cup {None}, blind : BOOLEAN,
                 evidence : 0..1, reports : 0..2, retry : BOOLEAN, beat : BOOLEAN, probes : SUBSET Probes,
                 attempt : [pc : AttemptPcs, answer : Answers], up : BOOLEAN,
                 wire : {"none", "lost", "shutdown", "reload", "progress"},
                 run : BOOLEAN, late : SUBSET LateRuns, rejected : BOOLEAN, held : BOOLEAN, engaged : BOOLEAN, paused : BOOLEAN]
    /\ post \in [pc : {"none", "launch", "launched", "shutdown", "stopped"}, signalled : BOOLEAN]
    /\ native \in [world : Worlds \cup {None}, refusing : SUBSET Worlds]
    /\ events \in 0..MaxEvents
    /\ core.wire # "none" => core.up

\* Monitoring never stops: without a connection, and while a world is served, a timer, a
\* status request, an attempt or the end of a pause is still to come, whichever of them
\* replaced which (scheduleReconnect, startHeartbeat, runHeartbeat, onHeartbeatResumed).
MonitoringNeverStops ==
    ~core.up \/ core.lifecycle = "active" =>
        \/ core.retry \/ core.beat \/ core.paused
        \/ core.attempt.pc # "none"
        \/ \E p \in core.probes : p.fresh

\* A status request from before a confirmed launch or shutdown decides nothing after it: its
\* answer moves neither the lifecycle nor the evidence, and starts no connection (heartbeatEpoch).
ThePastDecidesNothing ==
    [][\A p \in core.probes :
          p.before /\ p \notin core'.probes /\ [p EXCEPT !.fresh = FALSE] \notin core'.probes =>
             /\ core'.lifecycle = core.lifecycle
             /\ core'.evidence = core.evidence
             /\ core'.attempt = core.attempt]_vars

Expected == IF native.world = None THEN "setup" ELSE IF native.world \in native.refusing THEN "closed" ELSE "active"

\* Once Foundry, administrators and browsers let it, Core settles in the lifecycle state that
\* Foundry's world calls for, unless a run failed where handleConnect retries nothing, also
\* for an earlier rejection, or it was closed without learning the world's name
\* (WorldTransportController, EngagementService).
SettlesWithFoundry ==
    <>[](core.held \/ (core.lifecycle = "closed" /\ core.blind) \/ core.lifecycle = Expected)

=============================================================================
