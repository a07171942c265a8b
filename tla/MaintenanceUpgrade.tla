------------------------- MODULE MaintenanceUpgrade -------------------------
(***************************************************************************)
(* A reviewed module upgrade under persistent maintenance                  *)
(* (MaintenanceController.ts, ModuleUpgradeCoordinator.ts,                 *)
(* AsyncUpgradeJournal.ts, UpgradeJournal.ts, startMaintenance.ts,         *)
(* firstApproval.ts): the durable mode record, the lease, the job and its  *)
(* receipts, the module's files, and the native writes to the world.       *)
(*                                                                         *)
(* Three coroutines share the maintenance process: the controller's work   *)
(* (plan, approve, resume), its cancellation and the connection poll.      *)
(* They meet in the journal's worker, which serves one call at a time in   *)
(* the order of the calls (`queue`): a step of a coroutine that waits for  *)
(* the journal is the call's effect with the code up to the next await.    *)
(* The process may die at any step; the call at the head of the queue has  *)
(* then taken effect, in part or not.                                      *)
(*                                                                         *)
(* One operation is followed, from the entry into maintenance to players   *)
(* being served again.  The lease's file steps are WorldLease's subject.   *)
(***************************************************************************)
EXTENDS Naturals, Sequences, FiniteSets

CONSTANTS
    N,               \* the approved operations are 1..N
    MaxApprovals,    \* approvals of the job: the first and the reviewed recoveries
    MaxCommands,     \* what administrators ask of the controller
    MaxCrashes, MaxCuts,  \* deaths of the process or the worker, lost connections
    MaxFailures      \* both together

ASSUME BoundsAreNats ==
    /\ {N, MaxApprovals, MaxCommands, MaxCrashes, MaxCuts, MaxFailures} \subseteq Nat
    /\ MaxApprovals > 0

VARIABLES
    durable,   \* what survives the process, see UpgradeInit
    world,     \* Foundry: the operations applied, and sent but not answered by it
    co,        \* the coroutines
    queue,     \* who waits for the journal's worker, in order
    proc,      \* the process
    events     \* events so far

upgradeVars == <<durable, world, co, queue, proc, events>>

Ops == 1..N
Coroutines == {"work", "poll", "cancel"}
Outcomes == {"none", "intent", "uncertain", "confirmed"}
Phases == {"none", "quiescing", "installing", "restarting", "migrating", "verifying",
           "recovery-required", "completed", "cancelled"}
Stages == {"entering", "isolated", "planning", "review", "executing", "recovery-required", "activating", "serving"}
Transitions == {"none", "intent", "previous-retained", "promoted", "registered"}

NoOutcome == [o \in Ops |-> "none"]

\* The metadata of a job; phase "none": no job was published.
NoMeta == [phase |-> "none", possibleWrite |-> FALSE, token |-> 0, transition |-> "none",
           approval |-> 1, plan |-> {}]
NoJob  == [meta |-> NoMeta, out |-> NoOutcome]
NoLease == [token |-> 0, pid |-> 0]
EnteredMode(drained) == [stage |-> "entering", bound |-> FALSE, intent |-> FALSE, token |-> 1,
                         drained |-> drained, preview |-> {}]

\* fresh: the last snapshot's source scope is still current.  sig: its call is subject to the work's signal.
\* refused: the journal's worker exited during its call.
Idle(mode) == [pc |-> "idle", op |-> "none", mode |-> mode, job |-> NoJob, fresh |-> FALSE,
               left |-> {}, batch |-> {}, sig |-> FALSE, refused |-> FALSE]
Asleep == Idle(EnteredMode(FALSE))

UpgradeInit ==
    \E drained \in BOOLEAN :
       /\ durable = [ mode |-> EnteredMode(drained),
                      job |-> NoMeta,                               \* jobs/<id>.json
                      receipts |-> [a \in 1..MaxApprovals |-> NoOutcome],
                      torn |-> FALSE,                               \* the receipts end in an incomplete line
                      lease |-> [token |-> 1, pid |-> 1], issued |-> 1,
                      target |-> "old",                             \* the module's directory
                      registry |-> "old" ]
       /\ world = [applied |-> {}, flying |-> {}]
       /\ co = [w \in Coroutines |-> Asleep]
       /\ queue = <<>>
       /\ proc = [ up |-> "entering", pid |-> 1, connected |-> FALSE, authority |-> FALSE,
                   configured |-> FALSE, \* the process has a world context
                   polled |-> FALSE,     \* this connection was taken over: epoch
                   retried |-> FALSE, aborted |-> FALSE, restarting |-> drained ]
       /\ events = [commands |-> 0, crashes |-> 0, cuts |-> 0,
                     stale |-> FALSE]     \* history: a save of the poll put an older job back

-----------------------------------------------------------------------------
\* The durable records.

MaintenanceOnly(m) == m.stage \notin {"activating", "serving"} \/ ~m.drained

Stage(d, s)       == [d EXCEPT !.mode.stage = s]
StageOf(d, m, s)  == [d EXCEPT !.mode = [m EXCEPT !.stage = s]]
RecoveryRequired(d) == Stage(d, "recovery-required")

ReadJob(d) == [meta |-> d.job, out |-> d.receipts[d.job.approval]]

\* The receipts first, by difference: a key the saver does not hold keeps its last line.
SaveReceipts(d, j) ==
    [d EXCEPT !.receipts[j.meta.approval] = [o \in Ops |-> IF j.out[o] = "none" THEN @[o] ELSE j.out[o]]]
Save(d, j) == [SaveReceipts(d, j) EXCEPT !.job = j.meta]

\* What a save cut short may leave behind.
Landings(d, j) ==
    {d, SaveReceipts(d, j), Save(d, j)}
        \cup IF SaveReceipts(d, j) = d THEN {} ELSE {[d EXCEPT !.torn = TRUE]}

\* The poll saves the job it read one call before: others may have saved a newer one since.
Older(w) == co[w].pc = "p_save" /\ [co[w].job EXCEPT !.meta.token = durable.job.token] # ReadJob(durable)
OlderLands == queue # <<>> /\ Older(Head(queue))

Held(d, token) == token # 0 /\ d.lease = [token |-> token, pid |-> proc.pid]
\* Nobody holds it, or a process that died.
Acquirable(d)  == d.lease.token = 0 \/ d.lease.pid # proc.pid
TakeLease(d)     == [d EXCEPT !.issued = @ + 1, !.lease = [token |-> d.issued + 1, pid |-> proc.pid]]
DropLease(d)     == [d EXCEPT !.lease = NoLease]

\* First approval: the provisional intent is bound to the job it published, or dropped.
Settles(d) ==
    /\ d.mode.intent
    /\ \/ d.job.phase = "none" /\ ~d.mode.bound
       \/ /\ d.job.phase = "quiescing" /\ ~d.job.possibleWrite /\ d.job.transition = "none"
          /\ d.job.token = d.mode.token
Settled(d) == [d EXCEPT !.mode.intent = FALSE, !.mode.bound = d.job.phase # "none"]

-----------------------------------------------------------------------------
\* The coroutines and the journal's worker.

SavePcs == {"ap_save", "ap_install", "ap_intent", "ap_retained", "ap_promoted", "ap_registered", "ap_restart",
            "ra_save", "rs_save", "r_lease", "r_restart", "r_migrating", "r_intent", "r_confirm", "r_verifying",
            "r_completed", "e_save", "f_save", "p_save", "c_lease", "c_fsave", "c_fence", "c_cancelled"}
JournalPcs == SavePcs \cup
    {"w_reconcile", "pl_read", "pl_save", "ap_read", "ap_recover", "ra_read", "rs_read", "r_job", "r_loop",
     "e_read", "f_read", "ex_done", "p_reconcile", "p_lease", "p_job",
     "c_reconcile", "c_job", "c_preview", "c_fread"}
NetworkPcs == {"pl_preview", "ap_snapshot", "ra_snapshot", "r_snapshot", "r_source", "r_send", "r_readback", "r_check",
               "p_connect", "p_seed"}

\* Calls that recover what an aborted computation left are not subject to its signal.
Unsignalled == {"w_reconcile", "ap_recover", "p_reconcile", "c_reconcile"}

\* Who is served and steps leaves the queue; one that now waits for the journal joins its end.
Turn(d, cs, stepped) ==
    LET calling == {w \in stepped : cs[w].pc \in JournalPcs}
        signal  == cs["work"].pc # "idle"
        waiting == IF queue # <<>> /\ Head(queue) \in stepped THEN Tail(queue) ELSE queue
    IN /\ durable' = d
       /\ co' = [w \in Coroutines |-> IF w \in calling THEN [cs[w] EXCEPT !.sig = signal /\ w = "poll", !.refused = FALSE] ELSE cs[w]]
       /\ queue' = IF calling = {} THEN waiting ELSE Append(waiting, CHOOSE w \in calling : TRUE)

Signalled(w) == proc.aborted /\ co[w].pc \notin Unsignalled /\ (w = "work" \/ co[w].sig)
Refuses(w)    == durable.torn \/ Signalled(w) \/ co[w].refused
Served(w, pc) == co[w].pc = pc /\ Head(queue) = w /\ ~Refuses(w)
Rejected(w)   == queue # <<>> /\ Head(queue) = w /\ Refuses(w)
At(w, pc)     == co[w].pc = pc

Wj == co["work"].job
To(pc, job) == [co["work"] EXCEPT !.pc = pc, !.job = job]
Phase(j, p) == [j EXCEPT !.meta.phase = p]
Transition(j, t) == [j EXCEPT !.meta.transition = t]
Mark(j, ops, state) == [j EXCEPT !.out = [o \in Ops |-> IF o \in ops THEN state ELSE @[o]]]

\* One step of the work: the durable state, its next local state, nothing else of the process.
Step(d, local) == Turn(d, [co EXCEPT !["work"] = local], {"work"}) /\ UNCHANGED <<world, proc, events>>

\* MaintenanceController.work's catch and finally.
WorkFails(d) ==
    /\ Turn(RecoveryRequired(d), [co EXCEPT !["work"] = Asleep], {"work"})
    /\ proc' = [proc EXCEPT !.aborted = FALSE]
    /\ UNCHANGED <<world, events>>

\* ModuleUpgradeCoordinator's catch: fail reads the job again.  An aborted computation cannot.
Fail(d) == IF proc.aborted THEN WorkFails(d) ELSE Step(d, To("f_read", Wj))

Fence(d, j) ==
    /\ Held(d, j.meta.token)
    /\ d.job.approval = j.meta.approval
    /\ d.job.phase \notin {"none", "completed", "cancelled", "recovery-required"}
    /\ proc.authority /\ ~proc.aborted
Current == co["work"].fresh /\ proc.authority /\ ~proc.aborted

\* A network await: a snapshot under way belongs to the current source scope until that changes.
Snapshot(pc, j) == [co["work"] EXCEPT !.pc = pc, !.job = j, !.fresh = proc.authority /\ proc.configured]

-----------------------------------------------------------------------------
\* The controller's commands: MaintenanceController.work up to its first call.

Started(op, d, pc) == [d |-> d, w |-> [Asleep EXCEPT !.op = op, !.pc = pc, !.mode = d.mode]]
Refusal(d) == [d |-> RecoveryRequired(d), w |-> Asleep]

Begin(op, d) ==
    LET m == d.mode
        executing == Stage(d, "executing")
    IN CASE ~m.drained -> Refusal(d)
         [] op = "plan" /\ m.drained -> Started(op, d, "pl_read")
         [] op = "approve" /\ m.drained /\ m.stage = "review" ->
                Started(op, executing, IF m.bound THEN "ra_read" ELSE "ap_read")
         [] op = "resume" /\ m.drained /\ m.bound -> Started(op, d, "rs_read")
         [] OTHER -> Refusal(d)

\* With an approval unsettled the work reconciles it first.
Working(op, d) == IF d.mode.intent THEN Started(op, d, "w_reconcile") ELSE Begin(op, d)

Free == At("work", "idle") /\ At("cancel", "idle") /\ MaintenanceOnly(durable.mode)

Command(op) ==
    /\ proc.up = "maintenance" /\ events.commands < MaxCommands
    /\ Free
    /\ op = "approve" => durable.mode.stage = "review"    \* the route's 409
    /\ op = "resume" => durable.mode.bound
    /\ LET b == Working(op, durable)
       IN Turn(b.d, [co EXCEPT !["work"] = b.w], {"work"})
    /\ events' = [events EXCEPT !.commands = @ + 1]
    /\ UNCHANGED <<world, proc>>

WorkReconcile ==
    /\ Served("work", "w_reconcile")
    /\ IF Settles(durable)
       THEN LET b == Begin(co["work"].op, Settled(durable)) IN Step(b.d, b.w)
       ELSE WorkFails(durable)

-----------------------------------------------------------------------------
\* plan: the complete review after isolation; of a stopped job, its recovery review.

PlanRead ==
    /\ Served("work", "pl_read")
    /\ IF co["work"].mode.bound /\ durable.job.phase # "recovery-required"
       THEN WorkFails(durable)
       ELSE Step(StageOf(durable, co["work"].mode, "planning"), Snapshot("pl_preview", NoJob))

PlanPreview ==
    /\ At("work", "pl_preview")
    /\ \/ Current /\ Step(durable, [To("pl_save", NoJob) EXCEPT !.batch = Ops \ world.applied])
       \/ WorkFails(durable)

PlanSaved ==
    /\ Served("work", "pl_save")
    /\ IF Current
       THEN Step([durable EXCEPT !.mode.preview = co["work"].batch, !.mode.stage = "review"], Asleep)
       ELSE WorkFails(durable)

-----------------------------------------------------------------------------
\* approve: publish the first job under the maintenance lease, then promote the files.

FirstJob(d) ==
    [meta |-> [phase |-> "quiescing", possibleWrite |-> FALSE, token |-> d.mode.token, transition |-> "none",
               approval |-> 1, plan |-> d.mode.preview],
     out |-> NoOutcome]

\* createHostUpgradeCoordinator's acquireLease: the mode's own lease, or a takeover the mode records.
ModeLease(d) == IF Held(d, d.mode.token) THEN d ELSE LET a == TakeLease(d) IN [a EXCEPT !.mode.token = a.issued]

ApproveRead ==
    /\ Served("work", "ap_read")
    /\ LET d == ModeLease(durable)
       IN IF durable.job.phase # "none" \/ durable.mode.bound \/ durable.mode.intent
             \/ durable.mode.stage # "executing" \/ ~(Held(durable, durable.mode.token) \/ Acquirable(durable))
          THEN WorkFails(durable)
          ELSE Step([d EXCEPT !.mode.intent = TRUE], To("ap_save", FirstJob(d)))

ApproveSaved ==
    /\ Served("work", "ap_save")
    /\ LET d == Save(durable, Wj)
       IN IF Settles(d) THEN Step(Settled(d), Snapshot("ap_snapshot", Wj))
                        ELSE Step(d, To("ap_recover", Wj))

\* Fault: a save that was not acknowledged is taken for one that did not happen.
UnacknowledgedIsUnpublished ==
    /\ Rejected("work") /\ At("work", "ap_save")
    /\ WorkFails([durable EXCEPT !.mode.intent = FALSE])

ApproveUnacknowledged ==
    /\ Rejected("work") /\ At("work", "ap_save")
    /\ Step(durable, To("ap_recover", Wj))

\* The readback decides whether the approval was published; it may fail too, and so does the command.
ApproveRecover ==
    /\ Served("work", "ap_recover")
    /\ WorkFails(durable) \/ WorkFails(IF Settles(durable) THEN Settled(durable) ELSE durable)

ApproveSnapshot ==
    /\ At("work", "ap_snapshot")
    /\ IF Fence(durable, Wj) /\ Current /\ Wj.meta.plan = Ops \ world.applied
       THEN Step(durable, To("ap_install", Phase(Wj, "installing")))
       ELSE Fail(durable)

Installing ==
    /\ Served("work", "ap_install")
    /\ LET d == Save(durable, Wj)
       IN IF Fence(d, Wj) /\ Current THEN Step(d, To("ap_intent", Transition(Wj, "intent"))) ELSE Fail(d)

\* promotePreparedModuleArchive: each rename follows the journal's answer.
RetainPrevious ==
    /\ Served("work", "ap_intent")
    /\ Step([Save(durable, Wj) EXCEPT !.target = "gone"], To("ap_retained", Transition(Wj, "previous-retained")))

PromoteCandidate ==
    /\ Served("work", "ap_retained")
    /\ \/ Step([Save(durable, Wj) EXCEPT !.target = "new"], To("ap_promoted", Transition(Wj, "promoted")))
       \/ Fail([Save(durable, Wj) EXCEPT !.target = "old"])    \* the rename fails: the previous files come back

RegisterCandidate ==
    /\ Served("work", "ap_promoted")
    /\ \/ Step([Save(durable, Wj) EXCEPT !.registry = "new"], To("ap_registered", Transition(Wj, "registered")))
       \/ Fail(Save(durable, Wj))

Promoted ==
    /\ Served("work", "ap_registered")
    /\ LET d == Save(durable, Wj)
       IN IF Fence(d, Wj) THEN Step(d, To("ap_restart", Phase(Wj, "restarting"))) ELSE Fail(d)

\* restart is a no-op under the controller: it executes the job itself.
Approved ==
    /\ Served("work", "ap_restart")
    /\ Step(Save(durable, Wj), To("r_job", Wj))

-----------------------------------------------------------------------------
\* reapprove: a fresh plan for a stopped job.  The ledger of its writes is kept.

ReapproveRead ==
    /\ Served("work", "ra_read")
    /\ LET j == ReadJob(durable)
       IN IF j.meta.phase # "recovery-required" \/ j.meta.approval = MaxApprovals
             \/ ~(Held(durable, j.meta.token) \/ Acquirable(durable))
          THEN WorkFails(durable)
          ELSE IF Held(durable, j.meta.token) THEN Step(durable, Snapshot("ra_snapshot", j))
          ELSE LET d == TakeLease(durable) IN Step(d, Snapshot("ra_snapshot", [j EXCEPT !.meta.token = d.issued]))

ReapproveSnapshot ==
    /\ At("work", "ra_snapshot")
    /\ IF Current /\ Held(durable, Wj.meta.token) /\ co["work"].mode.preview = Ops \ world.applied
       THEN Step(durable, To("ra_save",
                [meta |-> [Wj.meta EXCEPT !.approval = @ + 1, !.plan = co["work"].mode.preview, !.phase = "restarting"],
                 out |-> NoOutcome]))
       ELSE WorkFails(durable)

Reapproved ==
    /\ Served("work", "ra_save")
    /\ Step(Save(durable, Wj), To("r_job", Wj))

-----------------------------------------------------------------------------
\* resume: the controller clears a recovery, then executes the approved job.

ResumeRead ==
    /\ Served("work", "rs_read")
    /\ LET j == ReadJob(durable)
       IN IF j.meta.phase = "recovery-required"
          THEN Step(durable, To("rs_save", Phase(j, "restarting")))
          ELSE Step(StageOf(durable, co["work"].mode, "executing"), To("r_job", NoJob))

ResumeSaved ==
    /\ Served("work", "rs_save")
    /\ Step(StageOf(Save(durable, Wj), co["work"].mode, "executing"), To("r_job", NoJob))

-----------------------------------------------------------------------------
\* ModuleUpgradeCoordinator.resume: the approved job, operation by operation.

\* What may run: files fully registered, and no standing recovery.
Runs(d, j) ==
    IF j.meta.transition # "registered" THEN Fail(d)
    ELSE IF j.meta.phase = "recovery-required" THEN Step(d, To("r_restart", Phase(j, "restarting")))
    ELSE IF Fence(d, j) THEN Step(d, Snapshot("r_snapshot", j))
    ELSE Fail(d)

RunnerRead ==
    /\ Served("work", "r_job")
    /\ LET j == ReadJob(durable)
           d == TakeLease(durable)
       IN IF durable.target # "new" THEN WorkFails(durable)     \* installedUpgradeCandidate
          ELSE IF j.meta.phase \in {"completed", "cancelled"} THEN Step(durable, To("ex_done", j))
          ELSE IF Held(durable, j.meta.token) THEN Runs(durable, j)
          ELSE IF Acquirable(durable) THEN Step(d, To("r_lease", [j EXCEPT !.meta.token = d.issued]))
          ELSE Fail(durable)

RunnerOwns ==
    /\ Served("work", "r_lease")
    /\ Runs(Save(durable, Wj), Wj)

RunnerRestarts ==
    /\ Served("work", "r_restart")
    /\ LET d == Save(durable, Wj)
       IN IF Fence(d, Wj) THEN Step(d, Snapshot("r_snapshot", Wj)) ELSE Fail(d)

RunnerSnapshot ==
    /\ At("work", "r_snapshot")
    /\ IF Current /\ Fence(durable, Wj)
       THEN Step(durable, To("r_migrating", Phase(Wj, "migrating")))
       ELSE Fail(durable)

\* The top of the loop: fence, then read what other administrators' actions wrote.
Loop(d, j, left) ==
    IF left = {}
    THEN Step(d, To("r_verifying", Phase(j, "verifying")))
    ELSE IF Fence(d, j) THEN Step(d, [To("r_loop", j) EXCEPT !.left = left])
    ELSE Fail(d)

Migrating ==
    /\ Served("work", "r_migrating")
    /\ Loop(Save(durable, Wj), Wj, Wj.meta.plan)

LoopRead ==
    /\ Served("work", "r_loop")
    /\ LET j == ReadJob(durable)
       IN IF Fence(durable, j) THEN Step(durable, Snapshot("r_source", j)) ELSE Fail(durable)

\* The operations one native update may carry: from the next one on, none of them tried before.
Batches(left, j) ==
    LET first == CHOOSE o \in left : \A p \in left : o <= p
    IN IF j.out[first] # "none" THEN {{first}}
       ELSE {b \in SUBSET {o \in left : j.out[o] = "none"} :
                first \in b /\ \A o \in b, p \in left : p < o => p \in b}

\* Fault: of a batch only the first operation is recorded.
IntentOfFirst(j, b) == [Mark(j, {CHOOSE o \in b : \A p \in b : o <= p}, "intent") EXCEPT !.meta.possibleWrite = TRUE]

Intents(j, b) == [Mark(j, b, "intent") EXCEPT !.meta.possibleWrite = TRUE]

\* An operation tried before is confirmed by its readback or, when the world is still as approved, sent again.
SourceRead ==
    /\ At("work", "r_source")
    /\ IF ~(Current /\ Fence(durable, Wj)) THEN Fail(durable)
       ELSE \E b \in Batches(co["work"].left, Wj) :
              LET landed == b \cap world.applied
                  tried  == \E o \in b : Wj.out[o] # "none"
                  confirmed == \E o \in b : Wj.out[o] = "confirmed"
                  next(pc, j) == [To(pc, j) EXCEPT !.batch = b]
              IN IF tried /\ landed = b THEN Step(durable, next("r_confirm", Mark(Wj, b, "confirmed")))
                 ELSE IF landed # {} \/ confirmed THEN Fail(durable)
                 ELSE Step(durable, next("r_intent", Intents(Wj, b)))

\* A send that was refused or not acknowledged is uncertain: a single one by the latest
\* job, a batch by the job in hand.
SendFailed(d) ==
    IF proc.aborted THEN WorkFails(d)
    ELSE IF Cardinality(co["work"].batch) = 1 THEN Step(d, To("e_read", Wj))
    ELSE Step(d, To("e_save", Mark(Wj, co["work"].batch, "uncertain")))

\* The fence is checked in the turn of the send itself (withMaintenanceDispatch).
Send ==
    /\ Served("work", "r_intent")
    /\ LET d == Save(durable, Wj)
       IN IF Fence(d, Wj) /\ Current
          THEN /\ Turn(d, [co EXCEPT !["work"] = To("r_send", Wj)], {"work"})
               /\ world' = [world EXCEPT !.flying = @ \cup co["work"].batch]
               /\ UNCHANGED <<proc, events>>
          ELSE IF Cardinality(co["work"].batch) = 1 /\ ~Fence(d, Wj) THEN Fail(d)
          ELSE SendFailed(d)

Acknowledged ==
    /\ At("work", "r_send")
    /\ proc.connected
    /\ co["work"].batch \subseteq world.applied \ world.flying
    /\ Step(durable, Snapshot("r_readback", Wj))

Unacknowledged ==
    /\ At("work", "r_send")
    /\ SendFailed(durable)

UncertainRead ==
    /\ Served("work", "e_read")
    /\ LET j == ReadJob(durable)
       IN Step(durable, To("e_save", Mark(j, {o \in co["work"].batch : j.out[o] # "none"}, "uncertain")))

UncertainSaved ==
    /\ Served("work", "e_save")
    /\ Fail(Save(durable, Wj))

Readback ==
    /\ At("work", "r_readback")
    /\ IF Current /\ Fence(durable, Wj) /\ co["work"].batch \subseteq world.applied
       THEN Step(durable, To("r_confirm", Mark(Wj, co["work"].batch, "confirmed")))
       ELSE Fail(durable)

Confirmed ==
    /\ Served("work", "r_confirm")
    /\ Loop(Save(durable, Wj), Wj, co["work"].left \ co["work"].batch)

Verifying ==
    /\ Served("work", "r_verifying")
    /\ Step(Save(durable, Wj), Snapshot("r_check", Wj))

\* Full readback, fresh preparation and activation of the new runtime token.
Verified ==
    /\ At("work", "r_check")
    /\ IF Current /\ Fence(durable, Wj) /\ Wj.meta.plan \subseteq world.applied
       THEN Step(durable, To("r_completed", Phase(Wj, "completed")))
       ELSE Fail(durable)

\* A migration or verify hook, a check or the preparation refuses.
HookFails ==
    /\ co["work"].pc \in {"r_source", "r_readback", "r_check"}
    /\ Fail(durable)

\* The source may have changed during the save: the lease and the gate are kept then.
Completed ==
    /\ Served("work", "r_completed")
    /\ LET d == Save(durable, Wj)
       IN IF Current /\ Held(d, Wj.meta.token) THEN Step(DropLease(d), To("ex_done", Wj)) ELSE Fail(d)

Executed ==
    /\ Served("work", "ex_done")
    /\ IF durable.job.phase = "completed"
       THEN /\ Turn(Stage(durable, "activating"), [co EXCEPT !["work"] = Asleep], {"work"})
            /\ proc' = [proc EXCEPT !.aborted = FALSE, !.restarting = TRUE]
            /\ UNCHANGED <<world, events>>
       ELSE WorkFails(durable)

\* ModuleUpgradeCoordinator.fail: a stop that was already recorded is left alone.
FailRead ==
    /\ Served("work", "f_read")
    /\ IF durable.job.phase \in {"cancelled", "recovery-required"}
       THEN WorkFails(durable)
       ELSE Step(durable, To("f_save", Phase(ReadJob(durable), "recovery-required")))

FailSaved ==
    /\ Served("work", "f_save")
    /\ WorkFails(Save(durable, Wj))

\* Fault: the abort stops the worker and answers nobody.
RejectedUnlessAborted ==
    /\ Rejected("work") /\ ~At("work", "ap_save") /\ ~Signalled("work")
    /\ WorkFails(durable)

\* The journal refuses the call: it was aborted, or the receipts end in a torn line.
WorkRejected ==
    /\ Rejected("work") /\ ~At("work", "ap_save")
    /\ WorkFails(durable)

-----------------------------------------------------------------------------
\* startMaintenance's poll: reconcile, connect, take the lease over, kick the work once.

Pm == co["poll"].mode
PollTo(d, local) == Turn(d, [co EXCEPT !["poll"] = local], {"poll"})
PollFails(d) == PollTo(RecoveryRequired(d), Asleep) /\ UNCHANGED <<world, proc, events>>

Poll ==
    /\ proc.up = "maintenance" /\ At("poll", "idle")
    /\ durable.mode.intent \/ ~proc.connected \/ ~proc.polled
    /\ PollTo(durable, [Idle(durable.mode) EXCEPT !.pc = IF durable.mode.intent THEN "p_reconcile" ELSE "p_connect"])
    /\ UNCHANGED <<world, proc, events>>

PollReconcile ==
    /\ Served("poll", "p_reconcile")
    /\ IF Settles(durable) /\ durable.mode.token = Pm.token
       THEN /\ PollTo(Settled(durable), [Asleep EXCEPT !.pc = "p_connect"])
            /\ UNCHANGED <<world, proc, events>>
       ELSE PollFails(durable)

PollConnect ==
    /\ At("poll", "p_connect")
    /\ \/ /\ PollTo(durable, [Asleep EXCEPT !.pc = "p_seed"])
          /\ proc' = IF proc.connected THEN proc
                     ELSE [proc EXCEPT !.connected = TRUE, !.authority = TRUE, !.polled = FALSE]
          /\ UNCHANGED <<world, events>>
       \/ ~proc.connected /\ PollFails(durable)

\* Users, settings and the world context are seeded anew: a snapshot under way is no longer current.
PollSeed ==
    /\ At("poll", "p_seed")
    /\ IF proc.connected
       THEN /\ Turn(durable, [co EXCEPT !["poll"] = [Idle(durable.mode) EXCEPT !.pc = "p_lease"],
                                        !["work"].fresh = FALSE], {"poll"})
            /\ proc' = [proc EXCEPT !.configured = TRUE]
            /\ UNCHANGED <<world, events>>
       ELSE PollFails(durable)

\* Takes over a dead process's lease, and saves the mode it read before that call.
PollLease ==
    /\ Served("poll", "p_lease")
    /\ LET a == TakeLease(durable)
           m == [Pm EXCEPT !.token = a.issued]
           next(d, mode) == PollTo(d, [Idle(mode) EXCEPT !.pc = IF mode.bound THEN "p_job" ELSE "p_kick"])
                              /\ UNCHANGED <<world, proc, events>>
       IN IF Held(durable, Pm.token) THEN next(durable, Pm)
          ELSE IF Acquirable(durable) THEN next([a EXCEPT !.mode = m], m)
          ELSE PollFails(durable)

PollJob ==
    /\ Served("poll", "p_job")
    /\ LET j == [ReadJob(durable) EXCEPT !.meta.token = Pm.token]
       IN IF Held(durable, Pm.token)
          THEN PollTo(durable, [co["poll"] EXCEPT !.pc = "p_save", !.job = j]) /\ UNCHANGED <<world, proc, events>>
          ELSE PollFails(durable)

\* Once per process the interrupted work is taken up again.
Kick(d) ==
    LET b == Working(IF d.mode.bound THEN "resume" ELSE "plan", d)
        kicks == ~proc.retried /\ d.mode.stage \in {"entering", "isolated", "planning", "executing"}
        free == At("work", "idle") /\ At("cancel", "idle") /\ MaintenanceOnly(d.mode)
    IN /\ IF kicks /\ free THEN Turn(b.d, [co EXCEPT !["poll"] = Asleep, !["work"] = b.w], {"poll", "work"})
                           ELSE PollTo(d, Asleep)
       /\ proc' = [proc EXCEPT !.polled = proc.connected, !.retried = @ \/ kicks]
       /\ events' = [events EXCEPT !.stale = @ \/ Older("poll")]
       /\ UNCHANGED world

\* The verified owner is written into the job read one call before.
PollSave ==
    /\ Served("poll", "p_save")
    /\ Kick(Save(durable, co["poll"].job))

PollUnbound ==
    /\ At("poll", "p_kick")
    /\ Kick(durable)

PollRejected ==
    /\ Rejected("poll")
    /\ PollFails(durable)

-----------------------------------------------------------------------------
\* MaintenanceController.cancel, with ModuleUpgradeCoordinator.cancel and rollbackUpgradeFiles.

Cm == co["cancel"].mode
Cj == co["cancel"].job
CancelTo(d, local) == Turn(d, [co EXCEPT !["cancel"] = local], {"cancel"}) /\ UNCHANGED <<world, proc, events>>
CancelFails(d) == CancelTo(RecoveryRequired(d), Asleep)

\* Fault: a stopped job is released whatever it may have written.
StoppedIsReleased(d, possibleWrite) ==
    /\ Turn(StageOf(d, Cm, "activating"), [co EXCEPT !["cancel"] = Asleep], {"cancel"})
    /\ proc' = [proc EXCEPT !.restarting = TRUE]
    /\ UNCHANGED <<world, events>>

\* A job stopped after a possible write stays in recovery; otherwise the runtime is replaced.
Stopped(d, possibleWrite) ==
    IF possibleWrite THEN CancelTo(StageOf(d, Cm, "recovery-required"), Asleep)
    ELSE /\ Turn(StageOf(d, Cm, "activating"), [co EXCEPT !["cancel"] = Asleep], {"cancel"})
         /\ proc' = [proc EXCEPT !.restarting = TRUE]
         /\ UNCHANGED <<world, events>>

\* The abort may cut the call in service short; its effect is then unknown.
InService ==
    LET w == Head(queue)
    IN IF queue # <<>> /\ co[w].pc \in SavePcs /\ (w = "work" \/ co[w].sig)
       THEN Landings(durable, co[w].job) ELSE {durable}

CancelReads(d) ==
    IF d.mode.drained
    THEN CancelTo(d, [Idle(d.mode) EXCEPT !.pc = IF d.mode.bound THEN "c_job" ELSE "c_preview"])
    ELSE CancelFails(d)
CancelBegins ==
    IF durable.mode.intent THEN CancelTo(durable, [Asleep EXCEPT !.pc = "c_reconcile"]) ELSE CancelReads(durable)

Cancel ==
    /\ proc.up = "maintenance" /\ events.commands < MaxCommands /\ At("cancel", "idle")
    /\ events' = [events EXCEPT !.commands = @ + 1, !.stale = @ \/ OlderLands]
    /\ UNCHANGED world
    /\ IF ~durable.mode.drained
       THEN Turn(RecoveryRequired(durable), co, {}) /\ UNCHANGED proc
       ELSE /\ \E d \in IF At("work", "idle") THEN {durable} ELSE InService :
                  Turn(d, [co EXCEPT !["cancel"] = [Asleep EXCEPT !.pc = "c_wait"]], {"cancel"})
            /\ proc' = [proc EXCEPT !.aborted = ~At("work", "idle")]

\* The aborted work is awaited before anything is read.
CancelWaits ==
    /\ At("cancel", "c_wait") /\ At("work", "idle")
    /\ CancelBegins

CancelReconcile ==
    /\ Served("cancel", "c_reconcile")
    /\ IF Settles(durable) THEN CancelReads(Settled(durable)) ELSE CancelFails(durable)

\* No job: the operation's own lease is released.
CancelUnbound ==
    /\ Served("cancel", "c_preview")
    /\ IF Held(durable, Cm.token) \/ Acquirable(durable) THEN Stopped(DropLease(durable), FALSE)
       ELSE CancelFails(durable)

\* Fault: the files go back as long as no write was confirmed.
RollBackUnconfirmed(d, j) ==
    LET confirmed == \E o \in Ops : j.out[o] = "confirmed"
    IN CancelTo(d, [co["cancel"] EXCEPT !.pc = IF confirmed THEN "c_fread" ELSE "c_fence",
                     !.job = IF confirmed THEN j ELSE Phase(j, "recovery-required")])

\* Before any possible write the files go back; after one, scheduling stops.
CancelDecides(d, j) ==
    CancelTo(d, [co["cancel"] EXCEPT !.pc = IF j.meta.possibleWrite THEN "c_fread" ELSE "c_fence",
                     !.job = IF j.meta.possibleWrite THEN j ELSE Phase(j, "recovery-required")])

CancelJob ==
    /\ Served("cancel", "c_job")
    /\ LET j == ReadJob(durable)
           d == TakeLease(durable)
       IN IF j.meta.phase \in {"completed", "cancelled"} THEN Stopped(durable, j.meta.possibleWrite)
          ELSE IF Held(durable, j.meta.token) THEN CancelDecides(durable, j)
          ELSE IF Acquirable(durable)
               THEN CancelTo(d, [co["cancel"] EXCEPT !.pc = "c_lease", !.job = [j EXCEPT !.meta.token = d.issued]])
          ELSE CancelFails(durable)

CancelOwns ==
    /\ Served("cancel", "c_lease")
    /\ CancelDecides(Save(durable, Cj), Cj)

CancelFailRead ==
    /\ Served("cancel", "c_fread")
    /\ IF durable.job.phase \in {"completed", "cancelled", "recovery-required"}
       THEN Stopped(durable, TRUE)
       ELSE CancelTo(durable, [co["cancel"] EXCEPT !.pc = "c_fsave", !.job = Phase(ReadJob(durable), "recovery-required")])

CancelFailSaved ==
    /\ Served("cancel", "c_fsave")
    /\ Stopped(Save(durable, Cj), TRUE)

RollBackFiles(d, j) == IF j.meta.transition = "none" THEN d ELSE [d EXCEPT !.target = "old", !.registry = "old"]

CancelFenced ==
    /\ Served("cancel", "c_fence")
    /\ CancelTo(RollBackFiles(Save(durable, Cj), Cj), [co["cancel"] EXCEPT !.pc = "c_cancelled", !.job = Phase(Cj, "cancelled")])

Cancelled ==
    /\ Served("cancel", "c_cancelled")
    /\ LET d == Save(durable, Cj)
       IN IF Held(d, Cj.meta.token) THEN Stopped(DropLease(d), FALSE) ELSE CancelFails(d)

CancelRejected ==
    /\ Rejected("cancel")
    /\ CancelFails(durable)

-----------------------------------------------------------------------------
\* The process: drain of the normal runtime, death, supervised replacement, normal serving.

Drained ==
    /\ proc.up = "entering" /\ ~durable.mode.drained /\ ~proc.restarting
    /\ durable' = [durable EXCEPT !.mode.drained = TRUE]
    /\ proc' = [proc EXCEPT !.restarting = TRUE]
    /\ UNCHANGED <<world, co, queue, events>>

DrainTimesOut ==
    /\ proc.up = "entering" /\ ~durable.mode.drained /\ ~proc.restarting
    /\ durable' = RecoveryRequired(durable)
    /\ proc' = [proc EXCEPT !.restarting = TRUE]
    /\ UNCHANGED <<world, co, queue, events>>

Dies ==
    /\ proc.up # "down"
    /\ durable' \in IF queue # <<>> /\ co[Head(queue)].pc \in SavePcs
                    THEN Landings(durable, co[Head(queue)].job) ELSE {durable}
    /\ co' = [w \in Coroutines |-> Asleep]
    /\ queue' = <<>>
    /\ proc' = [proc EXCEPT !.up = "down", !.connected = FALSE, !.authority = FALSE, !.configured = FALSE, !.polled = FALSE,
                            !.retried = FALSE, !.aborted = FALSE, !.restarting = FALSE]
    /\ UNCHANGED world

MayFail == events.crashes + events.cuts < MaxFailures
MayDie  == MayFail /\ events.crashes < MaxCrashes

\* AsyncUpgradeJournal's exited: the call in service is refused, whatever it has written.
WorkerExits ==
    /\ queue # <<>> /\ ~Rejected(Head(queue)) /\ MayDie
    /\ events' = [events EXCEPT !.crashes = @ + 1, !.stale = @ \/ OlderLands]
    /\ durable' \in IF co[Head(queue)].pc \in SavePcs THEN Landings(durable, co[Head(queue)].job) ELSE {durable}
    /\ co' = [co EXCEPT ![Head(queue)].refused = TRUE]
    /\ UNCHANGED <<world, queue, proc>>

Crash ==
    /\ Dies /\ MayDie
    /\ events' = [events EXCEPT !.crashes = @ + 1, !.stale = @ \/ OlderLands]
Restart ==
    /\ proc.restarting /\ Dies
    /\ events' = [events EXCEPT !.stale = @ \/ OlderLands]

\* restoreUpgradeMaintenance reclaims the lease of a completed job.
RestoreUpgradeMaintenance(d) == IF ~d.torn /\ d.job.phase = "completed" THEN DropLease(d) ELSE d
\* cycleServices records the isolation, restoreLegacyMaintenanceMode settles a first approval.
RestoreMode(d) ==
    LET i == IF d.mode.stage = "entering" THEN Stage(d, "isolated") ELSE d
    IN IF ~i.mode.intent THEN i ELSE IF Settles(i) /\ ~i.torn THEN Settled(i) ELSE RecoveryRequired(i)

Boot ==
    /\ proc.up = "down"
    /\ LET d == RestoreMode(RestoreUpgradeMaintenance(durable))
       IN /\ durable' = d
          /\ proc' = [proc EXCEPT !.up = IF MaintenanceOnly(d.mode) THEN "maintenance" ELSE "normal", !.pid = @ + 1]
    /\ UNCHANGED <<world, co, queue, events>>

\* world:ready, once the normal bootstrap finds no pending job.
WorldReady ==
    /\ proc.up = "normal" /\ durable.mode.stage = "activating"
    /\ durable.job.phase \in {"none", "completed", "cancelled"} /\ ~durable.torn
    /\ durable' = Stage(durable, "serving")
    /\ UNCHANGED <<world, co, queue, proc, events>>

-----------------------------------------------------------------------------
\* Foundry: a message sent is applied or lost, even when its sender died.

Applied(o) ==
    /\ o \in world.flying
    /\ world' = [applied |-> world.applied \cup {o}, flying |-> world.flying \ {o}]
    /\ UNCHANGED <<durable, co, queue, proc, events>>

Lost(o) ==
    /\ o \in world.flying
    /\ world' = [world EXCEPT !.flying = @ \ {o}]
    /\ UNCHANGED <<durable, co, queue, proc, events>>

\* serviceAccountAuthority retires with the connection.
Disconnect ==
    /\ proc.connected /\ MayFail /\ events.cuts < MaxCuts
    /\ events' = [events EXCEPT !.cuts = @ + 1]
    /\ proc' = [proc EXCEPT !.connected = FALSE, !.authority = FALSE]
    /\ co' = [co EXCEPT !["work"].fresh = FALSE]
    /\ UNCHANGED <<durable, world, queue>>

WorkSteps ==
    \/ WorkReconcile \/ PlanRead \/ PlanPreview \/ PlanSaved
    \/ ApproveRead \/ ApproveSaved \/ ApproveUnacknowledged \/ ApproveRecover \/ ApproveSnapshot
    \/ Installing \/ RetainPrevious \/ PromoteCandidate \/ RegisterCandidate \/ Promoted \/ Approved
    \/ ReapproveRead \/ ReapproveSnapshot \/ Reapproved \/ ResumeRead \/ ResumeSaved
    \/ RunnerRead \/ RunnerOwns \/ RunnerRestarts \/ RunnerSnapshot \/ Migrating \/ LoopRead \/ SourceRead
    \/ Send \/ Acknowledged \/ Unacknowledged \/ UncertainRead \/ UncertainSaved \/ Readback \/ Confirmed
    \/ Verifying \/ Verified \/ HookFails \/ Completed \/ Executed \/ FailRead \/ FailSaved \/ WorkRejected
PollSteps ==
    \/ Poll \/ PollReconcile \/ PollConnect \/ PollSeed \/ PollLease \/ PollJob \/ PollSave \/ PollUnbound \/ PollRejected
CancelSteps ==
    \/ CancelWaits \/ CancelReconcile \/ CancelUnbound \/ CancelJob \/ CancelOwns \/ CancelFailRead
    \/ CancelFailSaved \/ CancelFenced \/ Cancelled \/ CancelRejected
Process == Drained \/ DrainTimesOut \/ Restart \/ Boot \/ WorldReady

UpgradeNext ==
    \/ \E op \in {"plan", "approve", "resume"} : Command(op)
    \/ Cancel \/ Crash \/ WorkerExits \/ Disconnect
    \/ WorkSteps \/ PollSteps \/ CancelSteps \/ Process
    \/ \E o \in Ops : Applied(o) \/ Lost(o)

UpgradeSpec == UpgradeInit /\ [][UpgradeNext]_upgradeVars

\* The event loop schedules the coroutines, and the worker serves its queue.
FairSpec ==
    /\ UpgradeSpec
    /\ WF_upgradeVars(WorkSteps) /\ WF_upgradeVars(CancelSteps) /\ WF_upgradeVars(queue # <<>> /\ PollSteps)

-----------------------------------------------------------------------------
Modes == [stage : Stages, bound : BOOLEAN, intent : BOOLEAN, token : Nat, drained : BOOLEAN, preview : SUBSET Ops]
Metas == [phase : Phases, possibleWrite : BOOLEAN, token : Nat, transition : Transitions, approval : 1..MaxApprovals, plan : SUBSET Ops]
Receipts == [Ops -> Outcomes]

\* Every variable keeps its shape, and a coroutine waits in the queue exactly while it waits for the journal.
UpgradeTypeOK ==
    /\ durable.mode \in Modes /\ durable.job \in Metas
    /\ durable.receipts \in [1..MaxApprovals -> Receipts] /\ durable.torn \in BOOLEAN
    /\ durable.lease \in [token : Nat, pid : Nat]
    /\ durable.target \in {"old", "gone", "new"} /\ durable.registry \in {"old", "new"}
    /\ world \in [applied : SUBSET Ops, flying : SUBSET Ops]
    /\ \A w \in Coroutines :
          /\ co[w].mode \in Modes /\ co[w].job \in [meta : Metas, out : Receipts]
          /\ co[w].pc \in JournalPcs \cup NetworkPcs \cup {"idle", "p_kick", "c_wait"}
          /\ (co[w].pc \in JournalPcs) <=> (\E i \in DOMAIN queue : queue[i] = w)
    /\ Len(queue) <= 3

\* Foundry has, or may still get, a write of this job.
Written == world.applied \cup world.flying # {}
Released == durable.mode.stage \in {"activating", "serving"}

\* "After possible writes ... no undo" (API.md): from the first native write on, whatever is cancelled, retried,
\* cut or restarted, rollbackUpgradeFiles never puts the previous files back under data already migrated.  Excused
\* here and below is a job that startMaintenance's poll has put back to an older state: `stale`.
FilesStayForWrites ==
    ~events.stale /\ Written => durable.target = "new" /\ durable.registry = "new" /\ durable.job.phase # "cancelled"

\* Core never serves a half upgraded world: once execute or cancel has set `activating`, either every operation
\* of the plan is in the world under the new files, or nothing was written and the previous files are back.
\* A torn ledger of receipts can vouch for neither.
OnlyWholeWorldsAreReleased ==
    ~events.stale /\ Released =>
       /\ ~durable.torn
       /\ \/ durable.job.phase = "completed" /\ world.applied = Ops /\ durable.target = "new" /\ durable.registry = "new"
          \/ ~Written /\ durable.target = "old" /\ durable.registry = "old"

\* Whatever step of the first approval was cut, a published job is never an orphan: the mode names it, or
\* holds the intent from which the next reconcileMaintenanceApproval binds it.
ApprovalIsBound == durable.job.phase # "none" => durable.mode.bound \/ durable.mode.intent

\* cancel waits for the work it aborted, which may wait for the journal, which may serve the poll: every
\* command of an administrator ends, none waits for another for ever.
EveryCommandEnds == \A w \in {"work", "cancel"} : co[w].pc # "idle" ~> co[w].pc = "idle"

\* The upgrade keeps the promise of UpgradeLedger, step by step until the poll puts an older job back: the receipts
\* are its declarations, once the job says that writes are possible, and the stage with the job its verdict.
Ledger == INSTANCE UpgradeLedger WITH
    Operations <- Ops,
    applied <- world.applied,
    declared <- IF durable.job.possibleWrite
                THEN {o \in Ops : \E a \in 1..MaxApprovals : durable.receipts[a][o] # "none"} ELSE {},
    verdict <- IF ~Released THEN "none" ELSE IF durable.job.phase = "completed" THEN "done" ELSE "undone"
ImplementsLedger == Ledger!Init /\ [][events.stale' \/ Ledger!Next]_(Ledger!vars)
=============================================================================
