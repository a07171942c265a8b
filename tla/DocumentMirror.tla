---------------------------- MODULE DocumentMirror ----------------------------
(***************************************************************************)
(* One world document and its mirror in a PrimaryDocumentStore             *)
(* (PrimaryDocumentStore.ts): what FoundryEventIngress.ts routes into it,  *)
(* the targeted reads that repair it, and the seeds of a bootstrap or a    *)
(* recovery that replace it.                                               *)
(*                                                                         *)
(* The main socket delivers broadcasts and answers in the order Foundry    *)
(* sent them (wire).  A user's own socket is another connection: its       *)
(* acknowledgements and answers arrive at any time.  The content of the    *)
(* document is the write that last set each of its fields, "direct" for a  *)
(* field of the root and "embedded" for its child documents.  How runs     *)
(* join, time out and move the gate is WorldBootstrap's subject: here a    *)
(* run whose socket is lost is over.                                       *)
(***************************************************************************)
EXTENDS Integers, Sequences

CONSTANTS
    MaxWrites,  \* bound on writes at Foundry
    MaxFaults   \* bound on lost connections, shutdowns, failed runs and reads

ASSUME BoundsAreNat == MaxWrites \in Nat \ {0} /\ MaxFaults \in Nat

VARIABLES
    truth,      \* the document at Foundry
    born,       \* it was created once: Foundry does not use an id again
    clock,      \* the last write
    wire,       \* what Foundry sent on the main socket, undelivered
    acks,       \* users' writes whose acknowledgement is under way
    doc,        \* the document in the store
    ready,      \* the store's ready flag
    shown,      \* the content browsers fetched at the last event they were sent
    refresh,    \* rootRefreshes' entry for the document
    online,     \* the main socket is connected
    prepared,   \* WorldBootstrapper.ready
    gate,       \* "open", "refreshing" the module context, "closed" for or after a run
    run,        \* the bootstrap or recovery in flight
    baseline,   \* recoveryBaseline
    gaps,       \* history: how the mirror lost a write that no seed or read restored since
    missed,     \* history: a gap, or a change while not served that no baseline covers, since a bootstrap
    faults

mirror  == <<doc, ready, shown>>
foundry == <<truth, born, clock>>
world   == <<online, prepared, gate, run, baseline>>
history == <<gaps, missed>>
vars    == <<foundry, wire, acks, mirror, refresh, world, history, faults>>

Fields == {"direct", "embedded"}
Writes == 1..MaxWrites
Absent == [f \in Fields |-> 0]
MaxRootRefreshAttempts == 3

Idle == [pc |-> "idle", via |-> "main", as |-> "update", dirty |-> FALSE, required |-> FALSE,
         observed |-> FALSE, tries |-> 0, answer |-> Absent]

NoRun      == [kind |-> "none", pc |-> "idle", touched |-> FALSE, base |-> Absent]
NoBaseline == [taken |-> FALSE, content |-> Absent]

Init ==
    /\ truth = Absent /\ born = FALSE /\ clock = 0
    /\ wire = <<>> /\ acks = {}
    /\ doc = Absent /\ ready = FALSE /\ shown = Absent
    /\ refresh = Idle
    /\ online = FALSE /\ prepared = FALSE /\ gate = "closed"
    /\ run = NoRun /\ baseline = NoBaseline
    /\ gaps = {} /\ missed = FALSE /\ faults = 0

Serving == online /\ prepared /\ gate = "open"

-----------------------------------------------------------------------------
(* Applying results                                                        *)

\* applySelfChange and applyEmbeddedChange.  An update of a document that is not there
\* is left out.
Applied(d, m) ==
    CASE m.kind = "create"               -> [f \in Fields |-> m.write]
      [] m.kind = "update" /\ d # Absent -> [d EXCEPT ![m.field] = m.write]
      [] m.kind = "delete"               -> Absent
      [] OTHER                           -> d

\* direct-update-miss, embedded-root-miss
Missed(d, m) == m.kind = "update" /\ d = Absent

ScheduleUnmarked(r, via, repairRequired) ==   \* Fault: a refresh in flight swallows the next one
    IF r.pc # "idle" THEN r
    ELSE [Idle EXCEPT !.pc = "asked", !.via = via, !.observed = repairRequired, !.tries = 1,
                      !.as = IF repairRequired THEN "create" ELSE "update"]

\* scheduleRootRefresh: a refresh in flight is only marked.
Schedule(r, via, repairRequired) ==
    IF r.pc # "idle"
    THEN [r EXCEPT !.dirty = TRUE, !.required = @ \/ repairRequired, !.observed = @ \/ repairRequired]
    ELSE [Idle EXCEPT !.pc = "asked", !.via = via, !.observed = repairRequired, !.tries = 1,
                      !.as = IF repairRequired THEN "create" ELSE "update"]

\* A store publishes a change of content once it is ready; AppSocketGateway forwards it to
\* browsers only while the world is served.
Emitted(d) == IF ready /\ Serving /\ d # doc THEN d ELSE shown

\* The gateway drops an event, and no baseline remembers what browsers have.
Dropped(d) == prepared /\ ~Serving /\ ~baseline.taken /\ d # doc

\* Every result but a read's moves the store's mutationRevision.
Touched(r) == [r EXCEPT !.touched = @ \/ r.pc \in {"asked", "sent"}]

\* One routed result: the store, its events and the repair of a missing root.
Route(m, via) ==
    /\ doc' = Applied(doc, m)
    /\ shown' = Emitted(doc')
    /\ run' = Touched(run)
    /\ refresh' = IF Missed(doc, m) THEN Schedule(refresh, via, TRUE) ELSE refresh

\* New gaps g, over those of `kept` that remain.
Gap(kept, g) == gaps' = kept \cup g /\ missed' = (missed \/ g # {} \/ Dropped(doc'))

-----------------------------------------------------------------------------
(* Writes at Foundry                                                       *)

Broadcast(m) == wire' = IF online THEN Append(wire, m) ELSE wire

Message(kind, field, user) == [kind |-> kind, field |-> field, write |-> clock + 1, user |-> user]

\* A write of kind `kind` by a Foundry client, or by one of Core's users.
Write(kind, field, user) ==
    /\ clock < MaxWrites
    /\ clock' = clock + 1
    /\ IF kind = "create" THEN ~born ELSE truth # Absent
    /\ born' = TRUE
    /\ truth' = Applied(truth, Message(kind, field, user))
    /\ Broadcast(Message(kind, field, user))

\* The only field of a message that has no meaning for a create or a delete is `field`.
KindsOfWrite == {<<"create", "direct">>, <<"delete", "direct">>, <<"update", "direct">>, <<"update", "embedded">>}

ForeignWrite ==
    /\ \E k \in KindsOfWrite : Write(k[1], k[2], FALSE)
    /\ UNCHANGED <<acks, mirror, refresh, world, history, faults>>

\* A request writes over its user's own socket; a document it changes is one it read here.
UserWrite ==
    /\ Serving
    /\ \E k \in KindsOfWrite :
        /\ k[1] # "create" => doc # Absent
        /\ Write(k[1], k[2], TRUE)
        /\ acks' = acks \cup {Message(k[1], k[2], TRUE)}
    /\ UNCHANGED <<mirror, refresh, world, history, faults>>

\* ProseMirror saves a field and only signals it.
Autosave ==
    /\ clock < MaxWrites /\ truth # Absent
    /\ clock' = clock + 1
    /\ truth' = [truth EXCEPT !["direct"] = clock + 1]
    /\ Broadcast(Message("autosave", "direct", FALSE))
    /\ UNCHANGED <<born, acks, mirror, refresh, world, history, faults>>

-----------------------------------------------------------------------------
(* Ingress                                                                 *)

Next1(kind) == wire # <<>> /\ Head(wire).kind = kind /\ wire' = Tail(wire)

ReceiveBroadcast ==
    /\ \E kind \in {"create", "update", "delete"} : Next1(kind)
    /\ Route(Head(wire), "main")
    /\ Gap(gaps, {})
    /\ UNCHANGED <<foundry, acks, ready, online, prepared, gate, baseline, faults>>

ReceiveAutosave ==
    /\ Next1("autosave")
    /\ refresh' = Schedule(refresh, "main", FALSE)
    /\ UNCHANGED <<foundry, acks, mirror, world, history, faults>>

\* The acknowledgement is routed by ingress and then mirrored by the repository, in one turn.
Acknowledge(m) ==
    /\ acks' = acks \ {m}
    /\ Route(m, "user")
    /\ Gap(gaps, IF doc' # doc /\ \A i \in DOMAIN wire : wire[i] # m THEN {"late"} ELSE {})
    /\ UNCHANGED <<foundry, wire, ready, online, prepared, gate, baseline, faults>>

-----------------------------------------------------------------------------
(* Targeted reads                                                          *)

\* Foundry answers a targeted read.
FoundryReads ==
    /\ refresh.pc = "asked"
    /\ IF refresh.via = "main"
       THEN refresh' = [refresh EXCEPT !.pc = "sent"] /\ wire' = Append(wire, [kind |-> "read", content |-> truth])
       ELSE refresh' = [refresh EXCEPT !.pc = "sent", !.answer = truth] /\ UNCHANGED wire
    /\ UNCHANGED <<foundry, acks, mirror, world, history, faults>>

Reasked(r) == [r EXCEPT !.pc = "asked", !.as = IF r.required THEN "create" ELSE "update", !.required = FALSE,
                        !.dirty = FALSE, !.tries = IF @ < MaxRootRefreshAttempts THEN @ + 1 ELSE @, !.answer = Absent]

\* The end of one pass of the refresh loop.
AfterRead(r, applied) ==
    IF (applied \/ ~r.observed) /\ r.dirty /\ (~r.observed \/ r.tries < MaxRootRefreshAttempts)
    THEN Reasked(r)
    ELSE Idle

\* reportRepairUnavailable: empty-response, coalescing-limit
Reported(r, applied) == r.observed /\ AfterRead(r, applied) = Idle /\ (~applied \/ r.dirty)

\* refreshRoot: the answer is a full root, applied as an update of a present document or,
\* for a repair, as a create.
Refreshed(answer) ==
    LET applied == answer # Absent
        taken   == applied /\ (refresh.as = "create" \/ doc # Absent)
    IN  /\ doc' = IF taken THEN answer ELSE doc
        /\ shown' = Emitted(doc')
        /\ run' = IF applied THEN Touched(run) ELSE run
        /\ refresh' = AfterRead(refresh, applied)
        /\ Gap(IF taken /\ refresh.via = "main" THEN {} ELSE gaps,
               (IF Reported(refresh, applied) THEN {"report"} ELSE {})
               \cup (IF applied /\ ~taken THEN {"unread"} ELSE {})
               \cup (IF taken /\ refresh.via = "user" /\ answer # doc THEN {"late"} ELSE {}))

ReceiveRead ==
    /\ Next1("read")
    /\ Refreshed(Head(wire).content)
    /\ UNCHANGED <<foundry, acks, ready, online, prepared, gate, baseline, faults>>

ReceiveUserRead ==
    /\ refresh.pc = "sent" /\ refresh.via = "user"
    /\ Refreshed(refresh.answer)
    /\ UNCHANGED <<foundry, wire, acks, ready, online, prepared, gate, baseline, faults>>

\* An answer that nobody awaits any more; at most one of a kind is under way.
Discarded(kind) ==
    LET Stray == {i \in DOMAIN wire : wire[i].kind = kind}
        at    == CHOOSE i \in Stray : TRUE
    IN  IF Stray = {} THEN wire ELSE [j \in 1..(Len(wire) - 1) |-> wire[IF j < at THEN j ELSE j + 1]]

\* The read times out, is refused or was sent on a socket that is gone: the loop ends, and
\* only a repair is reported.
ReadFails ==
    /\ refresh.pc # "idle"
    /\ IF refresh.pc = "lost" THEN UNCHANGED faults ELSE faults < MaxFaults /\ faults' = faults + 1
    /\ refresh' = Idle
    /\ wire' = Discarded("read")
    /\ UNCHANGED <<foundry, acks, mirror, world>>
    /\ Gap(gaps, IF refresh.observed THEN {"report"} ELSE {"unread"})

-----------------------------------------------------------------------------
(* Connections and runs                                                    *)

Connect ==
    /\ ~online
    /\ online' = TRUE
    /\ run' = [NoRun EXCEPT !.kind = IF prepared THEN "recovery" ELSE "bootstrap", !.pc = "waiting"]
    /\ gate' = "closed"
    /\ UNCHANGED <<foundry, wire, acks, mirror, refresh, prepared, baseline, history, faults>>

\* retry-context, after a run or a context refresh that failed
AdminRetry ==
    /\ online /\ gate = "closed" /\ run = NoRun
    /\ run' = [NoRun EXCEPT !.kind = IF prepared THEN "recovery" ELSE "bootstrap", !.pc = "waiting"]
    /\ UNCHANGED <<foundry, wire, acks, mirror, refresh, online, prepared, gate, baseline, history, faults>>

\* reset: the runtime epoch moves, so that what a pending refresh reads is discarded.
Reset ==
    /\ prepared' = FALSE /\ gate' = "closed"
    /\ run' = NoRun /\ baseline' = NoBaseline
    /\ doc' = Absent /\ ready' = FALSE /\ shown' = Absent
    /\ refresh' = Idle
    /\ gaps' = {} /\ missed' = FALSE

CapturedAnew == [taken |-> TRUE, content |-> doc]   \* Fault: each lost socket takes a baseline

\* captureRecoveryBaseline: what browsers saw when the first of several sockets was lost.
Captured == IF baseline.taken THEN baseline ELSE [taken |-> TRUE, content |-> doc]

SocketLost ==
    /\ online /\ faults < MaxFaults
    /\ online' = FALSE /\ wire' = <<>> /\ faults' = faults + 1
    /\ UNCHANGED <<foundry, acks>>

\* handleTransportDisconnected: a runtime that was never prepared is retired.
Disconnect ==
    /\ SocketLost
    /\ IF prepared
       THEN /\ baseline' = Captured
            /\ run' = NoRun
            /\ refresh' = IF refresh.pc # "idle" /\ refresh.via = "main" THEN [refresh EXCEPT !.pc = "lost"] ELSE refresh
            /\ UNCHANGED <<mirror, prepared, gate, history>>
       ELSE Reset

\* handleShutdown: the world is left.
Shutdown == prepared /\ SocketLost /\ Reset

\* refreshWorldContext: the gate is closed while module code runs, and stays so if it fails.
ContextRefresh ==
    /\ Serving
    /\ gate' = "refreshing"
    /\ UNCHANGED <<foundry, wire, acks, mirror, refresh, online, prepared, run, baseline, history, faults>>

ContextSettles ==
    /\ gate = "refreshing"
    /\ \/ gate' = "open" /\ UNCHANGED faults
       \/ gate' = "closed" /\ faults < MaxFaults /\ faults' = faults + 1
    /\ UNCHANGED <<foundry, wire, acks, mirror, refresh, online, prepared, run, baseline, history>>

\* The store's loader sends its read.
SeedAsks ==
    /\ run.pc = "waiting"
    /\ run' = [run EXCEPT !.pc = "asked", !.touched = FALSE, !.base = doc]
    /\ UNCHANGED <<foundry, wire, acks, mirror, refresh, online, prepared, gate, baseline, history, faults>>

FoundrySendsSeed ==
    /\ run.pc = "asked"
    /\ run' = [run EXCEPT !.pc = "sent"]
    /\ wire' = Append(wire, [kind |-> "seed", content |-> truth])
    /\ UNCHANGED <<foundry, acks, mirror, refresh, online, prepared, gate, baseline, history, faults>>

SeedNeverRefused == FALSE   \* Fault: seed() without the mutation revision

SeedRefused == run.touched

\* The answer passes ingress as a silent upsert, then seed() replaces the store unless it
\* changed since the read was sent.
ReceiveSeed ==
    /\ Next1("seed")
    /\ IF SeedRefused
       THEN /\ doc' = IF Head(wire).content # Absent THEN Head(wire).content ELSE doc
            /\ run' = NoRun
            /\ UNCHANGED <<ready, gaps>>
       ELSE /\ doc' = Head(wire).content
            /\ run' = [run EXCEPT !.pc = "seeded"]
            /\ ready' = TRUE /\ gaps' = {}
    /\ missed' = (missed \/ Dropped(doc'))
    /\ UNCHANGED <<foundry, acks, shown, refresh, online, prepared, gate, baseline, faults>>

\* The rest of the run: a bootstrap's readiness makes browsers fetch everything, a recovery
\* publishes what differs from its baseline.
RunSucceeds ==
    /\ run.pc = "seeded"
    /\ LET before == IF baseline.taken THEN baseline.content ELSE run.base
       IN  shown' = IF run.kind = "bootstrap" \/ before # doc THEN doc ELSE shown
    /\ prepared' = TRUE /\ gate' = "open"
    /\ run' = NoRun /\ baseline' = NoBaseline
    /\ missed' = (missed /\ run.kind = "recovery")
    /\ UNCHANGED <<foundry, wire, acks, doc, ready, refresh, online, gaps, faults>>

\* Another source, a compatibility check or module code fails, before or after the seed.
RunFails ==
    /\ run # NoRun /\ faults < MaxFaults
    /\ run' = NoRun /\ faults' = faults + 1
    /\ wire' = Discarded("seed")
    /\ UNCHANGED <<foundry, acks, mirror, refresh, online, prepared, gate, baseline, history>>

-----------------------------------------------------------------------------
Next ==
    \/ ForeignWrite \/ UserWrite \/ Autosave
    \/ ReceiveBroadcast \/ ReceiveAutosave \/ (\E m \in acks : Acknowledge(m))
    \/ FoundryReads \/ ReceiveRead \/ ReceiveUserRead \/ ReadFails
    \/ Connect \/ AdminRetry \/ Disconnect \/ Shutdown \/ ContextRefresh \/ ContextSettles
    \/ SeedAsks \/ FoundrySendsSeed \/ ReceiveSeed \/ RunSucceeds \/ RunFails

Spec == Init /\ [][Next]_vars

-----------------------------------------------------------------------------
(* Properties                                                              *)

Docs     == [Fields -> 0..MaxWrites]
Messages == [kind : {"create", "update", "delete", "autosave"}, field : Fields, write : Writes, user : BOOLEAN]
            \cup [kind : {"read", "seed"}, content : Docs]

\* Each variable has its type; a baseline, an open gate and a pending read belong to a world
\* that is prepared or being prepared.
TypeOK ==
    /\ truth \in Docs /\ doc \in Docs /\ shown \in Docs
    /\ born \in BOOLEAN /\ ready \in BOOLEAN /\ online \in BOOLEAN
    /\ prepared \in BOOLEAN /\ gate \in {"open", "refreshing", "closed"} /\ missed \in BOOLEAN
    /\ clock \in 0..MaxWrites /\ faults \in 0..MaxFaults
    /\ wire \in Seq(Messages) /\ acks \subseteq Messages
    /\ refresh \in [pc : {"idle", "asked", "sent", "lost"}, via : {"main", "user"}, as : {"create", "update"},
                     dirty : BOOLEAN, required : BOOLEAN, observed : BOOLEAN,
                     tries : 0..MaxRootRefreshAttempts, answer : Docs]
    /\ run \in [kind : {"none", "bootstrap", "recovery"}, pc : {"idle", "waiting", "asked", "sent", "seeded"},
                 touched : BOOLEAN, base : Docs]
    /\ baseline \in [taken : BOOLEAN, content : Docs]
    /\ gaps \subseteq {"late", "report", "unread"}
    /\ baseline.taken \/ gate # "closed" => prepared

\* A write that sets field f, and the value it sets.
Sets(m, f)   == m.kind \in {"create", "delete"} \/ (m.kind \in {"update", "autosave"} /\ m.field = f)
Brings(m)    == IF m.kind = "delete" THEN 0 ELSE m.write
After(i)     == {j \in DOMAIN wire : j > i}
Untouched(f) == \A i \in DOMAIN wire : ~Sets(wire[i], f)

\* Field f is v once the writes under way are applied: the last that sets it sets it to v, or
\* none does and it is v already.
Becomes(f, v) ==
    \/ \E i \in DOMAIN wire : Sets(wire[i], f) /\ Brings(wire[i]) = v /\ \A j \in After(i) : ~Sets(wire[j], f)
    \/ Untouched(f) /\ doc[f] = v

\* While the world is served, the mirror lacks nothing but what is still on the wire, unless
\* a read failed or a user's socket answered late: broadcasts, acknowledgements applied twice,
\* autosaves coalesced into one read, repairs, seeds and reconnections lose no write
\* (FoundryEventIngress.scheduleRootRefresh, PrimaryDocumentStore.applySelfChange and seed).
MirrorConverges == Serving /\ gaps = {} /\ refresh.pc = "idle" => \A f \in Fields : Becomes(f, truth[f])

\* While the world is served, browsers were sent the content it serves: what changed across
\* any number of lost sockets and failed recoveries is published by the recovery that
\* succeeds (captureRecoveryBaseline, publishReconciliation).
BrowsersSawTheMirror == Serving /\ ~missed => shown = doc

\* A seed undoes no write that the store had applied: what broadcasts and acknowledgements
\* brought while its read was under way makes it refuse the answer (PrimaryDocumentStore.seed).
SeedsUndoNothing ==
    [][run.pc = "sent" /\ run'.pc = "seeded" => doc' = Absent \/ \A f \in Fields : doc[f] <= doc'[f]]_vars

=============================================================================
