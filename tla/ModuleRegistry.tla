--------------------------- MODULE ModuleRegistry ----------------------------
(***************************************************************************)
(* One module in the registry (src/modules/registry): the package          *)
(* installed under <DATA_DIR>/modules ("managed"), the developer's         *)
(* checkout under <DATA_DIR>/local/modules ("local"), the artifact store   *)
(* and the lifecycle store, and everything that changes them: the scan,    *)
(* the operator's enable, disable, switch, lock and uninstall, archives    *)
(* installed and upgraded, and code that fails at run time.                *)
(*                                                                         *)
(* An archive operation awaits once, between its preview and the promotion *)
(* of the package; whatever it does after that, like every other           *)
(* operation, runs without yielding.  Its steps are the renames and the    *)
(* writes of files, because each of them may fail and the process may die  *)
(* between any two.  A store is written in place: a write that fails, and  *)
(* one the process dies in, may leave a file that parses no more, which    *)
(* reads as empty.                                                         *)
(* Archives with migrations continue in MaintenanceUpgrade; the routes     *)
(* that register a version without an archive are left out, as are trust,  *)
(* permissions, dependencies and the cache of adapters.                    *)
(***************************************************************************)
EXTENDS Naturals, FiniteSets

CONSTANTS
    MaxVersion,     \* bound: the versions an archive may have
    MaxFaults,      \* bound: writes, renames and removals that fail
    MaxCrashes,     \* bound: deaths of the process
    MaxEdits,       \* bound: edits of the checkout, releases of the core
    MaxEvents       \* bound: the three together

ASSUME RegistryAssumption ==
    /\ MaxVersion \in Nat /\ MaxFaults \in Nat
    /\ MaxCrashes \in Nat /\ MaxEdits \in Nat /\ MaxEvents \in Nat

VARIABLES
    up,             \* the process runs
    kind,           \* what a scan makes of each source's directory
    pkg,            \* the version under <DATA_DIR>/modules, 0 without a directory
    kept,           \* the previous packages that lie in transaction directories
    wrecked,        \* history: the versions a second call of rollback removed
    art,            \* the version of the artifact record, 0 without one
    locked,         \* its update policy
    file,           \* the lifecycle record as the file would be read
    rec,            \* the lifecycle record in memory
    plugin,         \* the source pluginMap selects
    arch,           \* the archive operation
    prior,          \* what it found when it began to change files
    un,             \* the step of an uninstall
    using,          \* the source whose code a request imports or a browser runs
    word,           \* what the operator last said of each source
    faults, crashes, edits

files == <<kind, pkg, kept, wrecked, art, locked>>
records == <<file, rec, plugin>>
bounds == <<faults, crashes, edits>>
vars == <<up, files, records, arch, prior, un, using, word, bounds>>

Versions == 1..MaxVersion
Sources == {"managed", "local"}
Other(s) == IF s = "local" THEN "managed" ELSE "local"

\* fit: loads.  faulty: an entry is missing or the artifact is broken.
\* unfit: made for another core.  broken: no manifest that can be read.
Kinds == {"absent", "fit", "faulty", "unfit", "broken"}
Loadable == {"fit", "faulty"}

\* The statuses a record has when a step ends; installed and upgrading are left
\* in the step that sets them, and nothing sets enabled or removed.
Statuses == {"none", "discovered", "validated", "disabled", "incompatible", "errored",
             "uninstalling"}

Records ==
    [active: Sources \cup {"none"}, status: Statuses, enabled: BOOLEAN, local: BOOLEAN,
     intent: [Sources -> {"unset", "on", "off"}],
     block: [Sources -> {"none", "errored", "incompatible"}]]

Discovered ==
    [active |-> "none", status |-> "discovered", enabled |-> TRUE, local |-> FALSE,
     intent |-> [s \in Sources |-> "unset"], block |-> [s \in Sources |-> "none"]]

NoRecord == [Discovered EXCEPT !.status = "none", !.enabled = FALSE]

\* The record installModule makes lacks fields that isValidRecord demands: as
\* long as no scan has replaced it, the file reads as if it were not there.
Persisted(r) == IF r.active = "none" THEN NoRecord ELSE r

Flag(b) == IF b THEN "on" ELSE "off"

-----------------------------------------------------------------------------
(* The scan.                                                               *)

\* applyLifecycleClassification: a rejected source keeps its flag, and one that
\* has none takes the record's.
Classify(r, s, active, status, enabled, preserve, block) ==
    LET flag == IF ~preserve THEN Flag(enabled)
                ELSE IF r.intent[s] = "unset" THEN Flag(r.enabled) ELSE r.intent[s]
        flagged == [r EXCEPT !.active = active, !.block[s] = block, !.intent[s] = flag]
    IN IF s = active THEN [flagged EXCEPT !.status = status, !.enabled = enabled] ELSE flagged

\* What the scan of one directory does to the record.
Discover(r, s, k) ==
    LET known == IF r.status = "none" THEN Discovered ELSE r
        seen == [known EXCEPT !.local = @ \/ s = "local"]
        active == IF seen.active = "none" THEN s ELSE seen.active
    IN CASE k = "absent" -> r
         [] k \in Loadable -> seen
         [] k = "unfit" -> Classify(seen, s, active, "incompatible", FALSE, TRUE, "incompatible")
         [] k = "broken" -> Classify(seen, s, active, "errored", FALSE, TRUE, "errored")

\* Fault: the record's own flag decides, whichever source it was about.
RateByRecord(r, before, s, k) ==
    LET active == before.active
        wanted == s = active /\ before.enabled
    IN CASE k \notin Loadable -> r
         [] k = "faulty" -> Classify(r, s, active, "errored", FALSE, TRUE, "errored")
         [] k = "fit" -> Classify(r, s, active, IF wanted THEN "validated" ELSE "disabled",
                                  wanted, FALSE, "none")

\* Classifies a loadable source; "before" is the record the loop started from.
Rate(r, before, s, k) ==
    LET active == before.active
        wanted == s = active /\ IF before.intent[s] = "unset" THEN before.enabled
                                                               ELSE before.intent[s] = "on"
    IN CASE k \notin Loadable -> r
         [] k = "faulty" -> Classify(r, s, active, "errored", FALSE, TRUE, "errored")
         [] k = "fit" -> Classify(r, s, active, IF wanted THEN "validated" ELSE "disabled",
                                  wanted, FALSE, "none")

\* initializeRegistry prefers the source selected before, then the package.
Chosen(r, k) ==
    IF r.active # "none" /\ k[r.active] \in Loadable THEN r.active
    ELSE IF k["managed"] \in Loadable THEN "managed"
    ELSE IF k["local"] \in Loadable THEN "local" ELSE "none"

ScannedRecord(r, k) ==
    LET found == Discover(Discover([r EXCEPT !.local = FALSE], "managed", k["managed"]),
                          "local", k["local"])
        before == [found EXCEPT !.active = Chosen(found, k)]
    IN IF before.active = "none" THEN found
       ELSE Rate(Rate(before, before, "managed", k["managed"]), before, "local", k["local"])

\* The plugin a scan leaves selected.
Selected(r, k) == IF r.active # "none" /\ k[r.active] \in Loadable THEN r.active ELSE "none"

\* The scan reads the file, writes it, and selects the plugin.
Scan(r, k) ==
    LET next == ScannedRecord(r, k)
    IN rec' = next /\ file' = next /\ plugin' = Selected(next, k)

\* isModuleEnabledForRuntime
EnabledForRuntime(r) ==
    /\ r.enabled
    /\ r.status \notin {"incompatible", "errored"}

-----------------------------------------------------------------------------
(* The operator.                                                           *)

\* Nothing yields but the archive operation that awaits after its preview.
Turn == up /\ un = "idle" /\ arch.step \in {"idle", "waiting"}

SetIntent(r, s, on) == [r EXCEPT !.intent[s] = Flag(on), !.intent[Other(s)] = "off"]

\* switchModuleSource, before it refreshes the registry.
Switched(r, s) ==
    [SetIntent(r, s, r.enabled) EXCEPT
        !.active = s, !.status = IF r.enabled THEN "validated" ELSE "disabled"]

\* A source is refused on the diagnostics of the last scan.
CanSwitch(s) ==
    /\ rec.status # "none"
    /\ kind[s] \notin {"absent", "broken"}
    /\ s = "local" => rec.local
    /\ rec.block[s] = "none"

SwitchSource(s) ==
    /\ Turn
    /\ CanSwitch(s)
    /\ Scan(Switched(rec, s), kind)
    /\ word' = [word EXCEPT ![s] = "none"]
    /\ UNCHANGED <<up, files, arch, prior, un, using, bounds>>

\* The rest of enableModule: the selected source is enabled or marked blocked.
EnabledRecord(r) ==
    IF r.block[r.active] = "none"
    THEN [SetIntent(r, r.active, TRUE) EXCEPT !.enabled = TRUE, !.status = "validated"]
    ELSE [r EXCEPT !.enabled = FALSE, !.status = r.block[r.active], !.intent[r.active] = "off"]

\* Of checkCanEnableModule only the plugin is kept.  A source that is not
\* selected is switched to, scanned, and what the scan selected is enabled.
\* When the scan drops s again and refuses what it selected instead, nothing is
\* enabled, but the operator has selected s: it is no longer disabled by its word.
Enable(s) ==
    /\ Turn
    /\ plugin # "none" /\ rec.status # "none"
    /\ s # rec.active => CanSwitch(s)
    /\ LET ready == IF s = rec.active THEN rec ELSE ScannedRecord(Switched(rec, s), kind)
           next == EnabledRecord(ready)
       IN /\ rec' = next /\ file' = next
          /\ plugin' = IF s = rec.active THEN plugin ELSE Selected(ready, kind)
          /\ word' = IF next.enabled THEN [word EXCEPT ![next.active] = "on"]
                     ELSE IF next.active = s THEN word ELSE [word EXCEPT ![s] = "none"]
    /\ UNCHANGED <<up, files, arch, prior, un, using, bounds>>

Disable(s) ==
    /\ Turn
    /\ rec.status # "none"
    /\ rec' = IF s = rec.active
              THEN [rec EXCEPT !.enabled = FALSE, !.status = "disabled", !.intent[s] = "off"]
              ELSE [rec EXCEPT !.intent[s] = "off"]
    /\ file' = Persisted(rec')
    /\ word' = IF file'.status = "none" THEN word ELSE [word EXCEPT ![s] = "off"]
    /\ UNCHANGED <<up, files, plugin, arch, prior, un, using, bounds>>

\* updateManagedModulePolicy
SetLock(b) ==
    /\ Turn
    /\ art # 0
    /\ locked' = b
    /\ UNCHANGED <<up, kind, pkg, kept, wrecked, art, records, arch, prior, un, using, word, bounds>>

\* validateManagedModule writes the record it has and refreshes the registry.
Validate ==
    /\ Turn
    /\ rec.status # "none"
    /\ Scan(Persisted(rec), kind)
    /\ UNCHANGED <<up, files, arch, prior, un, using, word, bounds>>

-----------------------------------------------------------------------------
(* The module's code at run time.                                          *)

\* getAdapter imports the plugin's logic; a browser loads the source's UI.
Use ==
    /\ Turn
    /\ using = "none" /\ plugin # "none" /\ EnabledForRuntime(rec)
    /\ using' = plugin
    /\ UNCHANGED <<up, files, records, arch, prior, un, word, bounds>>

Used ==
    /\ Turn /\ using # "none"
    /\ using' = "none"
    /\ UNCHANGED <<up, files, records, arch, prior, un, word, bounds>>

\* recordLifecycleRuntimeFailure: a checkout is only reported, a package disabled.
FailedRecord(r) ==
    IF r.active = "local" \/ r.status = "none" THEN r
    ELSE [r EXCEPT !.status = "errored", !.enabled = FALSE, !.intent["managed"] = "off"]

UseFails ==
    /\ Turn /\ using # "none"
    /\ using' = "none"
    /\ rec' = FailedRecord(rec)
    /\ file' = Persisted(rec')
    /\ UNCHANGED <<up, files, plugin, arch, prior, un, word, bounds>>

-----------------------------------------------------------------------------
(* Archives: applyLocalModuleArchive.                                      *)

MayHappen == faults + crashes + edits < MaxEvents
Fault == MayHappen /\ faults < MaxFaults /\ faults' = faults + 1
NoFault == UNCHANGED faults

\* calls: how often rollback will be called at most.  hurt: what could not be
\* put back.
NoArchive == [step |-> "idle", op |-> "install", v |-> 0, calls |-> 0, hurt |-> {}]
Nothing == [pkg |-> 0, kind |-> "absent", art |-> 0, locked |-> FALSE, rec |-> NoRecord]

Step(step) == arch' = [arch EXCEPT !.step = step]

\* The operation returns.
Return == arch' = NoArchive /\ prior' = Nothing

\* ALLOWED_TRANSITIONS to "upgrading" and "uninstalling".
Upgradable == {"validated", "disabled", "incompatible"}
Removable == Upgradable \cup {"errored"}

\* prepareOperation and the preview; the archive itself is fit, or is refused.
Begin(op, v) ==
    /\ Turn /\ arch.step = "idle"
    /\ (pkg = 0) = (art = 0)
    /\ (pkg = 0) = (op = "install")
    /\ op = "upgrade" => ~locked /\ rec.status \in Upgradable
    /\ arch' = [NoArchive EXCEPT !.step = "waiting", !.op = op, !.v = v]
    /\ UNCHANGED <<up, files, records, prior, un, using, word, bounds>>

\* What the first rename moves to the transaction directory.
Aside(v) == {v} \ {0}

\* The first rename of promotePreparedModuleArchive; nothing yields from here.
Retain ==
    /\ Turn /\ arch.step = "waiting"
    /\ prior' = [pkg |-> pkg, kind |-> kind["managed"], art |-> art, locked |-> locked, rec |-> rec]
    /\ \/ /\ Step("retained") /\ NoFault
          /\ pkg' = 0
          /\ kind' = [kind EXCEPT !["managed"] = "absent"]
          /\ kept' = kept \cup Aside(pkg)
       \/ /\ Step("failed") /\ Fault
          /\ UNCHANGED <<pkg, kind, kept>>
    /\ UNCHANGED <<up, wrecked, art, locked, records, un, using, word, crashes, edits>>

\* Fault: the transaction directory goes before the previous package is out of it.
PutBackNothing ==
    /\ kept' = kept \ {prior.pkg}
    /\ UNCHANGED <<pkg, kind>>

\* The package that was there comes back from the transaction directory.
PutBack ==
    /\ pkg' = prior.pkg
    /\ kind' = [kind EXCEPT !["managed"] = prior.kind]
    /\ kept' = kept \ {prior.pkg}

\* The second rename; when it fails the first one is undone.
Promote ==
    /\ up /\ arch.step = "retained"
    /\ \/ /\ Step("promoted") /\ NoFault
          /\ pkg' = arch.v
          /\ kind' = [kind EXCEPT !["managed"] = "fit"]
          /\ UNCHANGED kept
       \/ Step("failed") /\ Fault /\ PutBack
       \/ /\ arch' = [arch EXCEPT !.step = "failed", !.hurt = {"package"}] /\ Fault
          /\ UNCHANGED <<pkg, kind, kept>>
    /\ UNCHANGED <<up, wrecked, art, locked, records, prior, un, using, word, crashes, edits>>

\* Fault: what the preview found is not looked at again.
AllowAsPreviewed == TRUE

\* What installManagedModule and upgradeManagedModule look at again.
FacadeAllows ==
    IF arch.op = "install" THEN plugin = "managed" => art # 0
    ELSE (plugin # "none" => art # 0) /\ (art # 0 => ~locked)

\* What installModule and upgradeModule refuse.
ManagerAllows ==
    IF arch.op = "install" THEN rec.status # "uninstalling"
    ELSE rec.status \in Upgradable /\ (rec.status = "incompatible" => art # 0)

\* What a write that failed leaves of a store: what was there, or a file that
\* reads as empty.
TornRecord == file' \in {file, NoRecord}
TornArtifact == UNCHANGED <<art, locked>> \/ (art' = 0 /\ locked' = FALSE)

\* A failure that is returned ends in rollback, and in the catch when rollback
\* throws; an exception only in the catch.
Returned == arch' = [arch EXCEPT !.step = "rollback", !.calls = 2]
Thrown(hurt) == arch' = [arch EXCEPT !.step = "rollback", !.calls = 1, !.hurt = @ \cup hurt]

\* The result of the verification is saved before anything is protected: when
\* that write fails, nothing writes the artifact store again.
Verify ==
    /\ up /\ arch.step = "promoted"
    /\ \/ /\ ~FacadeAllows
          /\ Returned /\ NoFault
          /\ UNCHANGED <<art, locked>>
       \/ /\ FacadeAllows
          /\ Step("verified") /\ NoFault
          /\ UNCHANGED <<art, locked>>
       \/ /\ FacadeAllows
          /\ Fault /\ TornArtifact
          /\ Thrown(IF UNCHANGED <<art, locked>> THEN {} ELSE {"stores"})
    /\ UNCHANGED <<up, kind, pkg, kept, wrecked, records, prior, un, using, word, crashes, edits>>

\* The record is put back in memory; installModule keeps the one it made.
Recalled(r) == IF r.status = "none" THEN [r EXCEPT !.status = "discovered"] ELSE r

\* installModule and upgradeModule up to the write of the lifecycle store.
Register ==
    /\ up /\ arch.step = "verified"
    /\ \/ /\ ~ManagerAllows
          /\ Returned /\ NoFault
          /\ UNCHANGED <<file, rec>>
       \/ /\ ManagerAllows
          /\ Step("recorded") /\ NoFault
          /\ rec' = [rec EXCEPT !.status = "validated"]
          /\ file' = Persisted(rec')
       \/ /\ ManagerAllows
          /\ Step("undo") /\ Fault
          /\ rec' = Recalled(rec)
          /\ TornRecord
    /\ UNCHANGED <<up, files, plugin, prior, un, using, word, crashes, edits>>

\* The write of the artifact store.
RecordArtifact ==
    /\ up /\ arch.step = "recorded"
    /\ \/ /\ Step("registered") /\ NoFault
          /\ art' = arch.v
          /\ locked' = (locked /\ arch.op = "upgrade")
          /\ wrecked' = wrecked \ {arch.v}
          /\ UNCHANGED rec
       \/ /\ Step("undo") /\ Fault
          /\ rec' = Recalled(prior.rec)
          /\ TornArtifact
          /\ UNCHANGED wrecked
    /\ UNCHANGED <<up, kind, pkg, kept, file, plugin, prior, un, using, word, crashes, edits>>

\* The catch of either writes both stores again, the lifecycle store first.
UndoRecord ==
    /\ up /\ arch.step = "undo"
    /\ \/ /\ Step("undone") /\ NoFault
          /\ file' = Persisted(rec)
       \/ Thrown({"stores"}) /\ Fault /\ TornRecord
    /\ UNCHANGED <<up, files, rec, plugin, prior, un, using, word, crashes, edits>>

\* Fault: the catch writes the new artifact record, not the one there was.
UndoWithNewArtifact ==
    /\ up /\ arch.step = "undone"
    /\ \/ Returned /\ NoFault /\ art' = arch.v /\ locked' = prior.locked
       \/ Thrown({"stores"}) /\ Fault /\ TornArtifact
    /\ UNCHANGED <<up, kind, pkg, kept, wrecked, records, prior, un, using, word, crashes, edits>>

UndoArtifact ==
    /\ up /\ arch.step = "undone"
    /\ \/ Returned /\ NoFault /\ art' = prior.art /\ locked' = prior.locked
       \/ Thrown({"stores"}) /\ Fault /\ TornArtifact
    /\ UNCHANGED <<up, kind, pkg, kept, wrecked, records, prior, un, using, word, crashes, edits>>

\* The refresh, then the transaction directory goes; that it stays is only logged.
Finish ==
    /\ up /\ arch.step = "registered"
    /\ Return
    /\ Scan(file, kind)
    /\ \/ kept' = kept \ {prior.pkg} /\ NoFault
       \/ Fault /\ UNCHANGED kept
    /\ UNCHANGED <<up, kind, pkg, wrecked, art, locked, un, using, word, crashes, edits>>

\* A call of rollback throws: the catch calls it again, once.
RollBackThrows ==
    arch' = [arch EXCEPT !.step = IF arch.calls = 2 THEN "rollback" ELSE "failed",
                         !.calls = @ - 1, !.hurt = @ \cup {"package"}]

\* The directory in the package's place is gone.
Removed ==
    /\ pkg' = 0
    /\ kind' = [kind EXCEPT !["managed"] = "absent"]
    /\ UNCHANGED kept

\* rollback removes what is in the package's place, renames the previous package
\* back and removes the transaction directory.  Each of the three may fail, and
\* only after the third is the transaction closed: a call that follows one which
\* failed there removes the package that was put back, and misses its backup.
RollBack ==
    /\ up /\ arch.step = "rollback"
    /\ \/ /\ pkg # 0 /\ Fault /\ RollBackThrows
          /\ \E k \in {kind["managed"], "faulty", "broken"} : kind' = [kind EXCEPT !["managed"] = k]
          /\ UNCHANGED <<pkg, kept, wrecked>>
       \/ /\ prior.pkg # 0 /\ prior.pkg \notin kept
          /\ NoFault /\ RollBackThrows /\ Removed
          /\ wrecked' = wrecked \cup {prior.pkg}
       \/ /\ prior.pkg \in kept
          /\ Fault /\ RollBackThrows /\ Removed
          /\ UNCHANGED wrecked
       \/ /\ prior.pkg = 0 \/ prior.pkg \in kept
          /\ PutBack
          /\ \/ Fault /\ RollBackThrows
             \/ /\ NoFault
                /\ arch' = [arch EXCEPT !.step = "failed", !.calls = 0, !.hurt = @ \ {"package"}]
          /\ UNCHANGED wrecked
    /\ UNCHANGED <<up, art, locked, records, prior, un, using, word, crashes, edits>>

\* The operation answers that it failed.
Answer ==
    /\ up /\ arch.step = "failed"
    /\ Return
    /\ UNCHANGED <<up, files, records, un, using, word, bounds>>

-----------------------------------------------------------------------------
(* uninstallManagedModule.                                                 *)

\* The record is written as "uninstalling"; when that fails it is written back.
Uninstall ==
    /\ Turn
    /\ plugin # "none" => art # 0
    /\ rec.status \in Removable
    /\ art # 0 => ~locked
    /\ \/ /\ NoFault
          /\ prior' = [pkg |-> pkg, kind |-> kind["managed"], art |-> art, locked |-> locked, rec |-> rec]
          /\ rec' = [rec EXCEPT !.status = "uninstalling", !.enabled = FALSE]
          /\ file' = Persisted(rec')
          /\ un' = "begun"
       \/ /\ Fault
          /\ file' \in {file, NoRecord, Persisted(rec)}
          /\ UNCHANGED <<prior, rec, un>>
    /\ UNCHANGED <<up, files, plugin, arch, using, word, crashes, edits>>

\* A later write fails: only the lifecycle record is restored, in memory, and in
\* the file when the write of that works.
Restore ==
    /\ Fault
    /\ un' = "idle" /\ prior' = Nothing
    /\ rec' = prior.rec
    /\ file' \in {file, NoRecord, Persisted(prior.rec)}

DropArtifact ==
    /\ up /\ un = "begun"
    /\ \/ /\ un' = "dropped" /\ NoFault
          /\ art' = 0 /\ locked' = FALSE
          /\ UNCHANGED <<file, rec, prior>>
       \/ Restore /\ TornArtifact
    /\ UNCHANGED <<up, kind, pkg, kept, wrecked, plugin, arch, using, word, crashes, edits>>

PurgeRecord ==
    /\ up /\ un = "dropped"
    /\ \/ /\ un' = "purged" /\ NoFault
          /\ rec' = NoRecord /\ file' = NoRecord
          /\ word' = [s \in Sources |-> "none"]
          /\ UNCHANGED prior
       \/ Restore /\ UNCHANGED word
    /\ UNCHANGED <<up, files, plugin, arch, using, crashes, edits>>

\* The directory goes, or what is left of it stays, and the registry is refreshed.
RemovePackage ==
    /\ up /\ un = "purged"
    /\ un' = "idle" /\ prior' = Nothing
    /\ \/ /\ NoFault
          /\ pkg' = 0
          /\ kind' = [kind EXCEPT !["managed"] = "absent"]
       \/ /\ pkg # 0 /\ Fault
          /\ \E k \in {kind["managed"], "faulty", "broken"} : kind' = [kind EXCEPT !["managed"] = k]
          /\ UNCHANGED pkg
    /\ Scan(file, kind')
    /\ UNCHANGED <<up, kept, wrecked, art, locked, arch, using, word, crashes, edits>>

-----------------------------------------------------------------------------
(* The process and the world around it.                                    *)

\* The process dies, perhaps in a write to one of the stores, which hold the
\* records of every module.
Crash ==
    /\ up /\ MayHappen /\ crashes < MaxCrashes
    /\ crashes' = crashes + 1
    /\ up' = FALSE
    /\ Return /\ un' = "idle" /\ using' = "none"
    /\ rec' = NoRecord /\ plugin' = "none"
    /\ \/ UNCHANGED <<file, art, locked>>
       \/ file' = NoRecord /\ UNCHANGED <<art, locked>>
       \/ art' = 0 /\ locked' = FALSE /\ UNCHANGED file
    /\ UNCHANGED <<kind, pkg, kept, wrecked, word, faults, edits>>

\* With the file, what the operator said is lost.
Boot ==
    /\ ~up
    /\ up' = TRUE
    /\ Scan(file, kind)
    /\ word' = IF file.status = "none" THEN [s \in Sources |-> "none"] ELSE word
    /\ UNCHANGED <<files, arch, prior, un, using, bounds>>

\* Another release of the core may suit a package or not.
ReleaseCore(s) ==
    /\ ~up /\ MayHappen /\ edits < MaxEdits
    /\ edits' = edits + 1
    /\ \/ kind[s] = "fit" /\ kind' = [kind EXCEPT ![s] = "unfit"]
       \/ kind[s] = "unfit" /\ kind' = [kind EXCEPT ![s] = "fit"]
    /\ UNCHANGED <<up, pkg, kept, wrecked, art, locked, records, arch, prior, un, using, word,
                   faults, crashes>>

EditCheckout(k) ==
    /\ Turn /\ MayHappen /\ edits < MaxEdits
    /\ edits' = edits + 1
    /\ kind' = [kind EXCEPT !["local"] = k]
    /\ UNCHANGED <<up, pkg, kept, wrecked, art, locked, records, arch, prior, un, using, word,
                   faults, crashes>>

-----------------------------------------------------------------------------
\* Before the first start; a checkout may be there already.
Init ==
    /\ up = FALSE
    /\ kind \in [Sources -> {"absent", "fit"}] /\ kind["managed"] = "absent"
    /\ pkg = 0 /\ art = 0 /\ locked = FALSE /\ kept = {} /\ wrecked = {}
    /\ file = NoRecord /\ rec = NoRecord /\ plugin = "none"
    /\ arch = NoArchive /\ prior = Nothing
    /\ un = "idle" /\ using = "none"
    /\ word = [s \in Sources |-> "none"]
    /\ faults = 0 /\ crashes = 0 /\ edits = 0

Operate ==
    \/ \E s \in Sources : SwitchSource(s) \/ Enable(s) \/ Disable(s)
    \/ \E b \in BOOLEAN : SetLock(b)
    \/ Validate \/ Use \/ Used \/ UseFails

Archive ==
    \/ \E op \in {"install", "upgrade"}, v \in Versions : Begin(op, v)
    \/ Retain \/ Promote \/ Verify \/ Register \/ RecordArtifact
    \/ UndoRecord \/ UndoArtifact \/ Finish \/ RollBack \/ Answer

Remove == Uninstall \/ DropArtifact \/ PurgeRecord \/ RemovePackage

Surroundings ==
    \/ Crash \/ Boot
    \/ \E s \in Sources : ReleaseCore(s)
    \/ \E k \in Kinds : EditCheckout(k)

Next == Operate \/ Archive \/ Remove \/ Surroundings

Spec == Init /\ [][Next]_vars

-----------------------------------------------------------------------------
(* Properties.                                                             *)

Versions0 == 0..MaxVersion

TypeOK ==
    /\ up \in BOOLEAN
    /\ kind \in [Sources -> Kinds]
    /\ pkg \in Versions0 /\ art \in Versions0 /\ locked \in BOOLEAN
    /\ kept \subseteq Versions /\ wrecked \subseteq Versions
    /\ file \in Records /\ rec \in Records
    /\ plugin \in Sources \cup {"none"} /\ using \in Sources \cup {"none"}
    /\ arch \in [step: {"idle", "waiting", "retained", "promoted", "verified", "recorded",
                        "registered", "undo", "undone", "rollback", "failed"},
                 op: {"install", "upgrade"}, v: Versions0, calls: 0..2,
                 hurt: SUBSET {"package", "stores"}]
    /\ prior \in [pkg: Versions0, kind: Kinds, art: Versions0, locked: BOOLEAN, rec: Records]
    /\ un \in {"idle", "begun", "dropped", "purged"}
    /\ word \in [Sources -> {"none", "on", "off"}]
    /\ faults \in 0..MaxFaults /\ crashes \in 0..MaxCrashes /\ edits \in 0..MaxEdits

\* The package an artifact record names is never lost: whatever fails, and
\* wherever the process dies, it lies in the managed directory or, when
\* promotePreparedModuleArchive or rollback were cut short, in the directory of
\* their transaction.  One way to lose it is known and excused: a second call of
\* rollback removes the package the first call had put back.
RecordedPackageSurvives == art \notin wrecked \cup {0} => pkg = art \/ art \in kept

\* An archive operation that answers a failure has changed nothing.  The module
\* runs if it ran.  The package is the one it found, unless the last attempt to
\* put it back failed too; and so are the artifact record and its policy, unless
\* a write failed while they were put back, or the one they are not protected
\* from, that of the verification, lost the store.
FailureChangesNothing ==
    arch.step = "failed" =>
        /\ rec.intent = prior.rec.intent /\ rec.block = prior.rec.block
        /\ EnabledForRuntime(rec) = EnabledForRuntime(prior.rec)
        /\ "package" \notin arch.hurt => pkg = prior.pkg /\ kind["managed"] = prior.kind
        /\ "stores" \notin arch.hurt => art = prior.art /\ locked = prior.locked

\* A source the operator disabled does not run until the operator enables or
\* selects it, or the record that says so is purged or lost: no refresh,
\* restart, upgrade, failure or change of compatibility enables it again.
DisabledStaysDisabled ==
    EnabledForRuntime(rec) /\ rec.active # "none" => word[rec.active] # "off"

\* A locked package is neither replaced nor uninstalled, also when the lock
\* lands between an operation's preview and its promotion: its record only
\* changes to be unlocked, or is lost with the store in a write that fails or
\* that the process dies in.
LocksHold ==
    [][art # 0 /\ locked => art' = art \/ (art' = 0 /\ (~up' \/ faults' # faults))]_vars
=============================================================================
