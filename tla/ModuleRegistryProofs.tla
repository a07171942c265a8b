------------------------ MODULE ModuleRegistryProofs ------------------------
(***************************************************************************)
(* The safety of the registry's archive operations and of uninstalling,    *)
(* for any number of versions, faults, crashes and edits.                  *)
(*                                                                         *)
(* Alone, an operation is easy: what it replaced lies in its transaction   *)
(* directory until it is done (SetAside), and what it found is what it     *)
(* remembers (AsFound).  The invariant adds that nothing else moves        *)
(* meanwhile (Exclusive), and that the lock was looked at in the same turn *)
(* as the records are written (Unlocked).  What the operator disabled has  *)
(* an invariant of its own, below, which rests on this one.                *)
(***************************************************************************)
EXTENDS ModuleRegistry, TLAPS

Blocks == {"none", "errored", "incompatible"}

\* An uninstall runs in one turn, and so does an archive operation after its
\* preview; a process that died has neither.
Exclusive ==
    /\ un # "idle" => arch.step \in {"idle", "waiting"}
    /\ ~up => arch.step = "idle" /\ un = "idle"

\* The version an operation writes is the one it promoted.
Promoted == arch.step \in {"promoted", "verified", "recorded", "registered"} => pkg = arch.v

\* While an operation changes files, before rollback.
Changing == {"retained", "promoted", "verified", "recorded", "undo", "undone"}

\* Where the package of an artifact record may be, outside its place.
SafeAside(v) == v \in {0} \cup wrecked \cup kept

\* While the package is not in its place the record's package is set aside; a
\* call of rollback that failed may have put it back already.
SetAside ==
    /\ arch.step \in Changing => SafeAside(prior.art)
    /\ arch.step = "rollback" =>
         SafeAside(prior.art) \/ (prior.art = prior.pkg /\ pkg = prior.pkg /\ pkg \notin kept)
    /\ arch.step = "registered" => art = arch.v
    /\ un \in {"dropped", "purged"} => art = 0

\* Only an upgrade meets a record, and it is written while it is not locked.
Unlocked ==
    /\ arch.step \in {"waiting", "retained", "promoted", "verified", "recorded"} /\ arch.op = "install"
         => art = 0
    /\ arch.step \in {"verified", "recorded"} /\ arch.op = "upgrade" => art = 0 \/ ~locked
    /\ un = "begun" => art = 0 \/ ~locked

\* The lifecycle record says of running and of the sources what it did before.
SameRecord(r, s) ==
    /\ r.intent = s.intent /\ r.block = s.block
    /\ EnabledForRuntime(r) = EnabledForRuntime(s)

\* What an operation found when it began to change files is still so, but for
\* the files it has moved itself and the stores a write has lost.
AsFound ==
    /\ arch.step \in Changing \cup {"rollback", "failed"} => art \in {0, prior.art}
    /\ arch.step \in {"retained", "promoted", "verified", "recorded"}
         => art = prior.art /\ locked = prior.locked
    /\ arch.step \in {"rollback", "failed"} /\ "stores" \notin arch.hurt
         => art = prior.art /\ locked = prior.locked
    /\ arch.step \in {"retained", "promoted", "verified"} => rec = prior.rec
    /\ arch.step \in {"undo", "undone", "rollback", "failed"} => SameRecord(rec, prior.rec)
    /\ arch.step = "failed" /\ "package" \notin arch.hurt
         => pkg = prior.pkg /\ kind["managed"] = prior.kind

\* rollback is called twice at most.
Counted == arch.step = "rollback" => arch.calls \in {1, 2}

IInv ==
    /\ TypeOK
    /\ Exclusive
    /\ Promoted
    /\ SetAside
    /\ Unlocked
    /\ AsFound
    /\ Counted
    /\ RecordedPackageSurvives

\* The types of an operation at a step, and of what it found.
ArchivesAt(step) ==
    [step: {step}, op: {"install", "upgrade"}, v: Versions0, calls: 0..2,
     hurt: SUBSET {"package", "stores"}]
Priors == [pkg: Versions0, kind: Kinds, art: Versions0, locked: BOOLEAN, rec: Records]

-----------------------------------------------------------------------------
(* What the scan makes of a record is a record.                            *)

\* applyLifecycleClassification returns a record of the store.
LEMMA ClassifyType ==
    ASSUME NEW r \in Records, NEW s \in Sources, NEW active \in Sources, NEW status \in Statuses,
           NEW enabled \in BOOLEAN, NEW preserve \in BOOLEAN, NEW block \in Blocks
    PROVE  Classify(r, s, active, status, enabled, preserve, block) \in Records
BY DEF Classify, Records, Flag, Blocks

\* Scanning a directory keeps the record a record.
LEMMA DiscoverType ==
    ASSUME NEW r \in Records, NEW s \in Sources, NEW k \in Kinds
    PROVE  Discover(r, s, k) \in Records
<1> DEFINE known == IF r.status = "none" THEN Discovered ELSE r
           seen == [known EXCEPT !.local = @ \/ s = "local"]
           active == IF seen.active = "none" THEN s ELSE seen.active
<1>1. Discovered \in Records
  BY DEF Discovered, Records, Statuses, Sources
<1>2. seen \in Records
  BY <1>1 DEF Records
<1>3. active \in Sources
  BY <1>2 DEF Records
<1> HIDE DEF known, seen, active
<1>4. Classify(seen, s, active, "incompatible", FALSE, TRUE, "incompatible") \in Records
  BY <1>2, <1>3, ClassifyType DEF Statuses, Blocks
<1>5. Classify(seen, s, active, "errored", FALSE, TRUE, "errored") \in Records
  BY <1>2, <1>3, ClassifyType DEF Statuses, Blocks
<1> USE DEF known, seen, active
<1> QED
  BY <1>2, <1>4, <1>5 DEF Discover, Kinds, Loadable

\* Classifying a loadable source keeps the record a record.
LEMMA RateType ==
    ASSUME NEW r \in Records, NEW before \in Records, before.active \in Sources,
           NEW s \in Sources, NEW k \in Kinds
    PROVE  Rate(r, before, s, k) \in Records
<1> DEFINE wanted == s = before.active /\ IF before.intent[s] = "unset" THEN before.enabled
                                                                       ELSE before.intent[s] = "on"
<1>1. wanted \in BOOLEAN
  BY DEF Records
<1> HIDE DEF wanted
<1>2. Classify(r, s, before.active, "errored", FALSE, TRUE, "errored") \in Records
  BY ClassifyType DEF Statuses, Blocks
<1>3. Classify(r, s, before.active, IF wanted THEN "validated" ELSE "disabled",
               wanted, FALSE, "none") \in Records
  <2>1. (IF wanted THEN "validated" ELSE "disabled") \in Statuses
    BY <1>1 DEF Statuses
  <2> QED
    BY <1>1, <2>1, ClassifyType DEF Blocks
<1> USE DEF wanted
<1> QED
  BY <1>2, <1>3 DEF Rate, Kinds, Loadable

\* The scan makes a record of a record, and selects a source or none.
LEMMA ScanType ==
    ASSUME NEW r \in Records, NEW k \in [Sources -> Kinds]
    PROVE  /\ ScannedRecord(r, k) \in Records
           /\ Selected(r, k) \in Sources \cup {"none"}
<1> DEFINE first == Discover([r EXCEPT !.local = FALSE], "managed", k["managed"])
           found == Discover(first, "local", k["local"])
           before == [found EXCEPT !.active = Chosen(found, k)]
<1>1. "managed" \in Sources /\ "local" \in Sources
  BY DEF Sources
<1>2. first \in Records
  <2>1. [r EXCEPT !.local = FALSE] \in Records
    BY DEF Records
  <2> QED
    BY <1>1, <2>1, DiscoverType
<1> HIDE DEF first
<1>3. found \in Records
  BY <1>1, <1>2, DiscoverType
<1> HIDE DEF found
<1>4. before \in Records
  BY <1>1, <1>3 DEF Records, Chosen
<1> HIDE DEF before
<1>5. ASSUME before.active # "none"
      PROVE  Rate(Rate(before, before, "managed", k["managed"]), before, "local", k["local"]) \in Records
  <2>1. before.active \in Sources
    BY <1>4, <1>5 DEF Records
  <2>2. Rate(before, before, "managed", k["managed"]) \in Records
    BY <1>1, <1>4, <2>1, RateType
  <2> QED
    BY <1>1, <1>4, <2>1, <2>2, RateType
<1>6. ScannedRecord(r, k) \in Records
  BY <1>3, <1>5 DEF ScannedRecord, first, found, before
<1>7. Selected(r, k) \in Sources \cup {"none"}
  BY DEF Selected, Records
<1> QED
  BY <1>6, <1>7

\* A record with a source in it keeps one through a scan.
LEMMA ScanKeepsSource ==
    ASSUME NEW r \in Records, NEW k \in [Sources -> Kinds],
           r.status # "none", r.active # "none"
    PROVE  ScannedRecord(r, k).active \in Sources
<1> DEFINE Known(x) == x \in Records /\ x.status # "none" /\ x.active # "none"
           seen == [r EXCEPT !.local = FALSE]
           first == Discover(seen, "managed", k["managed"])
           found == Discover(first, "local", k["local"])
           before == [found EXCEPT !.active = Chosen(found, k)]
           one == Rate(before, before, "managed", k["managed"])
           two == Rate(one, before, "local", k["local"])
<1>1. "managed" \in Sources /\ "local" \in Sources
  BY DEF Sources
<1>2. Known(seen)
  BY DEF Records
<1>3. ASSUME NEW x, Known(x), NEW s \in Sources, NEW j \in Kinds
      PROVE  Known(Discover(x, s, j))
  <2>1. Discover(x, s, j) \in Records
    BY <1>3, DiscoverType
  <2>2. Discover(x, s, j).status # "none" /\ Discover(x, s, j).active # "none"
    <3> DEFINE here == [x EXCEPT !.local = @ \/ s = "local"]
    <3>1. here \in Records /\ here.status = x.status /\ here.active = x.active
      BY <1>3 DEF Records
    <3> HIDE DEF here
    <3>2. ASSUME NEW status \in {"incompatible", "errored"}
          PROVE  /\ Classify(here, s, here.active, status, FALSE, TRUE, status).status # "none"
                 /\ Classify(here, s, here.active, status, FALSE, TRUE, status).active # "none"
      BY <1>3, <3>1 DEF Classify, Records
    <3> USE DEF here
    <3> QED
      BY <1>3, <3>1, <3>2 DEF Discover, Kinds, Loadable
  <2> QED
    BY <2>1, <2>2
<1> HIDE DEF Known, seen
<1>4. Known(first)
  BY <1>1, <1>2, <1>3
<1> HIDE DEF first
<1>5. Known(found)
  BY <1>1, <1>3, <1>4
<1> HIDE DEF found
<1>6. found.active \in Sources /\ found \in Records
  BY <1>5 DEF Known, Records
<1>7. before \in Records
  BY <1>1, <1>6 DEF Records, Chosen
<1> HIDE DEF before
<1>8. ASSUME before.active # "none"
      PROVE  two.active \in Sources
  <2>1. before.active \in Sources
    BY <1>7, <1>8 DEF Records
  <2>2. one \in Records /\ one.active \in Sources
    <3>1. one \in Records
      BY <1>1, <1>7, <2>1, RateType
    <3>2. one.active \in Sources
      BY <1>7, <2>1 DEF Rate, Classify, Kinds, Loadable, Records
    <3> QED
      BY <3>1, <3>2
  <2> HIDE DEF one
  <2> QED
    BY <2>1, <2>2 DEF Rate, Classify, Kinds, Loadable, Records
<1> QED
  BY <1>6, <1>8 DEF ScannedRecord, seen, first, found, before

\* A scan keeps the stores' and the plugin's types.
LEMMA ScanStep ==
    ASSUME NEW r \in Records, NEW k \in [Sources -> Kinds], Scan(r, k)
    PROVE  rec' \in Records /\ file' \in Records /\ plugin' \in Sources \cup {"none"}
<1>1. ScannedRecord(r, k) \in Records
  BY ScanType
<1> QED
  BY <1>1, ScanType DEF Scan

\* What is written of a record reads as a record.
LEMMA PersistedType ==
    ASSUME NEW r \in Records
    PROVE  Persisted(r) \in Records /\ NoRecord \in Records
BY DEF Persisted, NoRecord, Discovered, Records, Statuses, Sources

-----------------------------------------------------------------------------
(* The operator, the module's code and the surroundings move neither the   *)
(* package nor its record.                                                 *)

\* The initial state satisfies the invariant.
LEMMA InitIInv == Init => IInv
<1> SUFFICES ASSUME Init PROVE IInv
  OBVIOUS
<1>1. NoRecord \in Records
  BY DEF NoRecord, Discovered, Records, Statuses, Sources
<1>2. TypeOK
  <2>1. 0 \in Versions0 /\ 0 \in 0..MaxFaults /\ 0 \in 0..MaxCrashes /\ 0 \in 0..MaxEdits
    BY RegistryAssumption DEF Versions0
  <2>2. prior \in Priors
    BY <1>1, <2>1 DEF Init, Nothing, Kinds, Priors
  <2>3. arch.v = 0 /\ arch \in ArchivesAt("idle")
    BY <2>1 DEF Init, NoArchive, ArchivesAt
  <2>4. kind \in [Sources -> Kinds] /\ word \in [Sources -> {"none", "on", "off"}]
    BY DEF Init, Kinds
  <2> QED
    BY <1>1, <2>1, <2>2, <2>3, <2>4 DEF Init, TypeOK, ArchivesAt, Priors
<1> QED
  BY <1>2 DEF Init, IInv, Exclusive, Promoted, SetAside, Changing, Unlocked, AsFound, Counted, NoArchive,
              RecordedPackageSurvives

\* Steps of the operator and of the module's code: they only run between the
\* operations, and change the lifecycle record, the lock and what is in use.
LEMMA OperateStep ==
    ASSUME IInv, Operate
    PROVE  /\ IInv'
           /\ art' = art
<1> USE DEF IInv
<1>1. Turn /\ UNCHANGED <<up, kind, pkg, kept, wrecked, art, arch, prior, un, bounds>>
  BY DEF Operate, SwitchSource, Enable, Disable, SetLock, Validate, Use, Used, UseFails, files, bounds
<1>2. ASSUME NEW r \in Records, NEW s \in Sources
      PROVE  /\ SetIntent(r, s, TRUE) \in Records
             /\ Switched(r, s) \in Records
  BY DEF SetIntent, Switched, Records, Sources, Flag, Other, Statuses
<1>3. ASSUME NEW r \in Records, r.active # "none"
      PROVE  EnabledRecord(r) \in Records /\ EnabledRecord(r).active \in Sources
  <2>1. r.active \in Sources
    BY <1>3 DEF Records
  <2> QED
    BY <1>3, <2>1 DEF EnabledRecord, SetIntent, Records, Sources, Flag, Other, Statuses
<1>4. TypeOK'
  <2>1. rec' \in Records /\ file' \in Records /\ plugin' \in Sources \cup {"none"}
    <3>1. CASE \E s \in Sources : SwitchSource(s)
      BY <1>2, <3>1, ScanStep DEF SwitchSource, TypeOK
    <3>2. CASE \E s \in Sources : Enable(s)
      <4> PICK s \in Sources : Enable(s)
        BY <3>2
      <4>1. CASE s = rec.active
        <5>1. EnabledRecord(rec) \in Records
          BY <1>3, <4>1 DEF TypeOK, Sources
        <5> QED
          BY <4>1, <5>1 DEF Enable, TypeOK
      <4>2. CASE s # rec.active
        <5> DEFINE switched == Switched(rec, s)
                   ready == ScannedRecord(switched, kind)
        <5>1. switched \in Records /\ switched.status # "none" /\ switched.active # "none"
          <6>1. rec \in Records /\ switched \in Records
            BY <1>2 DEF TypeOK
          <6>2. SetIntent(rec, s, rec.enabled) \in Records
            BY <6>1 DEF SetIntent, Records, Sources, Flag, Other
          <6>3. switched.status # "none" /\ switched.active # "none"
            BY <6>2 DEF Switched, Records, Sources
          <6> QED
            BY <6>1, <6>3
        <5> HIDE DEF switched
        <5>2. ready \in Records /\ ready.active \in Sources
          BY <5>1, ScanType, ScanKeepsSource DEF TypeOK
        <5>3. Selected(ready, kind) \in Sources \cup {"none"}
          BY <5>2, ScanType DEF TypeOK
        <5>4. EnabledRecord(ready) \in Records
          BY <1>3, <5>2 DEF Sources
        <5> HIDE DEF ready
        <5> QED
          BY <4>2, <5>3, <5>4 DEF Enable, ready, switched
      <4> QED
        BY <4>1, <4>2
    <3>3. CASE \E s \in Sources : Disable(s)
      <4> PICK s \in Sources : Disable(s)
        BY <3>3
      <4>1. rec' \in Records
        BY DEF Disable, TypeOK, Records, Statuses
      <4> QED
        BY <4>1, PersistedType DEF Disable, TypeOK
    <3>4. CASE \E b \in BOOLEAN : SetLock(b)
      BY <3>4 DEF SetLock, records, TypeOK
    <3>5. CASE Validate
      BY <3>5, PersistedType, ScanStep DEF Validate, TypeOK
    <3>6. CASE Use \/ Used
      BY <3>6 DEF Use, Used, records, TypeOK
    <3>7. CASE UseFails
      <4>1. rec' \in Records
        BY <3>7 DEF UseFails, FailedRecord, TypeOK, Records, Statuses, Sources
      <4> QED
        BY <3>7, <4>1, PersistedType DEF UseFails, TypeOK
    <3> QED
      BY <3>1, <3>2, <3>3, <3>4, <3>5, <3>6, <3>7 DEF Operate
  <2>2. locked' \in BOOLEAN
    BY DEF Operate, SwitchSource, Enable, Disable, SetLock, Validate, Use, Used, UseFails, files, TypeOK
  <2>3. using' \in Sources \cup {"none"}
    BY DEF Operate, SwitchSource, Enable, Disable, SetLock, Validate, Use, Used, UseFails, TypeOK
  <2>4. word' \in [Sources -> {"none", "on", "off"}]
    BY DEF Operate, SwitchSource, Enable, Disable, SetLock, Validate, Use, Used, UseFails, TypeOK
  <2> QED
    BY <1>1, <2>1, <2>2, <2>3, <2>4 DEF TypeOK, bounds
<1>5. Exclusive' /\ Promoted' /\ SetAside' /\ RecordedPackageSurvives'
  BY <1>1 DEF Exclusive, Promoted, SetAside, Changing, SafeAside, Turn, RecordedPackageSurvives
<1>6. Unlocked' /\ AsFound'
  BY <1>1 DEF Turn, Unlocked, AsFound
<1> QED
  BY <1>1, <1>4, <1>5, <1>6 DEF Turn, Counted

-----------------------------------------------------------------------------
(* An archive operation.                                                   *)

\* What one step may do to a locked record: LocksHold's action.
KeepsLocked == art # 0 /\ locked => art' = art \/ (art' = 0 /\ (~up' \/ faults' # faults))

\* The counters of the type invariant.
LEMMA FaultType ==
    ASSUME TypeOK, Fault \/ NoFault
    PROVE  faults' \in 0..MaxFaults /\ (Fault => faults' # faults)
BY RegistryAssumption DEF Fault, NoFault, TypeOK

\* A failed write of the artifact store loses it, or nothing.
LEMMA TornType ==
    ASSUME TypeOK, TornArtifact
    PROVE  /\ art' \in Versions0 /\ locked' \in BOOLEAN
           /\ UNCHANGED <<art, locked>> \/ (art' = 0 /\ locked' = FALSE)
<1>1. 0 \in Versions0
  BY RegistryAssumption DEF Versions0
<1>2. UNCHANGED <<art, locked>> \/ (art' = 0 /\ locked' = FALSE)
  BY DEF TornArtifact
<1> QED
  BY <1>1, <1>2 DEF TypeOK

\* What is left of the lifecycle store is a record.
LEMMA TornRecordType ==
    ASSUME TypeOK, TornRecord
    PROVE  file' \in Records
<1>1. NoRecord \in Records
  BY DEF NoRecord, Discovered, Records, Statuses, Sources
<1> QED
  BY <1>1 DEF TornRecord, TypeOK

\* An operation that passed its preview has found no record, or the one it
\* upgrades.
LEMMA BeginStep ==
    ASSUME IInv, NEW op \in {"install", "upgrade"}, NEW v \in Versions, Begin(op, v)
    PROVE  IInv' /\ KeepsLocked
<1> USE DEF IInv
<1>1. UNCHANGED <<up, kind, pkg, kept, wrecked, art, locked, file, rec, plugin, prior, un, using, word,
                  faults, crashes, edits>>
  BY DEF Begin, files, records, bounds
<1>2. v \in Versions0
  BY RegistryAssumption DEF Versions, Versions0
<1>3. TypeOK'
  <2>1. arch' = [step |-> "waiting", op |-> op, v |-> v, calls |-> 0, hurt |-> {}]
    BY DEF Begin, NoArchive
  <2>2. arch' \in ArchivesAt("waiting")
    BY <1>2, <2>1 DEF ArchivesAt
  <2> QED
    BY <1>1, <2>2 DEF TypeOK, ArchivesAt
<1>4. pkg \in Nat /\ art \in Nat
  BY RegistryAssumption DEF TypeOK, Versions0
<1>5. op = "install" => art = 0
  BY <1>4 DEF Begin
<1> QED
  BY <1>1, <1>3, <1>5 DEF Begin, Turn, Exclusive, Promoted, SetAside, Changing, Unlocked, AsFound, Counted,
                          RecordedPackageSurvives, KeepsLocked, TypeOK

\* Moving an operation to another step changes nothing else of it.
LEMMA StepType ==
    ASSUME TypeOK, NEW step, arch' = [arch EXCEPT !.step = step]
    PROVE  /\ arch' \in ArchivesAt(step) /\ arch'.step = step
           /\ arch'.op = arch.op /\ arch'.v = arch.v
           /\ arch'.calls = arch.calls /\ arch'.hurt = arch.hurt
BY DEF TypeOK, ArchivesAt

\* A returned failure leads to two calls of rollback at most.
LEMMA ReturnedType ==
    ASSUME TypeOK, Returned
    PROVE  /\ arch' \in ArchivesAt("rollback") /\ arch'.step = "rollback"
           /\ arch'.op = arch.op /\ arch'.calls = 2 /\ arch'.hurt = arch.hurt
<1>1. /\ arch.op \in {"install", "upgrade"} /\ arch.v \in Versions0 /\ arch.calls \in 0..2
      /\ arch.hurt \in SUBSET {"package", "stores"}
  BY DEF TypeOK
<1>2. arch' = [step |-> "rollback", op |-> arch.op, v |-> arch.v, calls |-> 2, hurt |-> arch.hurt]
  BY DEF TypeOK, Returned
<1> QED
  BY <1>1, <1>2 DEF ArchivesAt

\* An exception leads to one.
LEMMA ThrownType ==
    ASSUME TypeOK, NEW hurt \in SUBSET {"package", "stores"}, Thrown(hurt)
    PROVE  /\ arch' \in ArchivesAt("rollback") /\ arch'.step = "rollback"
           /\ arch'.op = arch.op /\ arch'.calls = 1 /\ arch'.hurt = arch.hurt \cup hurt
<1>1. /\ arch.op \in {"install", "upgrade"} /\ arch.v \in Versions0 /\ arch.calls \in 0..2
      /\ arch.hurt \in SUBSET {"package", "stores"}
  BY DEF TypeOK
<1>2. arch' = [step |-> "rollback", op |-> arch.op, v |-> arch.v, calls |-> 1,
               hurt |-> arch.hurt \cup hurt]
  BY DEF TypeOK, Thrown
<1>3. arch.hurt \cup hurt \in SUBSET {"package", "stores"}
  BY <1>1
<1> QED
  BY <1>1, <1>2, <1>3 DEF ArchivesAt

\* A failure, returned or thrown, leads to rollback.
LEMMA FailureType ==
    ASSUME TypeOK, NEW hurt \in SUBSET {"package", "stores"}, Returned \/ Thrown(hurt)
    PROVE  /\ arch' \in ArchivesAt("rollback") /\ arch'.step = "rollback"
           /\ arch'.op = arch.op /\ arch'.calls \in {1, 2}
           /\ Thrown(hurt) => hurt \subseteq arch'.hurt
<1>1. CASE Returned /\ ~Thrown(hurt)
  BY <1>1, ReturnedType
<1>2. CASE Thrown(hurt)
  BY <1>2, ThrownType
<1> QED
  BY <1>1, <1>2

\* The package that was there, which the record names, is set aside.
LEMMA RetainStep ==
    ASSUME IInv, Retain
    PROVE  IInv' /\ KeepsLocked
<1> USE DEF IInv
<1>1. UNCHANGED <<up, wrecked, art, locked, file, rec, plugin, un, using, word, crashes, edits>>
  BY DEF Retain, records
<1>2. prior' = [pkg |-> pkg, kind |-> kind["managed"], art |-> art, locked |-> locked, rec |-> rec]
  BY DEF Retain
<1>3. prior' \in Priors
  BY <1>2 DEF TypeOK, Sources, Priors
<1>4. faults' \in 0..MaxFaults
  BY FaultType DEF Retain
<1>5. arch.step = "waiting" /\ up /\ un = "idle"
  BY DEF Retain, Turn
<1>6. CASE Step("retained")
  <2>1. /\ arch' \in ArchivesAt("retained") /\ arch'.step = "retained" /\ arch'.op = arch.op
    BY <1>6, StepType DEF Step
  <2>2. /\ pkg' = 0 /\ kept' = kept \cup Aside(pkg)
        /\ kind' = [kind EXCEPT !["managed"] = "absent"]
    BY <2>1 DEF Retain, Step, TypeOK
  <2>3. pkg' \in Versions0 /\ kept' \subseteq Versions
    BY <2>2, RegistryAssumption DEF TypeOK, Versions, Versions0, Aside
  <2>4. kind' \in [Sources -> Kinds]
    BY <2>2 DEF TypeOK, Sources, Kinds
  <2>5. TypeOK'
    BY <1>1, <1>3, <1>4, <2>1, <2>3, <2>4 DEF TypeOK, ArchivesAt, Priors
  <2>6. art \in {0} \cup wrecked \cup kept'
    BY <2>2 DEF RecordedPackageSurvives, Aside
  <2>7. SafeAside(prior.art)' /\ RecordedPackageSurvives'
    BY <1>1, <1>2, <2>6 DEF SafeAside, RecordedPackageSurvives
  <2> QED
    BY <1>1, <1>2, <1>5, <2>1, <2>5, <2>7
       DEF Exclusive, Promoted, SetAside, Changing, Unlocked, AsFound, Counted, KeepsLocked
<1>7. CASE Step("failed")
  <2>1. arch' \in ArchivesAt("failed") /\ arch'.step = "failed"
    BY <1>7, StepType DEF Step
  <2>2. UNCHANGED <<pkg, kind, kept>>
    BY <2>1 DEF Retain, Step, TypeOK
  <2>3. TypeOK'
    BY <1>1, <1>3, <1>4, <2>1, <2>2 DEF TypeOK, ArchivesAt, Priors
  <2>4. SameRecord(rec, prior.rec)' /\ RecordedPackageSurvives'
    BY <1>1, <1>2, <2>2 DEF SameRecord, EnabledForRuntime, RecordedPackageSurvives
  <2> QED
    BY <1>1, <1>2, <1>5, <2>1, <2>2, <2>3, <2>4
       DEF Exclusive, Promoted, SetAside, Changing, Unlocked, AsFound, Counted, KeepsLocked
<1> QED
  BY <1>6, <1>7 DEF Retain

\* What putting the previous package back does to the invariant's parts.
LEMMA PutBackStep ==
    ASSUME TypeOK, PutBack, SafeAside(prior.art), art \in {0, prior.art},
           UNCHANGED <<art, prior, wrecked>>
    PROVE  /\ pkg' \in Versions0 /\ kind' \in [Sources -> Kinds] /\ kept' \subseteq Versions
           /\ pkg' = prior.pkg /\ kind'["managed"] = prior.kind
           /\ RecordedPackageSurvives'
           /\ SafeAside(prior.art)' \/ (prior.art = pkg' /\ pkg' \notin kept')
BY DEF PutBack, TypeOK, Sources, RecordedPackageSurvives, SafeAside

\* The second rename puts the new version in the place of the one set aside.
LEMMA PromoteStep ==
    ASSUME IInv, Promote
    PROVE  IInv' /\ KeepsLocked
<1> USE DEF IInv
<1>1. UNCHANGED <<up, wrecked, art, locked, file, rec, plugin, prior, un, using, word, crashes, edits>>
  BY DEF Promote, records
<1>2. /\ arch.step = "retained" /\ up /\ un = "idle" /\ SafeAside(prior.art)
      /\ art = prior.art /\ locked = prior.locked /\ rec = prior.rec
  BY DEF Promote, Exclusive, SetAside, Changing, AsFound
<1>3. faults' \in 0..MaxFaults
  BY FaultType DEF Promote
<1>4. SameRecord(rec, prior.rec)'
  BY <1>1, <1>2 DEF SameRecord, EnabledForRuntime
<1>5. CASE Step("promoted")
  <2>1. /\ arch' \in ArchivesAt("promoted") /\ arch'.step = "promoted"
        /\ arch'.op = arch.op /\ arch'.v = arch.v
    BY <1>5, StepType DEF Step
  <2>2. /\ pkg' = arch.v /\ kept' = kept
        /\ kind' = [kind EXCEPT !["managed"] = "fit"]
    BY <2>1 DEF Promote, Step, TypeOK
  <2>3. kind' \in [Sources -> Kinds]
    BY <2>2 DEF TypeOK, Sources, Kinds
  <2>4. TypeOK'
    BY <1>1, <1>3, <2>1, <2>2, <2>3 DEF TypeOK, ArchivesAt
  <2>5. SafeAside(prior.art)' /\ RecordedPackageSurvives'
    BY <1>1, <1>2, <2>2 DEF SafeAside, RecordedPackageSurvives
  <2> QED
    BY <1>1, <1>2, <2>1, <2>2, <2>4, <2>5
       DEF Exclusive, Promoted, SetAside, Changing, Unlocked, AsFound, Counted, KeepsLocked
<1>6. CASE arch'.step = "failed"
  <2>1. /\ arch' \in ArchivesAt("failed")
        /\ \/ PutBack
           \/ arch'.hurt = {"package"} /\ UNCHANGED <<pkg, kind, kept>>
    <3>1. CASE Step("failed") /\ PutBack
      BY <3>1, StepType DEF Step
    <3>2. CASE /\ arch' = [arch EXCEPT !.step = "failed", !.hurt = {"package"}]
               /\ UNCHANGED <<pkg, kind, kept>>
      BY <3>2 DEF TypeOK, ArchivesAt
    <3>3. ~Step("promoted")
      BY <1>6 DEF Step, TypeOK
    <3> QED
      BY <3>1, <3>2, <3>3 DEF Promote
  <2>2. /\ pkg' \in Versions0 /\ kind' \in [Sources -> Kinds] /\ kept' \subseteq Versions
        /\ "package" \notin arch'.hurt => pkg' = prior.pkg /\ kind'["managed"] = prior.kind
        /\ RecordedPackageSurvives'
    <3>1. CASE PutBack
      BY <1>1, <1>2, <3>1, PutBackStep
    <3>2. CASE arch'.hurt = {"package"} /\ UNCHANGED <<pkg, kind, kept>>
      BY <1>1, <3>2 DEF TypeOK, RecordedPackageSurvives
    <3> QED
      BY <2>1, <3>1, <3>2
  <2>3. TypeOK'
    BY <1>1, <1>3, <2>1, <2>2 DEF TypeOK, ArchivesAt
  <2> QED
    BY <1>1, <1>2, <1>4, <1>6, <2>2, <2>3
       DEF Exclusive, Promoted, SetAside, Changing, Unlocked, AsFound, Counted, KeepsLocked
<1> QED
  BY <1>5, <1>6, StepType DEF Promote, Step, TypeOK

\* A record without a status stands for none: giving it one changes nothing.
LEMMA Rediscovered ==
    ASSUME NEW r \in Records
    PROVE  Recalled(r) \in Records /\ SameRecord(Recalled(r), r)
BY DEF Recalled, Records, Statuses, SameRecord, EnabledForRuntime

\* The lock is looked at again in the turn of the renames, and the verification saved.
LEMMA VerifyStep ==
    ASSUME IInv, Verify
    PROVE  IInv' /\ KeepsLocked
<1> USE DEF IInv
<1>1. UNCHANGED <<up, kind, pkg, kept, wrecked, file, rec, plugin, prior, un, using, word, crashes, edits>>
  BY DEF Verify, records
<1>2. /\ arch.step = "promoted" /\ up /\ un = "idle" /\ SafeAside(prior.art)
      /\ pkg = arch.v /\ rec = prior.rec /\ art = prior.art /\ locked = prior.locked
  BY DEF Verify, Exclusive, Promoted, SetAside, Changing, AsFound
<1>3. faults' \in 0..MaxFaults
  BY FaultType DEF Verify
<1>4. SafeAside(prior.art)' /\ SameRecord(rec, prior.rec)'
  BY <1>1, <1>2 DEF SafeAside, SameRecord, EnabledForRuntime
<1>5. CASE Step("verified")
  <2>1. /\ arch' \in ArchivesAt("verified") /\ arch'.step = "verified"
        /\ arch'.op = arch.op /\ arch'.v = arch.v
    BY <1>5, StepType DEF Step
  <2>2. FacadeAllows /\ UNCHANGED <<art, locked>>
    BY <2>1 DEF Verify, Returned, Thrown, TypeOK
  <2>3. TypeOK' /\ RecordedPackageSurvives'
    BY <1>1, <1>3, <2>1, <2>2 DEF TypeOK, ArchivesAt, RecordedPackageSurvives
  <2>4. arch.op = "upgrade" => art = 0 \/ ~locked
    BY <2>2 DEF FacadeAllows
  <2> QED
    BY <1>1, <1>2, <1>4, <2>1, <2>2, <2>3, <2>4
       DEF Exclusive, Promoted, SetAside, Changing, Unlocked, AsFound, Counted, KeepsLocked
<1>6. CASE Returned /\ UNCHANGED <<art, locked>>
  <2>1. arch' \in ArchivesAt("rollback") /\ arch'.step = "rollback" /\ arch'.calls \in {1, 2}
    BY <1>6, FailureType
  <2>2. TypeOK' /\ RecordedPackageSurvives'
    BY <1>1, <1>3, <1>6, <2>1 DEF TypeOK, ArchivesAt, RecordedPackageSurvives
  <2> QED
    BY <1>1, <1>2, <1>4, <1>6, <2>1, <2>2
       DEF Exclusive, Promoted, SetAside, Changing, Unlocked, AsFound, Counted, KeepsLocked
<1>7. CASE Fault /\ TornArtifact /\ Thrown(IF UNCHANGED <<art, locked>> THEN {} ELSE {"stores"})
  <2> DEFINE hurt == IF UNCHANGED <<art, locked>> THEN {} ELSE {"stores"}
  <2>1. hurt \in SUBSET {"package", "stores"} /\ ("stores" \notin hurt => UNCHANGED <<art, locked>>)
    OBVIOUS
  <2>2. Thrown(hurt)
    BY <1>7
  <2> HIDE DEF hurt
  <2>3. /\ arch' \in ArchivesAt("rollback") /\ arch'.step = "rollback" /\ arch'.calls \in {1, 2}
        /\ hurt \subseteq arch'.hurt
    BY <2>1, <2>2, FailureType
  <2>4. art' \in Versions0 /\ locked' \in BOOLEAN /\ (UNCHANGED <<art, locked>> \/ art' = 0)
    BY <1>7, TornType
  <2>5. TypeOK' /\ RecordedPackageSurvives'
    BY <1>1, <1>3, <2>3, <2>4 DEF TypeOK, ArchivesAt, RecordedPackageSurvives
  <2>6. faults' # faults
    BY <1>7, FaultType
  <2> QED
    BY <1>1, <1>2, <1>4, <2>1, <2>3, <2>4, <2>5, <2>6
       DEF Exclusive, Promoted, SetAside, Changing, Unlocked, AsFound, Counted, KeepsLocked
<1> QED
  BY <1>5, <1>6, <1>7 DEF Verify

\* The first store is written in the turn of the renames.
LEMMA RegisterStep ==
    ASSUME IInv, Register
    PROVE  IInv' /\ KeepsLocked
<1> USE DEF IInv
<1>1. UNCHANGED <<up, kind, pkg, kept, wrecked, art, locked, plugin, prior, un, using, word, crashes, edits>>
  BY DEF Register, files
<1>2. /\ arch.step = "verified" /\ up /\ un = "idle" /\ SafeAside(prior.art)
      /\ pkg = arch.v /\ rec = prior.rec /\ art = prior.art /\ locked = prior.locked
  BY DEF Register, Exclusive, Promoted, SetAside, Changing, AsFound
<1>3. faults' \in 0..MaxFaults
  BY FaultType DEF Register
<1>4. SafeAside(prior.art)' /\ RecordedPackageSurvives'
  BY <1>1, <1>2 DEF SafeAside, RecordedPackageSurvives
<1>5. CASE Step("recorded")
  <2>1. /\ arch' \in ArchivesAt("recorded") /\ arch'.step = "recorded"
        /\ arch'.op = arch.op /\ arch'.v = arch.v
    BY <1>5, StepType DEF Step
  <2>2. rec' = [rec EXCEPT !.status = "validated"] /\ file' = Persisted(rec')
    BY <2>1 DEF Register, Step, Returned, TypeOK
  <2>3. rec' \in Records
    BY <2>2 DEF TypeOK, Records, Statuses
  <2>4. file' \in Records
    BY <2>2, <2>3, PersistedType
  <2>5. TypeOK'
    BY <1>1, <1>3, <2>1, <2>3, <2>4 DEF TypeOK, ArchivesAt
  <2> QED
    BY <1>1, <1>2, <1>4, <2>1, <2>5
       DEF Exclusive, Promoted, SetAside, Changing, Unlocked, AsFound, Counted, KeepsLocked
<1>6. CASE Returned /\ UNCHANGED <<file, rec>>
  <2>1. arch' \in ArchivesAt("rollback") /\ arch'.step = "rollback" /\ arch'.calls \in {1, 2}
    BY <1>6, FailureType
  <2>2. TypeOK' /\ SameRecord(rec, prior.rec)'
    BY <1>1, <1>2, <1>3, <1>6, <2>1 DEF TypeOK, ArchivesAt, SameRecord, EnabledForRuntime
  <2> QED
    BY <1>1, <1>2, <1>4, <2>1, <2>2
       DEF Exclusive, Promoted, SetAside, Changing, Unlocked, AsFound, Counted, KeepsLocked
<1>7. CASE Step("undo") /\ rec' = Recalled(rec) /\ TornRecord
  <2>1. arch' \in ArchivesAt("undo") /\ arch'.step = "undo"
    BY <1>7, StepType DEF Step
  <2>2. rec' \in Records /\ SameRecord(rec', prior.rec)
    BY <1>2, <1>7, Rediscovered DEF TypeOK
  <2>3. TypeOK'
    BY <1>1, <1>3, <1>7, <2>1, <2>2, TornRecordType DEF TypeOK, ArchivesAt
  <2>4. SameRecord(rec, prior.rec)'
    BY <1>1, <2>2 DEF SameRecord, EnabledForRuntime
  <2> QED
    BY <1>1, <1>2, <1>4, <2>1, <2>3, <2>4
       DEF Exclusive, Promoted, SetAside, Changing, Unlocked, AsFound, Counted, KeepsLocked
<1> QED
  BY <1>5, <1>6, <1>7 DEF Register

\* The second store: the record now names the package that is in its place.
LEMMA RecordArtifactStep ==
    ASSUME IInv, RecordArtifact
    PROVE  IInv' /\ KeepsLocked
<1> USE DEF IInv
<1>1. UNCHANGED <<up, kind, pkg, kept, file, plugin, prior, un, using, word, crashes, edits>>
  BY DEF RecordArtifact
<1>2. /\ arch.step = "recorded" /\ up /\ un = "idle" /\ SafeAside(prior.art)
      /\ pkg = arch.v /\ art = prior.art /\ locked = prior.locked
      /\ (art = 0 \/ ~locked)
  BY DEF RecordArtifact, Exclusive, Promoted, SetAside, Changing, AsFound, Unlocked, TypeOK
<1>3. faults' \in 0..MaxFaults
  BY FaultType DEF RecordArtifact
<1>4. CASE Step("registered")
  <2>1. arch' \in ArchivesAt("registered") /\ arch'.step = "registered" /\ arch'.v = arch.v
    BY <1>4, StepType DEF Step
  <2>2. /\ art' = arch.v /\ locked' = (locked /\ arch.op = "upgrade")
        /\ wrecked' = wrecked \ {arch.v} /\ UNCHANGED rec
    BY <2>1 DEF RecordArtifact, Step, TypeOK
  <2>3. TypeOK' /\ RecordedPackageSurvives'
    BY <1>1, <1>2, <1>3, <2>1, <2>2 DEF TypeOK, ArchivesAt, RecordedPackageSurvives
  <2> QED
    BY <1>1, <1>2, <2>1, <2>2, <2>3
       DEF Exclusive, Promoted, SetAside, Changing, Unlocked, AsFound, Counted, KeepsLocked
<1>5. CASE /\ Step("undo") /\ Fault /\ TornArtifact
           /\ rec' = Recalled(prior.rec) /\ UNCHANGED wrecked
  <2>1. arch' \in ArchivesAt("undo") /\ arch'.step = "undo"
    BY <1>5, StepType DEF Step
  <2>2. rec' \in Records /\ SameRecord(rec', prior.rec)
    BY <1>5, Rediscovered DEF TypeOK
  <2>3. art' \in Versions0 /\ locked' \in BOOLEAN /\ art' \in {art, 0} /\ faults' # faults
    BY <1>5, TornType, FaultType
  <2>4. TypeOK'
    BY <1>1, <1>3, <1>5, <2>1, <2>2, <2>3 DEF TypeOK, ArchivesAt
  <2>5. SameRecord(rec, prior.rec)' /\ SafeAside(prior.art)' /\ RecordedPackageSurvives'
    BY <1>1, <1>2, <1>5, <2>2, <2>3
       DEF SameRecord, EnabledForRuntime, SafeAside, RecordedPackageSurvives
  <2> QED
    BY <1>1, <1>2, <2>1, <2>3, <2>4, <2>5
       DEF Exclusive, Promoted, SetAside, Changing, Unlocked, AsFound, Counted, KeepsLocked
<1> QED
  BY <1>4, <1>5 DEF RecordArtifact

\* The catch writes the lifecycle store back, or leaves it as it is.
LEMMA UndoRecordStep ==
    ASSUME IInv, UndoRecord
    PROVE  IInv' /\ KeepsLocked
<1> USE DEF IInv
<1>1. UNCHANGED <<up, kind, pkg, kept, wrecked, art, locked, rec, plugin, prior, un, using, word, crashes, edits>>
  BY DEF UndoRecord, files
<1>2. /\ arch.step = "undo" /\ up /\ un = "idle" /\ SafeAside(prior.art)
      /\ art \in {0, prior.art} /\ SameRecord(rec, prior.rec)
  BY DEF UndoRecord, Exclusive, SetAside, Changing, AsFound
<1>3. faults' \in 0..MaxFaults
  BY FaultType DEF UndoRecord
<1>4. SafeAside(prior.art)' /\ RecordedPackageSurvives' /\ SameRecord(rec, prior.rec)'
  BY <1>1, <1>2 DEF SafeAside, RecordedPackageSurvives, SameRecord, EnabledForRuntime
<1>5. CASE Step("undone") /\ file' = Persisted(rec)
  <2>1. arch' \in ArchivesAt("undone") /\ arch'.step = "undone"
    BY <1>5, StepType DEF Step
  <2>2. TypeOK'
    BY <1>1, <1>3, <1>5, <2>1, PersistedType DEF TypeOK, ArchivesAt
  <2> QED
    BY <1>1, <1>2, <1>4, <2>1, <2>2
       DEF Exclusive, Promoted, SetAside, Changing, Unlocked, AsFound, Counted, KeepsLocked
<1>6. CASE Thrown({"stores"}) /\ TornRecord
  <2>1. /\ arch' \in ArchivesAt("rollback") /\ arch'.step = "rollback" /\ arch'.calls \in {1, 2}
        /\ "stores" \in arch'.hurt
    BY <1>6, FailureType
  <2>2. TypeOK'
    BY <1>1, <1>3, <1>6, <2>1, TornRecordType DEF TypeOK, ArchivesAt
  <2> QED
    BY <1>1, <1>2, <1>4, <2>1, <2>2
       DEF Exclusive, Promoted, SetAside, Changing, Unlocked, AsFound, Counted, KeepsLocked
<1> QED
  BY <1>5, <1>6 DEF UndoRecord

\* The catch writes the artifact record that was there, or loses it.
LEMMA UndoArtifactStep ==
    ASSUME IInv, UndoArtifact
    PROVE  IInv' /\ KeepsLocked
<1> USE DEF IInv
<1>1. UNCHANGED <<up, kind, pkg, kept, wrecked, file, rec, plugin, prior, un, using, word, crashes, edits>>
  BY DEF UndoArtifact, records
<1>2. /\ arch.step = "undone" /\ up /\ un = "idle" /\ SafeAside(prior.art)
      /\ art \in {0, prior.art} /\ SameRecord(rec, prior.rec)
  BY DEF UndoArtifact, Exclusive, SetAside, Changing, AsFound
<1>3. faults' \in 0..MaxFaults
  BY FaultType DEF UndoArtifact
<1>4. SafeAside(prior.art)' /\ SameRecord(rec, prior.rec)'
  BY <1>1, <1>2 DEF SafeAside, SameRecord, EnabledForRuntime
<1>5. /\ arch' \in ArchivesAt("rollback") /\ arch'.step = "rollback" /\ arch'.calls \in {1, 2}
      /\ Thrown({"stores"}) => "stores" \in arch'.hurt
  BY FailureType DEF UndoArtifact
<1>6. CASE Returned /\ art' = prior.art /\ locked' = prior.locked
  <2>1. TypeOK' /\ RecordedPackageSurvives'
    BY <1>1, <1>2, <1>3, <1>5, <1>6 DEF TypeOK, ArchivesAt, RecordedPackageSurvives, SafeAside
  <2> QED
    BY <1>1, <1>2, <1>4, <1>5, <1>6, <2>1
       DEF Exclusive, Promoted, SetAside, Changing, Unlocked, AsFound, Counted, KeepsLocked
<1>7. CASE Thrown({"stores"}) /\ Fault /\ TornArtifact
  <2>1. art' \in Versions0 /\ locked' \in BOOLEAN /\ art' \in {art, 0} /\ faults' # faults
    BY <1>7, TornType, FaultType
  <2>2. TypeOK' /\ RecordedPackageSurvives'
    BY <1>1, <1>3, <1>5, <2>1 DEF TypeOK, ArchivesAt, RecordedPackageSurvives
  <2> QED
    BY <1>1, <1>2, <1>4, <1>5, <1>7, <2>1, <2>2
       DEF Exclusive, Promoted, SetAside, Changing, Unlocked, AsFound, Counted, KeepsLocked
<1> QED
  BY <1>6, <1>7 DEF UndoArtifact

\* No record, and what no operation found, have their types.
LEMMA NothingType ==
    /\ NoRecord \in Records
    /\ Nothing \in Priors
<1>1. 0 \in Versions0
  BY RegistryAssumption DEF Versions0
<1>2. NoRecord \in Records
  BY DEF NoRecord, Discovered, Records, Statuses, Sources
<1>3. "absent" \in Kinds
  BY DEF Kinds
<1> QED
  BY <1>1, <1>2, <1>3 DEF Nothing, Priors

\* An operation that is over is none.
LEMMA ReturnType ==
    ASSUME Return
    PROVE  /\ arch'.step = "idle"
           /\ arch' \in ArchivesAt("idle")
           /\ prior' \in Priors
<1>1. 0 \in Versions0
  BY RegistryAssumption DEF Versions0
<1> QED
  BY <1>1, NothingType DEF Return, NoArchive, ArchivesAt

\* The transaction directory may go: the record names the package in its place.
LEMMA FinishStep ==
    ASSUME IInv, Finish
    PROVE  IInv' /\ KeepsLocked
<1> USE DEF IInv
<1>1. UNCHANGED <<up, kind, pkg, wrecked, art, locked, un, using, word, crashes, edits>>
  BY DEF Finish
<1>2. arch.step = "registered" /\ up /\ un = "idle" /\ pkg = art
  BY DEF Finish, Exclusive, Promoted, SetAside
<1>3. rec' \in Records /\ file' \in Records /\ plugin' \in Sources \cup {"none"}
  BY ScanStep DEF Finish, TypeOK
<1>4. kept' \subseteq kept /\ faults' \in 0..MaxFaults
  BY RegistryAssumption DEF Finish, Fault, NoFault, TypeOK
<1>5. Return
  BY DEF Finish
<1>6. TypeOK'
  BY <1>1, <1>3, <1>4, <1>5, ReturnType DEF TypeOK, ArchivesAt, Priors
<1> QED
  BY <1>1, <1>2, <1>5, <1>6, ReturnType
     DEF Exclusive, Promoted, SetAside, Changing, Unlocked, AsFound, Counted, RecordedPackageSurvives, KeepsLocked

\* What a call of rollback that throws makes of the operation.
LEMMA ThrowsType ==
    ASSUME IInv, arch.step = "rollback", RollBackThrows
    PROVE  /\ \E step \in {"rollback", "failed"} : arch' \in ArchivesAt(step) /\ arch'.step = step
           /\ arch'.step = "rollback" => arch'.calls = 1
           /\ "package" \in arch'.hurt /\ arch'.hurt = arch.hurt \cup {"package"}
<1>1. arch.calls \in {1, 2} /\ arch.hurt \subseteq {"package", "stores"}
  BY DEF IInv, Counted, TypeOK
<1>2. arch.op \in {"install", "upgrade"} /\ arch.v \in Versions0
  BY DEF IInv, TypeOK
<1>3. arch.hurt \cup {"package"} \in SUBSET {"package", "stores"}
  BY <1>1
<1>4. arch' = [step |-> IF arch.calls = 2 THEN "rollback" ELSE "failed", op |-> arch.op, v |-> arch.v,
               calls |-> arch.calls - 1, hurt |-> arch.hurt \cup {"package"}]
  BY DEF RollBackThrows, IInv, TypeOK
<1>5. CASE arch.calls = 2
  BY <1>2, <1>3, <1>4, <1>5 DEF ArchivesAt
<1>6. CASE arch.calls = 1
  BY <1>2, <1>3, <1>4, <1>6 DEF ArchivesAt
<1> QED
  BY <1>1, <1>5, <1>6

\* Undoing a promotion: the record names the package that was set aside, or put
\* back by the first call, which the second one removes.
LEMMA RollBackStep ==
    ASSUME IInv, RollBack
    PROVE  IInv' /\ KeepsLocked
<1> USE DEF IInv
<1>1. UNCHANGED <<up, art, locked, file, rec, plugin, prior, un, using, word, crashes, edits>>
  BY DEF RollBack, records
<1>2. /\ arch.step = "rollback" /\ up /\ un = "idle"
      /\ SafeAside(prior.art) \/ (prior.art = prior.pkg /\ pkg = prior.pkg /\ pkg \notin kept)
      /\ art \in {0, prior.art} /\ SameRecord(rec, prior.rec)
      /\ "stores" \notin arch.hurt => art = prior.art /\ locked = prior.locked
  BY DEF RollBack, Exclusive, SetAside, AsFound
<1>3. faults' \in 0..MaxFaults
  BY FaultType DEF RollBack
<1>4. SameRecord(rec, prior.rec)'
  BY <1>1, <1>2 DEF SameRecord, EnabledForRuntime
<1>5. ASSUME RollBackThrows,
             pkg' \in Versions0, kind' \in [Sources -> Kinds], kept' \subseteq Versions,
             wrecked' \subseteq Versions, RecordedPackageSurvives',
             SafeAside(prior.art)' \/ (prior.art = prior.pkg /\ pkg' = prior.pkg /\ pkg' \notin kept')
      PROVE  IInv' /\ KeepsLocked
  <2>1. PICK step \in {"rollback", "failed"} : arch' \in ArchivesAt(step) /\ arch'.step = step
    BY <1>2, <1>5, ThrowsType
  <2>2. /\ arch'.step = "rollback" => arch'.calls = 1
        /\ "package" \in arch'.hurt /\ arch'.hurt = arch.hurt \cup {"package"}
    BY <1>2, <1>5, ThrowsType
  <2>3. TypeOK'
    BY <1>1, <1>3, <1>5, <2>1 DEF TypeOK, ArchivesAt
  <2> QED
    BY <1>1, <1>2, <1>4, <1>5, <2>1, <2>2, <2>3
       DEF Exclusive, Promoted, SetAside, Changing, Unlocked, AsFound, Counted, KeepsLocked
<1>6. 0 \in Versions0 /\ prior.pkg \in Versions0 /\ (prior.pkg # 0 => prior.pkg \in Versions)
  BY RegistryAssumption DEF TypeOK, Versions, Versions0
<1>7. ASSUME NEW k \in Kinds
      PROVE  [kind EXCEPT !["managed"] = k] \in [Sources -> Kinds]
  BY DEF TypeOK, Sources
<1>8. {kind["managed"], "faulty", "broken", "absent"} \subseteq Kinds
  BY DEF TypeOK, Sources, Kinds
<1>9. CASE /\ RollBackThrows /\ UNCHANGED <<pkg, kept, wrecked>>
           /\ \E k \in {kind["managed"], "faulty", "broken"} : kind' = [kind EXCEPT !["managed"] = k]
  <2>1. kind' \in [Sources -> Kinds]
    BY <1>7, <1>8, <1>9
  <2>2. RecordedPackageSurvives' /\ pkg' \in Versions0 /\ kept' \subseteq Versions /\ wrecked' \subseteq Versions
    BY <1>1, <1>9 DEF RecordedPackageSurvives, TypeOK
  <2>3. SafeAside(prior.art)' \/ (prior.art = prior.pkg /\ pkg' = prior.pkg /\ pkg' \notin kept')
    BY <1>1, <1>2, <1>9 DEF SafeAside
  <2> QED
    BY <1>5, <1>9, <2>1, <2>2, <2>3
<1>10. CASE /\ RollBackThrows /\ Removed /\ prior.pkg # 0 /\ prior.pkg \notin kept
            /\ wrecked' = wrecked \cup {prior.pkg}
  <2>1. /\ pkg' \in Versions0 /\ kind' \in [Sources -> Kinds] /\ kept' \subseteq Versions
        /\ wrecked' \subseteq Versions /\ kept' = kept
    BY <1>6, <1>7, <1>8, <1>10 DEF Removed, TypeOK
  <2>2. SafeAside(prior.art)'
    BY <1>1, <1>2, <1>10, <2>1 DEF SafeAside
  <2>3. RecordedPackageSurvives'
    BY <1>1, <1>2, <2>2 DEF SafeAside, RecordedPackageSurvives
  <2> QED
    BY <1>5, <1>10, <2>1, <2>2, <2>3
<1>11. CASE RollBackThrows /\ Removed /\ prior.pkg \in kept /\ UNCHANGED wrecked
  <2>1. /\ pkg' \in Versions0 /\ kind' \in [Sources -> Kinds] /\ kept' \subseteq Versions
        /\ wrecked' \subseteq Versions /\ kept' = kept
    BY <1>6, <1>7, <1>8, <1>11 DEF Removed, TypeOK
  <2>2. SafeAside(prior.art)'
    BY <1>1, <1>2, <1>11, <2>1 DEF SafeAside
  <2>3. RecordedPackageSurvives'
    BY <1>1, <1>2, <2>2 DEF SafeAside, RecordedPackageSurvives
  <2> QED
    BY <1>5, <1>11, <2>1, <2>2, <2>3
<1>12. CASE (prior.pkg = 0 \/ prior.pkg \in kept) /\ PutBack /\ UNCHANGED wrecked
  <2>1. SafeAside(prior.art)
    BY <1>2, <1>12 DEF SafeAside
  <2>2. /\ pkg' \in Versions0 /\ kind' \in [Sources -> Kinds] /\ kept' \subseteq Versions
        /\ pkg' = prior.pkg /\ kind'["managed"] = prior.kind
        /\ RecordedPackageSurvives'
        /\ SafeAside(prior.art)' \/ (prior.art = prior.pkg /\ pkg' = prior.pkg /\ pkg' \notin kept')
    BY <1>1, <1>2, <1>12, <2>1, PutBackStep
  <2>3. wrecked' \subseteq Versions
    BY <1>12 DEF TypeOK
  <2>4. CASE RollBackThrows
    BY <1>5, <2>2, <2>3, <2>4
  <2>5. CASE arch' = [arch EXCEPT !.step = "failed", !.calls = 0, !.hurt = @ \ {"package"}]
    <3>1. /\ arch' \in ArchivesAt("failed") /\ arch'.step = "failed"
          /\ "stores" \in arch.hurt => "stores" \in arch'.hurt
      <4>1. /\ arch.op \in {"install", "upgrade"} /\ arch.v \in Versions0 /\ arch.calls \in 0..2
          /\ arch.hurt \in SUBSET {"package", "stores"}
        BY DEF TypeOK
      <4>2. arch' = [step |-> "failed", op |-> arch.op, v |-> arch.v, calls |-> 0,
                     hurt |-> arch.hurt \ {"package"}]
        BY <2>5 DEF TypeOK
      <4>3. arch.hurt \ {"package"} \in SUBSET {"package", "stores"}
        BY <4>1
      <4> QED
        BY <4>1, <4>2, <4>3 DEF ArchivesAt
    <3>2. TypeOK'
      BY <1>1, <1>3, <2>2, <2>3, <3>1 DEF TypeOK, ArchivesAt
    <3> QED
      BY <1>1, <1>2, <1>4, <2>2, <3>1, <3>2
         DEF Exclusive, Promoted, SetAside, Changing, Unlocked, AsFound, Counted, KeepsLocked
  <2> QED
    BY <1>12, <2>4, <2>5 DEF RollBack
<1> QED
  BY <1>9, <1>10, <1>11, <1>12 DEF RollBack

\* An operation that failed answers.
LEMMA AnswerStep ==
    ASSUME IInv, Answer
    PROVE  IInv' /\ KeepsLocked
<1> USE DEF IInv
<1>1. UNCHANGED <<up, kind, pkg, kept, wrecked, art, locked, file, rec, plugin, un, using, word,
                  faults, crashes, edits>> /\ Return /\ up
  BY DEF Answer, files, records, bounds
<1>2. TypeOK'
  BY <1>1, ReturnType DEF TypeOK, ArchivesAt, Priors
<1>3. un = "idle"
  BY DEF Answer, Exclusive
<1> QED
  BY <1>1, <1>2, <1>3, ReturnType
     DEF Exclusive, Promoted, SetAside, Changing, Unlocked, AsFound, Counted, RecordedPackageSurvives, KeepsLocked

-----------------------------------------------------------------------------
(* Uninstalling, and what happens around the process.                      *)

\* The lock is looked at in the turn that removes the record.
LEMMA UninstallStep ==
    ASSUME IInv, Uninstall
    PROVE  IInv' /\ KeepsLocked
<1> USE DEF IInv
<1>1. UNCHANGED <<up, kind, pkg, kept, wrecked, art, locked, plugin, arch, using, word, crashes, edits>>
  BY DEF Uninstall, files
<1>2. prior' \in Priors /\ un' \in {"idle", "begun"}
  BY DEF Uninstall, TypeOK, Sources, Priors, Turn
<1>7. [rec EXCEPT !.status = "uninstalling", !.enabled = FALSE] \in Records /\ rec \in Records
  BY DEF TypeOK, Records, Statuses
<1>3. rec' \in Records /\ rec \in Records
  BY <1>7 DEF Uninstall
<1>4. file' \in Records
  BY <1>3, PersistedType, NothingType DEF Uninstall, TypeOK
<1>5. faults' \in 0..MaxFaults
  BY FaultType DEF Uninstall
<1>6. TypeOK'
  BY <1>1, <1>2, <1>3, <1>4, <1>5 DEF TypeOK, Priors
<1> QED
  BY <1>1, <1>2, <1>6 DEF Uninstall, Turn, Exclusive, Promoted, SetAside, Changing, Unlocked, AsFound, Counted,
                    RecordedPackageSurvives, KeepsLocked

\* A failed uninstall writes a record back.
LEMMA RestoreType ==
    ASSUME IInv, Restore
    PROVE  /\ rec' \in Records /\ file' \in Records /\ faults' \in 0..MaxFaults
           /\ un' = "idle"
           /\ prior' \in Priors
<1>1. prior.rec \in Records /\ file \in Records
  BY DEF IInv, TypeOK
<1>2. rec' \in Records /\ file' \in Records
  BY <1>1, PersistedType, NothingType DEF Restore
<1>3. faults' \in 0..MaxFaults
  BY FaultType DEF Restore, IInv
<1>4. prior' \in Priors
  BY <1>1, NothingType DEF Restore
<1> QED
  BY <1>2, <1>3, <1>4 DEF Restore

\* The artifact record goes while its package is not locked.
LEMMA DropArtifactStep ==
    ASSUME IInv, DropArtifact
    PROVE  IInv' /\ KeepsLocked
<1> USE DEF IInv
<1>1. UNCHANGED <<up, kind, pkg, kept, wrecked, plugin, arch, using, word, crashes, edits>>
  BY DEF DropArtifact
<1>2. un = "begun" /\ up /\ arch.step \in {"idle", "waiting"} /\ (art = 0 \/ ~locked)
  BY DEF DropArtifact, Exclusive, Unlocked
<1>3. CASE un' = "dropped" /\ NoFault /\ art' = 0 /\ locked' = FALSE /\ UNCHANGED <<file, rec, prior>>
  <2>1. TypeOK'
    <3>1. 0 \in Versions0
      BY RegistryAssumption DEF Versions0
    <3> QED
      BY <1>1, <1>3, <3>1 DEF TypeOK, NoFault
  <2> QED
    BY <1>1, <1>2, <1>3, <2>1
       DEF Exclusive, Promoted, SetAside, Changing, Unlocked, AsFound, Counted,
           RecordedPackageSurvives, KeepsLocked
<1>4. CASE Restore /\ TornArtifact
  <2>1. art' \in Versions0 /\ locked' \in BOOLEAN /\ art' \in {art, 0}
    BY <1>4, TornType
  <2>2. TypeOK'
    BY <1>1, <1>4, <2>1, RestoreType DEF TypeOK, Priors
  <2> QED
    BY <1>1, <1>2, <1>4, <2>1, <2>2, RestoreType
       DEF Exclusive, Promoted, SetAside, Changing, Unlocked, AsFound, Counted,
           RecordedPackageSurvives, KeepsLocked
<1> QED
  BY <1>3, <1>4 DEF DropArtifact

\* The lifecycle record goes when the artifact record is gone.
LEMMA PurgeRecordStep ==
    ASSUME IInv, PurgeRecord
    PROVE  IInv' /\ KeepsLocked
<1> USE DEF IInv
<1>1. UNCHANGED <<up, kind, pkg, kept, wrecked, art, locked, plugin, arch, using, crashes, edits>>
  BY DEF PurgeRecord, files
<1>2. un = "dropped" /\ up /\ arch.step \in {"idle", "waiting"} /\ art = 0
  BY DEF PurgeRecord, Exclusive, SetAside
<1>3. word' \in [Sources -> {"none", "on", "off"}]
  BY DEF PurgeRecord, TypeOK
<1>4. CASE un' = "purged"
  <2>1. rec' = NoRecord /\ file' = NoRecord /\ UNCHANGED <<prior, faults>>
    BY <1>4 DEF PurgeRecord, Restore, NoFault
  <2>2. NoRecord \in Records
    BY NothingType
  <2>3. TypeOK'
    BY <1>1, <1>3, <1>4, <2>1, <2>2 DEF TypeOK
  <2> QED
    BY <1>1, <1>2, <1>4, <2>1, <2>3
       DEF Exclusive, Promoted, SetAside, Changing, Unlocked, AsFound, Counted, RecordedPackageSurvives, KeepsLocked
<1>5. CASE Restore
  <2>1. TypeOK'
    BY <1>1, <1>3, <1>5, RestoreType DEF TypeOK, ArchivesAt, Priors
  <2> QED
    BY <1>1, <1>2, <1>5, <2>1, RestoreType
       DEF Exclusive, Promoted, SetAside, Changing, Unlocked, AsFound, Counted, RecordedPackageSurvives, KeepsLocked
<1> QED
  BY <1>4, <1>5 DEF PurgeRecord

\* The package goes when no record names it.
LEMMA RemovePackageStep ==
    ASSUME IInv, RemovePackage
    PROVE  IInv' /\ KeepsLocked
<1> USE DEF IInv
<1>1. UNCHANGED <<up, kept, wrecked, art, locked, arch, using, word, crashes, edits>> /\ un' = "idle"
  BY DEF RemovePackage
<1>2. un = "purged" /\ up /\ arch.step \in {"idle", "waiting"} /\ art = 0
  BY DEF RemovePackage, Exclusive, SetAside
<1>3. pkg' \in Versions0 /\ faults' \in 0..MaxFaults
  BY RegistryAssumption DEF RemovePackage, TypeOK, Versions0, Fault, NoFault
<1>4. kind' \in [Sources -> Kinds]
  BY DEF RemovePackage, TypeOK, Sources, Kinds
<1>5. rec' \in Records /\ file' \in Records /\ plugin' \in Sources \cup {"none"}
  BY <1>4, ScanStep DEF RemovePackage, TypeOK
<1>6. prior' \in Priors
  BY NothingType DEF RemovePackage
<1>7. TypeOK'
  BY <1>1, <1>3, <1>4, <1>5, <1>6 DEF TypeOK, ArchivesAt, Priors
<1> QED
  BY <1>1, <1>2, <1>7
     DEF Exclusive, Promoted, SetAside, Changing, Unlocked, AsFound, Counted, RecordedPackageSurvives, KeepsLocked

\* A process that dies keeps the files, but for a store it was writing.
LEMMA CrashStep ==
    ASSUME IInv, Crash
    PROVE  IInv' /\ KeepsLocked
<1> USE DEF IInv
<1>1. UNCHANGED <<kind, pkg, kept, wrecked, word, faults, edits>> /\ Return
      /\ up' = FALSE /\ un' = "idle" /\ using' = "none" /\ rec' = NoRecord /\ plugin' = "none"
  BY DEF Crash
<1>2. /\ file' \in Records /\ rec' \in Records
      /\ art' \in Versions0 /\ locked' \in BOOLEAN /\ art' \in {art, 0}
  <2>1. 0 \in Versions0
    BY RegistryAssumption DEF Versions0
  <2> QED
    BY <2>1, NothingType DEF Crash, TypeOK
<1>3. crashes' \in 0..MaxCrashes
  BY RegistryAssumption DEF Crash, TypeOK
<1>4. TypeOK'
  BY <1>1, <1>2, <1>3, ReturnType DEF TypeOK, ArchivesAt, Priors
<1> QED
  BY <1>1, <1>2, <1>4, ReturnType
     DEF Exclusive, Promoted, SetAside, Changing, Unlocked, AsFound, Counted, RecordedPackageSurvives, KeepsLocked

\* A start of the process, another core, or an edit of the checkout.
LEMMA OutsideStep ==
    ASSUME IInv, Boot \/ (\E s \in Sources : ReleaseCore(s)) \/ (\E k \in Kinds : EditCheckout(k))
    PROVE  IInv' /\ KeepsLocked
<1> USE DEF IInv
<1>1. UNCHANGED <<pkg, kept, wrecked, art, locked, arch, prior, un, using, faults, crashes>>
      /\ word' \in [Sources -> {"none", "on", "off"}]
  BY DEF Boot, ReleaseCore, EditCheckout, files, bounds, TypeOK
<1>2. arch.step \in {"idle", "waiting"} /\ un = "idle"
  BY DEF Boot, ReleaseCore, EditCheckout, Turn, Exclusive
<1>3. up' \in BOOLEAN /\ (~up' => arch.step = "idle" /\ un = "idle")
  BY DEF Boot, ReleaseCore, EditCheckout, Turn, Exclusive, TypeOK
<1>4. edits' \in 0..MaxEdits
  BY RegistryAssumption DEF Boot, ReleaseCore, EditCheckout, TypeOK, bounds
<1>5. kind' \in [Sources -> Kinds]
  <2>1. ASSUME NEW s \in Sources, NEW k \in Kinds
        PROVE  [kind EXCEPT ![s] = k] \in [Sources -> Kinds]
    BY DEF TypeOK
  <2>2. "fit" \in Kinds /\ "unfit" \in Kinds /\ "local" \in Sources
    BY DEF Kinds, Sources
  <2> QED
    BY <2>1, <2>2 DEF Boot, ReleaseCore, EditCheckout, TypeOK, files
<1>6. rec' \in Records /\ file' \in Records /\ plugin' \in Sources \cup {"none"}
  BY ScanStep DEF Boot, ReleaseCore, EditCheckout, TypeOK, records
<1>7. TypeOK'
  BY <1>1, <1>3, <1>4, <1>5, <1>6 DEF TypeOK
<1> QED
  BY <1>1, <1>2, <1>3, <1>7
     DEF Exclusive, Promoted, SetAside, Changing, Unlocked, AsFound, Counted, RecordedPackageSurvives, KeepsLocked

-----------------------------------------------------------------------------
\* Every step keeps the invariant, and a locked record.
LEMMA NextIInv ==
    ASSUME IInv, [Next]_vars
    PROVE  IInv' /\ (UNCHANGED vars \/ KeepsLocked)
<1>1. CASE Operate
  BY <1>1, OperateStep DEF KeepsLocked
<1>2. CASE Archive
  BY <1>2, BeginStep, RetainStep, PromoteStep, VerifyStep, RegisterStep, RecordArtifactStep,
     UndoRecordStep, UndoArtifactStep, FinishStep, RollBackStep, AnswerStep DEF Archive
<1>3. CASE Remove
  BY <1>3, UninstallStep, DropArtifactStep, PurgeRecordStep, RemovePackageStep DEF Remove
<1>4. CASE Surroundings
  BY <1>4, CrashStep, OutsideStep DEF Surroundings
<1>5. CASE UNCHANGED vars
  <2>1. /\ UNCHANGED <<up, kind, pkg, kept, wrecked, art, locked, file, rec, plugin>>
        /\ UNCHANGED <<arch, prior, un, using, word, faults, crashes, edits>>
    BY <1>5 DEF vars, files, records, bounds
  <2> QED
    BY <1>5, <2>1 DEF IInv, TypeOK, Exclusive, Promoted, SetAside, Changing, Unlocked, AsFound, Counted, SameRecord,
                      SafeAside, EnabledForRuntime, RecordedPackageSurvives
<1> QED
  BY <1>1, <1>2, <1>3, <1>4, <1>5 DEF Next

\* The inductive invariant holds.
THEOREM Invariance == Spec => []IInv
<1>1. IInv /\ [Next]_vars => IInv'
  BY NextIInv
<1> QED
  BY InitIInv, <1>1, PTL DEF Spec

\* The variables keep their types.
THEOREM TypeCorrect == Spec => []TypeOK
<1>1. IInv => TypeOK
  BY DEF IInv
<1> QED
  BY <1>1, Invariance, PTL

\* Whatever fails and wherever the process dies in promotePreparedModuleArchive,
\* its rollback or the writes of the stores, the package that the artifact store
\* names lies in its place or in a transaction directory.
THEOREM Survival == Spec => []RecordedPackageSurvives
<1>1. IInv => RecordedPackageSurvives
  BY DEF IInv
<1> QED
  BY <1>1, Invariance, PTL

\* applyLocalModuleArchive answers a failure only with everything as it was.
THEOREM FailuresUndone == Spec => []FailureChangesNothing
<1>1. IInv => FailureChangesNothing
  BY DEF IInv, AsFound, SameRecord, FailureChangesNothing
<1> QED
  BY <1>1, Invariance, PTL

\* No installModule, upgradeModule or uninstallModule gets past a lock.
THEOREM Locks == Spec => LocksHold
<1>1. IInv /\ [Next]_vars => [KeepsLocked]_vars
  BY NextIInv
<1>2. [KeepsLocked]_vars => [art # 0 /\ locked => art' = art \/ (art' = 0 /\ (~up' \/ faults' # faults))]_vars
  BY DEF KeepsLocked
<1> QED
  BY <1>1, <1>2, Invariance, PTL DEF Spec, LocksHold

-----------------------------------------------------------------------------
(* What the operator disabled.  The flag of a source outlives every scan,  *)
(* also one that finds another source selected, because the flag is kept   *)
(* beside the record's own (Heeds), because what is enabled never rests on *)
(* a source with a flag against it or with a diagnostic (Obeys, Clear),    *)
(* and because an operation that fails writes back a record that knew it   *)
(* (Remembered).  The file says as much, or has been lost.                 *)

\* What the operator disabled is in the record.
Heeds(r, w) ==
    \A s \in Sources : w[s] = "off" => r.active # "none" /\ r.status # "none" /\ r.intent[s] = "off"

\* A source that is enabled has neither a flag nor a diagnostic against it.
Obeys(r) == r.enabled /\ r.active # "none" => r.intent[r.active] # "off"
Clear(r) == r.enabled /\ r.active # "none" => r.block[r.active] = "none"

Mindful(r, w) == Heeds(r, w) /\ Obeys(r) /\ Clear(r)

\* What the file says, when it was not lost.
Kept(w) == file = NoRecord \/ Mindful(file, w)

Heeded ==
    /\ Kept(word)
    /\ IF up THEN Heeds(rec, word) ELSE rec.active = "none"
    /\ Obeys(rec) /\ Clear(rec)

\* What an operation writes back knew what was disabled, and so does the file
\* that the scan at its end reads.
Remembered ==
    /\ arch.step \notin {"idle", "waiting"} \/ un \in {"begun", "dropped"} => Mindful(prior.rec, word)
    /\ arch.step \in {"recorded", "registered"} \/ un = "purged" => Mindful(file, word)

DInv == Heeded /\ Remembered

\* The two ways the scan classifies.
Rejected(r, s, a, status, block) == Classify(r, s, a, status, FALSE, TRUE, block)
Accepted(r, s, a, status, enabled) == Classify(r, s, a, status, enabled, FALSE, "none")

\* A rejected source keeps its flag, and is no longer enabled when it is selected.
LEMMA RejectFacts ==
    ASSUME NEW r \in Records, NEW s \in Sources, NEW a \in Sources,
           NEW status \in Statuses, NEW block \in Blocks
    PROVE  LET c == Rejected(r, s, a, status, block) IN
           /\ c.active = a /\ c.block[s] = block
           /\ \A t \in Sources \ {s} : c.block[t] = r.block[t] /\ c.intent[t] = r.intent[t]
           /\ r.intent[s] # "unset" => c.intent[s] = r.intent[s]
           /\ s = a => c.status = status /\ ~c.enabled
           /\ s # a => c.status = r.status /\ c.enabled = r.enabled
BY DEF Rejected, Classify, Records

\* A source that loads gets the flag it was found to have.
LEMMA AcceptFacts ==
    ASSUME NEW r \in Records, NEW s \in Sources, NEW a \in Sources,
           NEW status \in Statuses, NEW enabled \in BOOLEAN
    PROVE  LET c == Accepted(r, s, a, status, enabled) IN
           /\ c.active = a /\ c.block[s] = "none"
           /\ \A t \in Sources \ {s} : c.block[t] = r.block[t] /\ c.intent[t] = r.intent[t]
           /\ c.intent[s] = IF enabled THEN "on" ELSE "off"
           /\ s = a => c.status = status /\ c.enabled = enabled
           /\ s # a => c.status = r.status /\ c.enabled = r.enabled
BY DEF Accepted, Classify, Records, Flag

\* Scanning a directory loses no flag, enables nothing, and keeps a selected source.
LEMMA DiscoverFacts ==
    ASSUME NEW r \in Records, NEW s \in Sources, NEW k \in Kinds, NEW w,
           Mindful(r, w)
    PROVE  LET d == Discover(r, s, k) IN
           /\ d \in Records /\ Mindful(d, w)
           /\ k \in {"unfit", "broken"} => d.block[s] # "none" /\ d.status # "none"
           /\ r.status # "none" => d.status # "none"
           /\ r.status # "none" => \A t \in Sources \ {s} : d.block[t] = r.block[t]
           /\ r.status # "none" /\ r.active # "none" => d.active = r.active
<1> DEFINE d == Discover(r, s, k)
           known == IF r.status = "none" THEN Discovered ELSE r
           seen == [known EXCEPT !.local = @ \/ s = "local"]
           active == IF seen.active = "none" THEN s ELSE seen.active
<1>1. Discovered \in Records /\ Discovered.active = "none" /\ Discovered.status = "discovered"
  BY DEF Discovered, Records, Statuses, Sources
<1>2. seen \in Records /\ seen.status # "none"
  BY <1>1 DEF Records
<1>3. r.status # "none" => /\ seen.active = r.active /\ seen.status = r.status
                           /\ seen.intent = r.intent /\ seen.block = r.block
  BY DEF Records
<1>4. Mindful(seen, w)
  <2>1. CASE r.status = "none"
    <3>1. seen.active = "none"
      BY <1>1, <2>1 DEF Records
    <3>2. \A t \in Sources : w[t] # "off"
      BY <2>1 DEF Mindful, Heeds
    <3> QED
      BY <3>1, <3>2 DEF Mindful, Heeds, Obeys, Clear
  <2>2. CASE r.status # "none"
    <3>1. seen.enabled = r.enabled
      BY <2>2 DEF Records
    <3> QED
      BY <1>3, <2>2, <3>1 DEF Mindful, Heeds, Obeys, Clear
  <2> QED
    BY <2>1, <2>2
<1>5. active \in Sources /\ active = IF seen.active = "none" THEN s ELSE seen.active
  BY <1>2 DEF Records
<1> HIDE DEF known, seen, active
<1>6. d \in Records
  BY DiscoverType
<1>7. ASSUME NEW st \in {"incompatible", "errored"},
             d = Rejected(seen, s, active, st, st)
      PROVE  /\ Mindful(d, w) /\ d.block[s] # "none" /\ d.status # "none"
             /\ \A t \in Sources \ {s} : d.block[t] = seen.block[t]
             /\ d.active = active
  <2>1. st \in Statuses /\ st \in Blocks
    BY DEF Statuses, Blocks
  <2>2. /\ d.active = active /\ d.block[s] = st
        /\ \A t \in Sources \ {s} : d.block[t] = seen.block[t] /\ d.intent[t] = seen.intent[t]
        /\ seen.intent[s] # "unset" => d.intent[s] = seen.intent[s]
        /\ s = active => d.status = st /\ ~d.enabled
        /\ s # active => d.status = seen.status /\ d.enabled = seen.enabled
    BY <1>2, <1>5, <1>7, <2>1, RejectFacts
  <2>3. active # "none"
    BY <1>5 DEF Sources
  <2>4. Heeds(d, w)
    BY <1>2, <1>4, <2>2, <2>3 DEF Mindful, Heeds
  <2>5. Obeys(d) /\ Clear(d)
    BY <1>4, <1>5, <2>2 DEF Mindful, Obeys, Clear
  <2> QED
    BY <1>2, <2>2, <2>4, <2>5 DEF Mindful
<1> USE DEF known, seen, active
<1>8. CASE k \in {"absent", "fit", "faulty"}
  <2>1. d = r \/ d = seen
    BY <1>8 DEF Discover, Loadable
  <2> HIDE DEF known, seen, active
  <2> QED
    BY <1>2, <1>3, <1>4, <1>6, <1>8, <2>1
<1>9. CASE k \in {"unfit", "broken"}
  <2>1. \E st \in {"incompatible", "errored"} : d = Rejected(seen, s, active, st, st)
    BY <1>9 DEF Discover, Loadable, Rejected
  <2> HIDE DEF known, seen, active
  <2> QED
    BY <1>3, <1>5, <1>6, <1>7, <2>1
<1> QED
  BY <1>8, <1>9 DEF Kinds

\* What the rating of a source says of it, and leaves.
RateSays(c, r, before, s, k) ==
    /\ c \in Records /\ c.active = before.active
    /\ \A t \in Sources \ {s} : c.block[t] = r.block[t] /\ c.intent[t] = r.intent[t]
    /\ s # before.active => c.status = r.status /\ c.enabled = r.enabled
    /\ r.status # "none" => c.status # "none"
    /\ k \notin Loadable => c = r
    /\ k = "faulty" => /\ c.block[s] # "none"
                       /\ r.intent[s] # "unset" => c.intent[s] = r.intent[s]
                       /\ s = before.active => ~c.enabled
    /\ k = "fit" => /\ c.block[s] = "none"
                    /\ before.intent[s] = "off" => c.intent[s] = "off"
                    /\ s = before.active /\ c.enabled => c.intent[s] = "on"

\* Rating a source touches only that source, enables it by its flag alone, and then clears it.
LEMMA RateFacts ==
    ASSUME NEW r \in Records, NEW before \in Records, before.active \in Sources,
           r.active = before.active, NEW s \in Sources, NEW k \in Kinds
    PROVE  RateSays(Rate(r, before, s, k), r, before, s, k)
<1> DEFINE c == Rate(r, before, s, k)
           wanted == s = before.active /\ IF before.intent[s] = "unset" THEN before.enabled
                                                                       ELSE before.intent[s] = "on"
           status == IF wanted THEN "validated" ELSE "disabled"
<1>1. wanted \in BOOLEAN /\ status \in Statuses /\ status # "none"
  BY DEF Records, Statuses
<1>2. before.intent[s] = "off" => ~wanted
  OBVIOUS
<1> HIDE DEF wanted, status
<1>3. c \in Records
  BY RateType
<1>4. CASE k \notin Loadable
  BY <1>3, <1>4 DEF Rate, RateSays, Loadable
<1>5. CASE k = "faulty"
  <2>1. "errored" \in Statuses /\ "errored" \in Blocks
    BY DEF Statuses, Blocks
  <2>2. c = Rejected(r, s, before.active, "errored", "errored")
    BY <1>5 DEF Rate, Loadable, Rejected
  <2> QED
    BY <1>3, <1>5, <2>1, <2>2, RejectFacts DEF RateSays, Loadable
<1>6. CASE k = "fit"
  <2>1. c = Accepted(r, s, before.active, status, wanted)
    BY <1>6 DEF Rate, Loadable, Accepted, wanted, status
  <2>3. /\ c.active = before.active /\ c.block[s] = "none"
        /\ \A t \in Sources \ {s} : c.block[t] = r.block[t] /\ c.intent[t] = r.intent[t]
        /\ c.intent[s] = IF wanted THEN "on" ELSE "off"
        /\ s = before.active => c.status = status /\ c.enabled = wanted
        /\ s # before.active => c.status = r.status /\ c.enabled = r.enabled
    BY <1>1, <2>1, AcceptFacts
  <2> QED
    BY <1>1, <1>2, <1>3, <1>6, <2>3 DEF RateSays, Loadable
<1> QED
  BY <1>4, <1>5, <1>6 DEF Loadable

\* A scan loses no flag, and enables nothing against one.
LEMMA ScanMindful ==
    ASSUME NEW r \in Records, NEW w, Mindful(r, w), NEW k \in [Sources -> Kinds]
    PROVE  /\ ScannedRecord(r, k) \in Records
           /\ Mindful(ScannedRecord(r, k), w)
<1> DEFINE seen == [r EXCEPT !.local = FALSE]
           first == Discover(seen, "managed", k["managed"])
           found == Discover(first, "local", k["local"])
           before == [found EXCEPT !.active = Chosen(found, k)]
           one == Rate(before, before, "managed", k["managed"])
           two == Rate(one, before, "local", k["local"])
<1>1. /\ "managed" \in Sources /\ "local" \in Sources
      /\ k["managed"] \in Kinds /\ k["local"] \in Kinds
  BY DEF Sources
<1>2. /\ seen \in Records /\ seen.active = r.active /\ seen.status = r.status
      /\ Mindful(seen, w)
  BY DEF Records, Mindful, Heeds, Obeys, Clear
<1> HIDE DEF seen
<1>3. /\ first \in Records /\ Mindful(first, w)
      /\ k["managed"] \in {"unfit", "broken"} => first.block["managed"] # "none" /\ first.status # "none"
      /\ r.status # "none" => first.status # "none"
      /\ r.status # "none" /\ r.active # "none" => first.active = r.active
  BY <1>1, <1>2, DiscoverFacts
<1> HIDE DEF first
<1>4. /\ found \in Records /\ Mindful(found, w)
      /\ k["managed"] \in {"unfit", "broken"} => found.block["managed"] # "none"
      /\ r.status # "none" /\ r.active # "none" => found.active = r.active
  <2>1. /\ found \in Records /\ Mindful(found, w)
        /\ first.status # "none" => \A t \in Sources \ {"local"} : found.block[t] = first.block[t]
        /\ first.status # "none" /\ first.active # "none" => found.active = first.active
    BY <1>1, <1>3, DiscoverFacts
  <2>2. "managed" \in Sources \ {"local"}
    BY DEF Sources
  <2> QED
    BY <1>3, <2>1, <2>2
<1> HIDE DEF found
<1>5. Chosen(found, k) \in Sources \cup {"none"}
  BY <1>1, <1>4 DEF Chosen, Records
<1>6. /\ before \in Records /\ before.active = Chosen(found, k)
      /\ before.intent = found.intent /\ before.block = found.block
      /\ before.status = found.status
  BY <1>4, <1>5 DEF Records
<1> HIDE DEF before
<1>7. ScannedRecord(r, k) = IF before.active = "none" THEN found ELSE two
  BY DEF ScannedRecord, seen, first, found, before
<1>8. CASE before.active = "none"
  BY <1>4, <1>7, <1>8
<1>9. CASE before.active # "none"
  <2> DEFINE a == before.active
  <2>1. /\ a = before.active /\ a \in Sources /\ k[a] \in Loadable
        /\ found.active # "none" /\ k[found.active] \in Loadable => a = found.active
    BY <1>5, <1>6, <1>9 DEF Chosen, Sources
  <2>2. RateSays(one, before, before, "managed", k["managed"])
    BY <1>1, <1>6, <2>1, RateFacts
  <2> HIDE DEF one
  <2>3. RateSays(two, one, before, "local", k["local"])
    <3>1. one \in Records /\ one.active = before.active
      BY <2>2 DEF RateSays
    <3> QED
      BY <1>1, <1>6, <2>1, <3>1, RateFacts
  <2> HIDE DEF two, a
  <2>4. \A s \in Sources : s = "managed" \/ s = "local"
    BY DEF Sources
  <2>5. Heeds(two, w)
    <3>1. ASSUME NEW s \in Sources, w[s] = "off"
          PROVE  two.intent[s] = "off" /\ two.status # "none"
      <4>1. before.intent[s] = "off" /\ before.status # "none"
        BY <1>4, <1>6, <3>1 DEF Mindful, Heeds
      <4>2. CASE s = "managed"
        <5>1. one.intent[s] = "off"
          BY <1>1, <2>2, <4>1, <4>2 DEF Kinds, Loadable, RateSays
        <5> QED
          BY <2>2, <2>3, <4>1, <4>2, <5>1 DEF Sources, RateSays
      <4>3. CASE s = "local"
        <5>1. one.intent[s] = "off"
          BY <2>2, <4>1, <4>3 DEF Sources, RateSays
        <5> QED
          BY <1>1, <2>2, <2>3, <4>1, <4>3, <5>1 DEF Kinds, Loadable, RateSays
      <4> QED
        BY <2>4, <4>2, <4>3
    <3> QED
      BY <2>1, <2>3, <3>1 DEF Heeds, Sources, RateSays
  <2>6. two.enabled => two.intent[a] = "on" /\ two.block[a] = "none"
    <3>1. CASE a = "managed"
      BY <2>1, <2>2, <2>3, <3>1 DEF Loadable, Sources, RateSays
    <3>2. CASE a = "local"
      BY <2>1, <2>2, <2>3, <3>2 DEF Loadable, Sources, RateSays
    <3> QED
      BY <2>1, <2>4, <3>1, <3>2
  <2>7. Mindful(two, w)
    BY <2>1, <2>3, <2>5, <2>6 DEF Mindful, Obeys, Clear, RateSays
  <2> QED
    BY <1>7, <1>9, <2>3, <2>7 DEF RateSays
<1> QED
  BY <1>8, <1>9

-----------------------------------------------------------------------------
(* Every step keeps what the operator disabled.                            *)

\* What is written of a record says the same.
LEMMA PersistedMindful ==
    ASSUME NEW r \in Records, NEW w, Mindful(r, w)
    PROVE  Mindful(Persisted(r), w)
BY DEF Persisted, Mindful, Heeds, Obeys, Clear, NoRecord, Discovered

\* No record enables anything.
LEMMA NoRecordFacts ==
    /\ NoRecord \in Records /\ NoRecord.active = "none" /\ ~NoRecord.enabled
    /\ \A w : Mindful(NoRecord, w) = \A s \in Sources : w[s] # "off"
<1>1. NoRecord \in Records
  BY NothingType
<1>2. NoRecord.active = "none" /\ ~NoRecord.enabled
  BY DEF NoRecord, Discovered
<1> QED
  BY <1>1, <1>2 DEF Mindful, Heeds, Obeys, Clear

\* Another status than none changes nothing of it.
LEMMA StatusMindful ==
    ASSUME NEW r \in Records, NEW w, Mindful(r, w), NEW status \in Statuses \ {"none"}
    PROVE  /\ [r EXCEPT !.status = status] \in Records
           /\ Mindful([r EXCEPT !.status = status], w)
BY DEF Records, Mindful, Heeds, Obeys, Clear

\* A scan of a record that knows what was disabled leaves one that does.
LEMMA ScanHeeds ==
    ASSUME NEW r \in Records, NEW w, Mindful(r, w), NEW k \in [Sources -> Kinds], Scan(r, k)
    PROVE  Mindful(rec', w) /\ Mindful(file', w)
<1>1. Mindful(ScannedRecord(r, k), w)
  BY ScanMindful
<1> QED
  BY <1>1 DEF Scan

\* Selecting a source takes its flag away, and sets the other one's.
LEMMA SwitchedFacts ==
    ASSUME NEW r \in Records, NEW s \in Sources, r.block[s] = "none"
    PROVE  LET c == Switched(r, s) IN
           /\ c \in Records /\ c.active = s /\ c.status # "none"
           /\ \A t \in Sources \ {s} : c.intent[t] = "off"
           /\ c.enabled = r.enabled /\ c.block = r.block
           /\ c.enabled => c.intent[s] = "on"
           /\ ~c.enabled => c.intent[s] = "off"
<1>1. Switched(r, s) \in Records
  BY DEF SetIntent, Switched, Records, Sources, Flag, Other, Statuses
<1> QED
  BY <1>1 DEF SetIntent, Switched, Records, Sources, Flag, Other

\* Between operations the record in memory knows what was disabled.
LEMMA TurnFacts ==
    ASSUME IInv, DInv, Turn
    PROVE  /\ rec \in Records /\ file \in Records /\ kind \in [Sources -> Kinds]
           /\ Mindful(rec, word) /\ Kept(word)
BY DEF IInv, TypeOK, DInv, Turn, Heeded, Mindful

\* Between operations, records that know what was disabled are all that is asked.
LEMMA TurnHeeds ==
    ASSUME Turn, up' = up, un' = un, arch'.step \in {"idle", "waiting"},
           Mindful(rec', word'), Kept(word)'
    PROVE  DInv'
BY DEF Turn, DInv, Heeded, Remembered, Mindful

\* enableModule marks the source enabled, or refused: in neither case is a flag lost.
LEMMA EnabledMindful ==
    ASSUME NEW r \in Records, r.active \in Sources, NEW w,
           r.block[r.active] # "none" => \A t \in Sources \ {r.active} : w[t] = "off" => r.intent[t] = "off"
    PROVE  LET c == EnabledRecord(r)
               v == IF c.enabled THEN [w EXCEPT ![c.active] = "on"] ELSE w
           IN w \in [Sources -> {"none", "on", "off"}] => c \in Records /\ c.active = r.active /\ Mindful(c, v)
<1> SUFFICES ASSUME w \in [Sources -> {"none", "on", "off"}]
             PROVE  LET c == EnabledRecord(r)
                        v == IF c.enabled THEN [w EXCEPT ![c.active] = "on"] ELSE w
                    IN c \in Records /\ c.active = r.active /\ Mindful(c, v)
  OBVIOUS
<1> DEFINE c == EnabledRecord(r)
           a == r.active
<1>1. CASE r.block[a] = "none"
  <2>1. /\ c \in Records /\ c.active = a /\ c.enabled = TRUE /\ c.block = r.block
        /\ c.status = "validated" /\ c.intent[a] = "on"
        /\ \A t \in Sources \ {a} : c.intent[t] = "off"
    <3>1. c = [SetIntent(r, a, TRUE) EXCEPT !.enabled = TRUE, !.status = "validated"]
      BY <1>1 DEF EnabledRecord
    <3>2. SetIntent(r, a, TRUE) = [r EXCEPT !.intent = [[r.intent EXCEPT ![a] = "on"] EXCEPT ![Other(a)] = "off"]]
      BY DEF SetIntent, Flag, Records
    <3>3. Other(a) \in Sources /\ Other(a) # a /\ \A t \in Sources \ {a} : t = Other(a)
      BY DEF Other, Sources
    <3> DEFINE i == [[r.intent EXCEPT ![a] = "on"] EXCEPT ![Other(a)] = "off"]
    <3>4. /\ i \in [Sources -> {"unset", "on", "off"}] /\ i[a] = "on"
          /\ \A t \in Sources \ {a} : i[t] = "off"
      BY <3>3 DEF Records
    <3> HIDE DEF i
    <3>5. c = [r EXCEPT !.intent = i, !.enabled = TRUE, !.status = "validated"]
      BY <3>1, <3>2 DEF i, Records
    <3> QED
      BY <3>4, <3>5, ZenonT(60) DEF Records, Statuses
  <2> HIDE DEF c
  <2>2. Mindful(c, [w EXCEPT ![a] = "on"])
    BY <1>1, <2>1 DEF Mindful, Heeds, Obeys, Clear, Sources
  <2> QED
    BY <2>1, <2>2 DEF c
<1>2. CASE r.block[a] # "none"
  <2>1. /\ c \in Records /\ c.active = a /\ c.enabled = FALSE /\ c.block = r.block
        /\ c.status # "none" /\ c.intent[a] = "off"
        /\ \A t \in Sources \ {a} : c.intent[t] = r.intent[t]
    <3>1. c = [r EXCEPT !.enabled = FALSE, !.status = r.block[a], !.intent[a] = "off"]
      BY <1>2 DEF EnabledRecord
    <3> DEFINE b == r.block[a]
               i == [r.intent EXCEPT ![a] = "off"]
    <3>2. b \in Statuses \ {"none"}
      BY <1>2 DEF Records, Statuses
    <3>3. /\ i \in [Sources -> {"unset", "on", "off"}] /\ i[a] = "off"
          /\ \A t \in Sources \ {a} : i[t] = r.intent[t]
      BY DEF Records
    <3>4. c = [r EXCEPT !.enabled = FALSE, !.status = b, !.intent = i]
      BY <3>1 DEF Records
    <3> HIDE DEF b, i
    <3> QED
      BY <3>2, <3>3, <3>4 DEF Records
  <2> HIDE DEF c
  <2>2. Mindful(c, w)
    BY <1>2, <2>1 DEF Mindful, Heeds, Obeys, Clear, Sources
  <2> QED
    BY <2>1, <2>2 DEF c
<1> QED
  BY <1>1, <1>2

\* A source that is enabled takes the flag of the other one away.
LEMMA EnabledFacts ==
    ASSUME NEW r \in Records, r.active \in Sources, EnabledRecord(r).enabled, NEW s \in Sources
    PROVE  LET c == EnabledRecord(r)
           IN /\ c.status # "none" /\ c.intent[s] \in {"on", "off"}
              /\ s # r.active => c.intent[s] = "off"
<1>1. r.block[r.active] = "none"
  BY DEF EnabledRecord, Records
<1> DEFINE i == [[r.intent EXCEPT ![r.active] = "on"] EXCEPT ![Other(r.active)] = "off"]
<1>2. EnabledRecord(r) = [r EXCEPT !.intent = i, !.enabled = TRUE, !.status = "validated"]
  BY <1>1 DEF EnabledRecord, SetIntent, Flag, Records
<1>3. /\ i[s] \in {"on", "off"}
      /\ s # r.active => i[s] = "off"
  BY DEF Records, Other, Sources
<1>4. i \in [Sources -> {"unset", "on", "off"}]
  BY DEF Records
<1> HIDE DEF i
<1>5. EnabledRecord(r).status = "validated" /\ EnabledRecord(r).intent = i
  BY <1>2, <1>4 DEF Records
<1> QED
  BY <1>3, <1>5

\* switchModuleSource: what the operator said of the source is not a disable any more.
LEMMA SwitchHeeds ==
    ASSUME IInv, DInv, NEW s \in Sources, SwitchSource(s)
    PROVE  DInv'
<1> DEFINE c == Switched(rec, s)
           w == [word EXCEPT ![s] = "none"]
<1>1. /\ Turn /\ UNCHANGED <<up, un, kind, arch>> /\ word' = w /\ rec.block[s] = "none"
      /\ Scan(c, kind)
  BY DEF SwitchSource, CanSwitch, files
<1>2. /\ rec \in Records /\ kind \in [Sources -> Kinds]
      /\ word \in [Sources -> {"none", "on", "off"}]
  BY <1>1, TurnFacts DEF IInv, TypeOK
<1>3. c \in Records /\ Mindful(c, w)
  BY <1>1, <1>2, SwitchedFacts DEF Mindful, Heeds, Obeys, Clear, Sources
<1> HIDE DEF c, w
<1>4. Mindful(rec', w) /\ Mindful(file', w)
  BY <1>1, <1>2, <1>3, ScanHeeds
<1> QED
  BY <1>1, <1>4, TurnHeeds DEF Turn, Kept

\* enableModule: a source that is refused keeps its flag, or was selected in vain.
LEMMA EnableHeeds ==
    ASSUME IInv, DInv, NEW s \in Sources, Enable(s)
    PROVE  DInv'
<1> DEFINE c == Switched(rec, s)
           ready == IF s = rec.active THEN rec ELSE ScannedRecord(c, kind)
           next == EnabledRecord(ready)
           x == ready.active
           w == [word EXCEPT ![s] = "none"]
           v == IF x = s THEN word ELSE w
<1>1. /\ Turn /\ UNCHANGED <<up, un, kind, arch>> /\ rec.status # "none"
      /\ s # rec.active => CanSwitch(s)
      /\ rec' = next /\ file' = next
      /\ word' = IF next.enabled THEN [word EXCEPT ![next.active] = "on"]
                 ELSE IF next.active = s THEN word ELSE w
  BY DEF Enable, files
<1>2. /\ rec \in Records /\ kind \in [Sources -> Kinds] /\ Mindful(rec, word)
      /\ word \in [Sources -> {"none", "on", "off"}]
  BY <1>1, TurnFacts DEF IInv, TypeOK
<1> HIDE DEF next
<1>3. /\ ready \in Records /\ x \in Sources
      /\ \A t \in Sources \ {x} : v[t] = "off" => ready.intent[t] = "off"
  <2>1. CASE s = rec.active
    BY <1>2, <2>1 DEF Mindful, Heeds
  <2>2. CASE s # rec.active
    <3>1. rec.block[s] = "none"
      BY <1>1, <2>2 DEF CanSwitch
    <3>2. /\ c \in Records /\ c.active = s /\ c.status # "none"
          /\ \A t \in Sources \ {s} : c.intent[t] = "off"
          /\ c.enabled = rec.enabled /\ c.block = rec.block
          /\ c.enabled => c.intent[s] = "on"
      BY <1>2, <3>1, SwitchedFacts
    <3>3. Mindful(c, w)
      BY <1>2, <3>1, <3>2 DEF Mindful, Heeds, Obeys, Clear, Sources
    <3> HIDE DEF c
    <3>4. ready = ScannedRecord(c, kind)
      BY <2>2
    <3>5. x \in Sources
      BY <1>2, <3>2, <3>4, ScanKeepsSource DEF Sources
    <3>6. ready \in Records /\ Mindful(ready, w)
      BY <1>2, <3>2, <3>3, <3>4, ScanMindful
    <3> HIDE DEF ready
    <3> QED
      BY <1>2, <3>5, <3>6 DEF Mindful, Heeds
  <2> QED
    BY <2>1, <2>2
<1> HIDE DEF ready
<1>4. v \in [Sources -> {"none", "on", "off"}]
  BY <1>2
<1> HIDE DEF x, v
<1>5. LET u == IF next.enabled THEN [v EXCEPT ![next.active] = "on"] ELSE v
      IN next \in Records /\ next.active = x /\ Mindful(next, u)
  BY <1>3, <1>4, EnabledMindful DEF next, x
<1>6. Mindful(next, word')
  <2>1. CASE ~next.enabled
    BY <1>1, <1>5, <2>1 DEF v
  <2>2. CASE next.enabled
    <3>1. Mindful(next, [v EXCEPT ![x] = "on"]) /\ word' = [word EXCEPT ![x] = "on"]
      BY <1>1, <1>5, <2>2
    <3>2. next.status # "none" /\ next.intent[s] \in {"on", "off"} /\ (s # x => next.intent[s] = "off")
      BY <1>3, <2>2, EnabledFacts DEF next, x
    <3> QED
      BY <1>2, <1>3, <1>5, <3>1, <3>2 DEF Mindful, Heeds, v, Sources
  <2> QED
    BY <2>1, <2>2
<1> QED
  BY <1>1, <1>6, TurnHeeds DEF Turn, Kept

\* disableModule: the flag is written, of a record that is written.
LEMMA DisableHeeds ==
    ASSUME IInv, DInv, NEW s \in Sources, Disable(s)
    PROVE  DInv'
<1>1. /\ Turn /\ UNCHANGED <<up, un, kind, arch>> /\ rec.status # "none"
      /\ rec' = IF s = rec.active
                THEN [rec EXCEPT !.enabled = FALSE, !.status = "disabled", !.intent[s] = "off"]
                ELSE [rec EXCEPT !.intent[s] = "off"]
      /\ file' = Persisted(rec')
      /\ word' = IF file'.status = "none" THEN word ELSE [word EXCEPT ![s] = "off"]
  BY DEF Disable, files
<1>2. /\ rec \in Records /\ kind \in [Sources -> Kinds] /\ Mindful(rec, word)
      /\ word \in [Sources -> {"none", "on", "off"}]
  BY <1>1, TurnFacts DEF IInv, TypeOK
<1> DEFINE c == rec'
<1>3. /\ c \in Records /\ c.active = rec.active /\ c.status # "none" /\ c.block = rec.block
      /\ c.intent[s] = "off" /\ \A t \in Sources \ {s} : c.intent[t] = rec.intent[t]
      /\ c.enabled => rec.enabled /\ s # rec.active
  <2>1. CASE s = rec.active
    BY <1>1, <1>2, <2>1 DEF Records, Statuses
  <2>2. CASE s # rec.active
    BY <1>1, <1>2, <2>2 DEF Records
  <2> QED
    BY <2>1, <2>2
<1> HIDE DEF c
<1>4. CASE rec.active = "none"
  <2>1. \A t \in Sources : word[t] # "off"
    BY <1>2, <1>4 DEF Mindful, Heeds
  <2>2. file' = NoRecord /\ word' = word
    BY <1>1, <1>3, <1>4 DEF Persisted, NoRecord, c
  <2>3. Mindful(c, word)
    BY <1>2, <1>3, <1>4, <2>1 DEF Mindful, Heeds, Obeys, Clear
  <2> QED
    BY <1>1, <2>2, <2>3, TurnHeeds DEF c, Turn, Kept
<1>5. CASE rec.active # "none"
  <2>1. file' = c /\ word' = [word EXCEPT ![s] = "off"]
    BY <1>1, <1>3, <1>5 DEF Persisted, c
  <2>2. Mindful(c, [word EXCEPT ![s] = "off"])
    BY <1>2, <1>3, <1>5 DEF Mindful, Heeds, Obeys, Clear, Records
  <2> QED
    BY <1>1, <2>1, <2>2, TurnHeeds DEF c, Turn, Kept
<1> QED
  BY <1>4, <1>5

\* The rest of what the operator and the module's code do.
LEMMA OperateHeeds ==
    ASSUME IInv, DInv, Operate
    PROVE  DInv'
<1>1. Turn /\ UNCHANGED <<up, un, kind, arch>>
  BY DEF Operate, SwitchSource, Enable, Disable, SetLock, Validate, Use, Used, UseFails, files
<1>2. /\ rec \in Records /\ file \in Records /\ kind \in [Sources -> Kinds]
      /\ Mindful(rec, word) /\ Kept(word)
  BY <1>1, TurnFacts
<1>3. CASE (\E b \in BOOLEAN : SetLock(b)) \/ Use \/ Used
  <2>1. UNCHANGED <<rec, file, word>>
    BY <1>3 DEF SetLock, Use, Used, records
  <2> QED
    BY <1>1, <1>2, <2>1, TurnHeeds DEF Turn, Kept
<1>4. CASE Validate
  <2>1. Persisted(rec) \in Records /\ Mindful(Persisted(rec), word)
    BY <1>2, PersistedType, PersistedMindful
  <2>2. Scan(Persisted(rec), kind) /\ word' = word
    BY <1>4 DEF Validate
  <2>3. Mindful(rec', word) /\ Mindful(file', word)
    BY <1>2, <2>1, <2>2, ScanHeeds
  <2> QED
    BY <1>1, <2>2, <2>3, TurnHeeds DEF Turn, Kept
<1>5. CASE UseFails
  <2> DEFINE c == FailedRecord(rec)
  <2>1. rec' = c /\ file' = Persisted(c) /\ word' = word
    BY <1>5 DEF UseFails
  <2>2. c \in Records /\ Mindful(c, word)
    <3>1. CASE rec.active = "local" \/ rec.status = "none"
      BY <1>2, <3>1 DEF FailedRecord
    <3>2. CASE rec.active # "local" /\ rec.status # "none"
      <4>1. /\ c \in Records /\ c.active = rec.active /\ c.status = "errored" /\ c.enabled = FALSE
            /\ c.block = rec.block
            /\ \A t \in Sources : c.intent[t] \in {rec.intent[t], "off"}
        BY <1>2, <3>2 DEF FailedRecord, Records, Statuses, Sources
      <4> QED
        BY <1>2, <4>1 DEF Mindful, Heeds, Obeys, Clear
    <3> QED
      BY <3>1, <3>2
  <2> HIDE DEF c
  <2>3. Mindful(Persisted(c), word)
    BY <2>2, PersistedMindful
  <2> QED
    BY <1>1, <2>1, <2>2, <2>3, TurnHeeds DEF Turn, Kept
<1> QED
  BY <1>3, <1>4, <1>5, SwitchHeeds, EnableHeeds, DisableHeeds DEF Operate

\* An archive operation begins, and sets the package aside.
LEMMA ArchiveBeginsHeeds ==
    ASSUME IInv, DInv, (\E op \in {"install", "upgrade"}, v \in Versions : Begin(op, v)) \/ Retain
    PROVE  DInv'
<1>1. Turn
  BY DEF Begin, Retain
<1>2. /\ rec \in Records /\ file \in Records /\ kind \in [Sources -> Kinds]
      /\ Mindful(rec, word) /\ Kept(word)
  BY <1>1, TurnFacts
<1>3. CASE \E op \in {"install", "upgrade"}, v \in Versions : Begin(op, v)
  <2>1. UNCHANGED <<up, un, kind, rec, file, word>> /\ arch'.step = "waiting"
    BY <1>3 DEF Begin, files, records, NoArchive
  <2> QED
    BY <1>1, <1>2, <2>1, TurnHeeds DEF Kept
<1>4. CASE Retain
  <2>1. /\ UNCHANGED <<up, un, rec, file, word>> /\ un = "idle" /\ prior'.rec = rec
    BY <1>1, <1>4 DEF Retain, Turn, records
  <2>2. arch'.step \in {"retained", "failed"}
    BY <1>4 DEF Retain, Step, IInv, TypeOK
  <2> QED
    BY <1>1, <1>2, <2>1, <2>2 DEF DInv, Heeded, Remembered, Kept, Mindful, Turn
<1> QED
  BY <1>3, <1>4

\* The steps that move files, and those that write the artifact store, leave the
\* lifecycle record.
LEMMA FilesHeeds ==
    ASSUME IInv, DInv, Promote \/ Verify \/ UndoArtifact \/ RollBack
    PROVE  DInv'
<1>1. /\ UNCHANGED <<up, un, rec, file, word, prior>> /\ un = "idle"
      /\ arch.step \in {"retained", "promoted", "undone", "rollback"}
  BY DEF Promote, Verify, UndoArtifact, RollBack, records, IInv, Exclusive
<1>2. arch'.step \in {"promoted", "verified", "rollback", "failed"}
  BY <1>1 DEF Promote, Verify, UndoArtifact, RollBack, RollBackThrows, Returned, Thrown, Step, IInv, TypeOK
<1> QED
  BY <1>1, <1>2 DEF DInv, Heeded, Kept, Remembered

\* installModule and upgradeModule write a record that knew what was disabled, with another status.
LEMMA RegisterHeeds ==
    ASSUME IInv, DInv, Register
    PROVE  DInv'
<1>1. /\ UNCHANGED <<up, un, word, prior>> /\ up /\ un = "idle" /\ arch.step = "verified"
  BY DEF Register, files, IInv, Exclusive
<1>2. /\ Mindful(prior.rec, word) /\ rec = prior.rec /\ rec \in Records /\ Kept(word)
  BY <1>1 DEF DInv, Heeded, Remembered, IInv, AsFound, TypeOK
<1>3. {"validated", "discovered"} \subseteq Statuses \ {"none"}
  BY DEF Statuses
<1>4. CASE /\ Step("recorded") /\ rec' = [rec EXCEPT !.status = "validated"] /\ file' = Persisted(rec')
  <2>1. Mindful(rec', word) /\ Mindful(file', word)
    BY <1>2, <1>3, <1>4, StatusMindful, PersistedMindful
  <2>2. arch'.step = "recorded"
    BY <1>4 DEF Step, IInv, TypeOK
  <2> QED
    BY <1>1, <1>2, <2>1, <2>2 DEF DInv, Heeded, Remembered, Kept, Mindful
<1>5. CASE /\ arch'.step \in {"rollback", "undo"} /\ rec' \in {rec, Recalled(rec)}
           /\ file' \in {file, NoRecord}
  <2>1. Mindful(rec', word)
    BY <1>2, <1>3, <1>5, StatusMindful DEF Recalled
  <2>2. Kept(word)'
    BY <1>1, <1>2, <1>5 DEF Kept
  <2> QED
    BY <1>1, <1>2, <1>5, <2>1, <2>2 DEF DInv, Heeded, Remembered, Mindful
<1>6. arch.step = "verified" /\ (Returned => arch'.step = "rollback") /\ (Step("undo") => arch'.step = "undo")
  BY <1>1 DEF Returned, Step, IInv, TypeOK
<1> QED
  BY <1>4, <1>5, <1>6 DEF Register, TornRecord

\* A write that fails brings back the record that was found.
LEMMA RecordArtifactHeeds ==
    ASSUME IInv, DInv, RecordArtifact
    PROVE  DInv'
<1>1. /\ UNCHANGED <<up, un, file, word, prior>> /\ up /\ un = "idle"
      /\ arch.step = "recorded" /\ arch'.step \in {"undo", "registered"}
  BY DEF RecordArtifact, Step, IInv, Exclusive, TypeOK
<1>2. /\ Mindful(prior.rec, word) /\ prior.rec \in Records /\ Mindful(file, word)
      /\ Mindful(rec, word)
  BY <1>1 DEF DInv, Heeded, Remembered, Mindful, IInv, TypeOK
<1>3. Mindful(rec', word)
  <2>1. CASE UNCHANGED rec
    BY <1>2, <2>1
  <2>2. CASE rec' = Recalled(prior.rec)
    <3>1. "discovered" \in Statuses \ {"none"}
      BY DEF Statuses
    <3> QED
      BY <1>2, <2>2, <3>1, StatusMindful DEF Recalled
  <2> QED
    BY <2>1, <2>2 DEF RecordArtifact
<1> QED
  BY <1>1, <1>2, <1>3 DEF DInv, Heeded, Kept, Remembered, Mindful

\* The catch writes that record to the file, or loses the file.
LEMMA UndoRecordHeeds ==
    ASSUME IInv, DInv, UndoRecord
    PROVE  DInv'
<1>1. /\ UNCHANGED <<up, un, rec, word, prior>> /\ up /\ un = "idle" /\ arch.step = "undo"
      /\ arch'.step \in {"undone", "rollback"}
      /\ file' \in {file, NoRecord, Persisted(rec)}
  BY DEF UndoRecord, Step, Thrown, TornRecord, files, IInv, Exclusive, TypeOK
<1>2. Mindful(prior.rec, word) /\ rec \in Records /\ Mindful(rec, word) /\ Kept(word)
  BY <1>1 DEF DInv, Heeded, Remembered, Mindful, IInv, TypeOK
<1>3. Kept(word)'
  BY <1>1, <1>2, PersistedMindful DEF Kept
<1> QED
  BY <1>1, <1>2, <1>3 DEF DInv, Heeded, Remembered, Mindful

\* The operation ends: by a scan of the file, or with what it found.
LEMMA ArchiveEndsHeeds ==
    ASSUME IInv, DInv, Finish \/ Answer
    PROVE  DInv'
<1>1. /\ UNCHANGED <<up, un, word>> /\ up /\ un = "idle" /\ arch'.step = "idle"
      /\ arch.step \in {"registered", "failed"}
  BY DEF Finish, Answer, Return, NoArchive, files, IInv, Exclusive
<1>2. CASE Finish
  <2>1. arch.step = "registered" /\ Scan(file, kind)
    BY <1>2 DEF Finish
  <2>2. file \in Records /\ Mindful(file, word) /\ kind \in [Sources -> Kinds]
    BY <2>1 DEF DInv, Remembered, IInv, TypeOK
  <2>3. Mindful(rec', word) /\ Mindful(file', word)
    BY <2>1, <2>2, ScanHeeds
  <2> QED
    BY <1>1, <2>3 DEF DInv, Heeded, Kept, Remembered, Mindful
<1>3. CASE Answer
  <2>1. UNCHANGED <<rec, file>>
    BY <1>3 DEF Answer, records
  <2> QED
    BY <1>1, <2>1 DEF DInv, Heeded, Kept, Remembered
<1> QED
  BY <1>2, <1>3

\* Uninstalling remembers the record as long as it may write it back.
LEMMA RemoveHeeds ==
    ASSUME IInv, DInv, Remove
    PROVE  DInv'
<1>1. CASE Uninstall
  <2>1. Turn /\ UNCHANGED <<up, word, arch>> /\ up /\ un = "idle" /\ arch.step \in {"idle", "waiting"}
    BY <1>1 DEF Uninstall, files, Turn
  <2>2. rec \in Records /\ Mindful(rec, word) /\ Kept(word)
    BY <2>1, TurnFacts
  <2>3. CASE /\ prior'.rec = rec /\ un' = "begun" /\ file' = Persisted(rec')
             /\ rec' = [rec EXCEPT !.status = "uninstalling", !.enabled = FALSE]
    <3>1. rec' \in Records /\ Mindful(rec', word)
      BY <2>2, <2>3 DEF Mindful, Heeds, Obeys, Clear, Records, Statuses
    <3>2. Mindful(file', word)
      BY <2>3, <3>1, PersistedMindful
    <3> QED
      BY <2>1, <2>2, <2>3, <3>1, <3>2 DEF DInv, Heeded, Kept, Remembered, Mindful
  <2>4. CASE file' \in {file, NoRecord, Persisted(rec)} /\ UNCHANGED <<rec, un>>
    <3>1. Kept(word)'
      BY <2>1, <2>2, <2>4, PersistedMindful DEF Kept
    <3> QED
      BY <2>1, <2>2, <2>4, <3>1, TurnHeeds
  <2> QED
    BY <1>1, <2>3, <2>4 DEF Uninstall
<1>2. CASE Restore /\ UNCHANGED <<up, word, arch>> /\ un \in {"begun", "dropped"} /\ up
  <2>1. /\ prior.rec \in Records /\ Mindful(prior.rec, word) /\ Kept(word)
        /\ arch.step \in {"idle", "waiting"}
    BY <1>2 DEF DInv, Heeded, Remembered, IInv, TypeOK, Exclusive
  <2>2. rec' = prior.rec /\ file' \in {file, NoRecord, Persisted(prior.rec)} /\ un' = "idle"
    BY <1>2 DEF Restore
  <2>3. Kept(word)'
    BY <1>2, <2>1, <2>2, PersistedMindful DEF Kept
  <2> QED
    BY <1>2, <2>1, <2>2, <2>3 DEF DInv, Heeded, Remembered, Mindful
<1>3. CASE DropArtifact /\ un' = "dropped" /\ UNCHANGED <<file, rec, prior>>
  <2>1. UNCHANGED <<up, word, arch>> /\ un = "begun" /\ up /\ arch.step \in {"idle", "waiting"}
    BY <1>3 DEF DropArtifact, IInv, Exclusive
  <2> QED
    BY <1>3, <2>1 DEF DInv, Heeded, Kept, Remembered
<1>4. CASE PurgeRecord /\ un' = "purged" /\ rec' = NoRecord /\ file' = NoRecord
           /\ word' = [s \in Sources |-> "none"]
  <2>1. UNCHANGED <<up, arch>> /\ un = "dropped" /\ up /\ arch.step \in {"idle", "waiting"}
    BY <1>4 DEF PurgeRecord, files, IInv, Exclusive
  <2>2. Mindful(NoRecord, word')
    <3>1. \A s \in Sources : word'[s] # "off"
      BY <1>4
    <3> QED
      BY <3>1, NoRecordFacts
  <2> QED
    BY <1>4, <2>1, <2>2 DEF DInv, Heeded, Kept, Remembered, Mindful
<1>5. CASE RemovePackage
  <2>1. UNCHANGED <<up, word, arch>> /\ un = "purged" /\ un' = "idle" /\ up
        /\ arch.step \in {"idle", "waiting"} /\ Scan(file, kind')
    BY <1>5 DEF RemovePackage, IInv, Exclusive
  <2>2. kind' \in [Sources -> Kinds] /\ file \in Records /\ Mindful(file, word)
    BY <1>5, <2>1 DEF RemovePackage, DInv, Remembered, IInv, TypeOK, Sources, Kinds
  <2>3. Mindful(rec', word) /\ Mindful(file', word)
    BY <2>1, <2>2, ScanHeeds
  <2> QED
    BY <2>1, <2>3 DEF DInv, Heeded, Kept, Remembered, Mindful
<1>6. CASE DropArtifact
  <2>1. UNCHANGED <<up, word, arch>> /\ un = "begun" /\ up
    BY <1>6 DEF DropArtifact
  <2> QED
    BY <1>2, <1>3, <1>6, <2>1 DEF DropArtifact
<1>7. CASE PurgeRecord
  <2>1. UNCHANGED <<up, arch>> /\ un = "dropped" /\ up
    BY <1>7 DEF PurgeRecord, files
  <2> QED
    BY <1>2, <1>4, <1>7, <2>1 DEF PurgeRecord
<1> QED
  BY <1>1, <1>5, <1>6, <1>7 DEF Remove

\* A restart reads the file, of which a death may leave nothing; the packages change around it.
LEMMA SurroundingsHeed ==
    ASSUME IInv, DInv, Surroundings
    PROVE  DInv'
<1>1. CASE Crash
  <2>1. /\ up' = FALSE /\ arch'.step = "idle" /\ un' = "idle" /\ rec' = NoRecord
        /\ word' = word /\ file' \in {file, NoRecord}
    BY <1>1 DEF Crash, Return, NoArchive
  <2>2. Kept(word)'
    BY <2>1 DEF Kept, DInv, Heeded
  <2>3. Obeys(NoRecord) /\ Clear(NoRecord) /\ NoRecord.active = "none"
    BY NoRecordFacts DEF Obeys, Clear
  <2> QED
    BY <2>1, <2>2, <2>3 DEF DInv, Heeded, Remembered
<1>2. CASE Boot
  <2>1. /\ ~up /\ up' /\ UNCHANGED <<kind, un, arch>> /\ Scan(file, kind)
        /\ word' = IF file.status = "none" THEN [s \in Sources |-> "none"] ELSE word
    BY <1>2 DEF Boot, files
  <2>2. arch.step = "idle" /\ un = "idle" /\ file \in Records /\ kind \in [Sources -> Kinds]
        /\ Kept(word)
    BY <2>1 DEF IInv, Exclusive, TypeOK, DInv, Heeded
  <2>3. Mindful(file, word')
    <3>1. CASE file.status = "none"
      <4>1. \A s \in Sources : word'[s] # "off"
        BY <2>1, <3>1
      <4>2. Mindful(NoRecord, word')
        BY <4>1, NoRecordFacts
      <4> QED
        BY <2>2, <4>1, <4>2 DEF Kept, Mindful, Heeds
    <3>2. CASE file.status # "none"
      BY <2>1, <2>2, <3>2 DEF Kept, NoRecord, Discovered
    <3> QED
      BY <3>1, <3>2
  <2>4. Mindful(rec', word') /\ Mindful(file', word')
    BY <2>1, <2>2, <2>3, ScanHeeds
  <2> QED
    BY <2>1, <2>2, <2>4 DEF DInv, Heeded, Kept, Remembered, Mindful
<1>3. CASE \E s \in Sources : ReleaseCore(s)
  <2>1. ~up /\ UNCHANGED <<up, arch, un, rec, file, word>>
    BY <1>3 DEF ReleaseCore, records
  <2>2. arch.step = "idle" /\ un = "idle"
    BY <2>1 DEF IInv, Exclusive
  <2> QED
    BY <2>1, <2>2 DEF DInv, Heeded, Kept, Remembered
<1>4. CASE \E k \in Kinds : EditCheckout(k)
  <2>1. Turn /\ UNCHANGED <<up, arch, un, rec, file, word>>
    BY <1>4 DEF EditCheckout, records
  <2> QED
    BY <2>1, TurnFacts, TurnHeeds DEF Turn, Kept
<1> QED
  BY <1>1, <1>2, <1>3, <1>4 DEF Surroundings

\* Every step keeps what the operator disabled.
LEMMA NextHeeds ==
    ASSUME IInv, DInv, [Next]_vars
    PROVE  DInv'
<1>1. CASE Archive
  BY <1>1, ArchiveBeginsHeeds, FilesHeeds, RegisterHeeds, RecordArtifactHeeds, UndoRecordHeeds,
     ArchiveEndsHeeds DEF Archive
<1>2. CASE UNCHANGED vars
  <2>1. UNCHANGED <<up, kind, file, rec, arch, prior, un, word>>
    BY <1>2 DEF vars, files, records
  <2> QED
    BY <2>1 DEF DInv, Heeded, Kept, Remembered, Mindful, Heeds, Obeys, Clear
<1> QED
  BY <1>1, <1>2, OperateHeeds, RemoveHeeds, SurroundingsHeed DEF Next

\* A source the operator disabled does not run until the operator enables or selects it, or the
\* record that says so is purged or lost: whatever initializeRegistry finds, and whatever fails.
THEOREM DisablesHold == Spec => []DisabledStaysDisabled
<1>1. Init => DInv
  <2> SUFFICES ASSUME Init PROVE DInv
    OBVIOUS
  <2>1. /\ ~up /\ file = NoRecord /\ rec = NoRecord /\ arch.step = "idle" /\ un = "idle"
    BY DEF Init, NoArchive
  <2>2. NoRecord.active = "none" /\ Obeys(NoRecord) /\ Clear(NoRecord)
    BY NoRecordFacts DEF Obeys, Clear
  <2> QED
    BY <2>1, <2>2 DEF DInv, Heeded, Kept, Remembered
<1>2. IInv /\ DInv /\ [Next]_vars => DInv'
  BY NextHeeds
<1>3. IInv /\ DInv => DisabledStaysDisabled
  <2> SUFFICES ASSUME IInv, DInv, EnabledForRuntime(rec), rec.active # "none", word[rec.active] = "off"
               PROVE  FALSE
    BY DEF DisabledStaysDisabled
  <2>1. up /\ rec.active \in Sources /\ rec.enabled
    BY DEF EnabledForRuntime, IInv, TypeOK, Records, DInv, Heeded
  <2> QED
    BY <2>1 DEF DInv, Heeded, Heeds, Obeys
<1> QED
  BY <1>1, <1>2, <1>3, Invariance, PTL DEF Spec
=============================================================================
