------------------------- MODULE WorldBootstrapProofs -------------------------
(***************************************************************************)
(* Theorems about preparation and recovery, for every number of worlds,    *)
(* faults and changed settings.  The inductive invariant IInv ties what a  *)
(* run of the bootstrapper has read to what it may publish: what is gated, *)
(* which connection and world a live run's mirrors come from, and which    *)
(* hook the queued refreshes wait for.  Every handler of the module is an  *)
(* operator on the process state, so there is one lemma per handler: from  *)
(* a good state it leads to a good state, and Keeps says what it leaves.   *)
(***************************************************************************)
EXTENDS WorldBootstrap, TLAPS

-----------------------------------------------------------------------------
(* Shapes *)

WorldOrNone == Worlds \cup {None}
Settings    == Unavailable..MaxSetting
Hooks       == {"none", "refresh", "recovery", "orphan"}
Boots   == [pc : BootPcs, live : BOOLEAN, sameConn : BOOLEAN, heard : BOOLEAN]
Recs    == [pc : RecPcs, live : BOOLEAN, sameConn : BOOLEAN, heard : BOOLEAN, fenced : BOOLEAN]
Mirrors == [Sources -> {"none", "old", "current"}]
Natives == [world : Worlds, gm : BOOLEAN, setting : 0..MaxSetting]

Cores == [ up : BOOLEAN, lifecycle : Lifecycles, title : WorldOrNone, evidence : 0..1,
           blockers : SUBSET BlockerKeys, admitted : BOOLEAN, diagnostic : BOOLEAN,
           retired : BOOLEAN, ready : BOOLEAN, failed : BOOLEAN,
           world : WorldOrNone, mirror : Mirrors, adapter : WorldOrNone,
           stored : Settings, context : Settings, prepared : Settings,
           hook : Hooks, given : Settings, refreshes : Nat,
           boot : Boots, chained : SUBSET BOOLEAN, rec : Recs ]

-----------------------------------------------------------------------------
(* The inductive invariant, in parts *)

\* Requests are admitted through an open gate only, and a failure closed it.
Gated(c) ==
    /\ c.admitted => c.blockers = {}
    /\ c.failed => "runtime-retired" \in c.blockers \/ "context-refresh" \in c.blockers

\* A run of the current connection is a run of a connection.
Linked(c) == (c.boot.sameConn => c.up) /\ (c.rec.sameConn => c.up)

\* A runtime is ready or being prepared, and only the ready one is recovered.
Lives(c) ==
    /\ c.retired => ~c.ready /\ ~c.boot.live
    /\ c.ready => c.boot.pc = "idle" /\ c.adapter = c.world /\ c.world # None
    /\ c.boot.live => c.boot.pc # "idle"
    /\ c.rec.live => c.ready

\* What a bootstrap that is still current has read so far.
BootFrom(c, n) == c.boot.live /\ c.boot.sameConn =>
    /\ c.boot.pc # "snapshot" => c.mirror["snapshot"] = "current" /\ c.world = n.world
    /\ c.boot.pc \notin {"snapshot", "packs"} => c.mirror["packs"] = "current"
    /\ c.boot.pc \in {"compatibility", "initialize"} => c.mirror["documents"] = "current"
    /\ c.boot.pc = "initialize" => c.adapter = c.world

\* What a recovery that is still current has read: the declared setting too, or it is fenced.
RecFrom(c, n) == c.rec.live /\ c.rec.sameConn =>
    /\ c.rec.pc \in {"packs", "documents", "compatibility", "hook"}
         => c.mirror["snapshot"] = "current" /\ c.world = n.world
    /\ c.rec.pc \in {"documents", "compatibility", "hook"} => c.mirror["packs"] = "current"
    /\ c.rec.pc \in {"compatibility", "hook"}
         => c.mirror["documents"] = "current" /\ (c.rec.fenced \/ c.context = n.setting)

\* Actors prepared from another context are behind a closed gate.
Prepared(c) == c.ready /\ c.prepared # c.context =>
    "context-refresh" \in c.blockers \/ "migration-compatibility" \in c.blockers

\* An active connection serves mirrors of its own, of the running world.
Served(c, n) == c.lifecycle = "active" /\ c.up /\ c.ready =>
    c.world = n.world /\ \A s \in Sources : c.mirror[s] = "current"

Sound(c, n) ==
    /\ n \in Natives /\ c \in Cores
    /\ Gated(c) /\ Linked(c) /\ Lives(c)
    /\ BootFrom(c, n) /\ RecFrom(c, n)
    /\ Prepared(c) /\ Served(c, n)

Active(c) == c.lifecycle = "active" => c.up

\* The queued refreshes wait for one hook, which was given the context of the last of them.
Counted(c, n) ==
    /\ c.refreshes <= n.setting
    /\ c.refreshes # 0 <=> c.hook = "refresh"
    /\ c.refreshes # 0 => c.ready /\ (c.rec.pc = "idle" \/ (c.rec.live /\ c.rec.pc = "context"))
    /\ c.refreshes = 1 => c.given = c.context

\* A recovery's hook and the recovery that awaits it.
Hooked(c) ==
    /\ c.hook = "recovery" => c.rec.pc = "hook"
    /\ (c.rec.live /\ c.rec.pc = "hook") => c.hook = "recovery"

\* Bootstraps queue behind a stale run only.
Queued(c) == c.chained # {} => c.boot.pc # "idle" /\ ~c.boot.live

Good(c, n) == Sound(c, n) /\ Active(c) /\ Counted(c, n) /\ Hooked(c)

IInv == Good(core, native) /\ Queued(core) /\ faults \in 0..MaxFaults

\* What the handlers of the gate, of readiness and of the teardown leave alone.
Keeps(c, d) ==
    /\ d.boot.pc = c.boot.pc /\ (d.boot.live => c.boot.live) /\ d.chained = c.chained
    /\ d.rec.pc = c.rec.pc /\ (d.rec.live => c.rec.live)
    /\ d.ready => c.ready

\* They differ in the gate alone.
Regated(c, d) ==
    /\ d.up = c.up /\ d.lifecycle = c.lifecycle /\ d.title = c.title /\ d.evidence = c.evidence
    /\ d.diagnostic = c.diagnostic /\ d.retired = c.retired /\ d.ready = c.ready
    /\ d.failed = c.failed /\ d.world = c.world /\ d.mirror = c.mirror /\ d.adapter = c.adapter
    /\ d.stored = c.stored /\ d.context = c.context /\ d.prepared = c.prepared
    /\ d.hook = c.hook /\ d.given = c.given /\ d.refreshes = c.refreshes
    /\ d.boot = c.boot /\ d.chained = c.chained /\ d.rec = c.rec

-----------------------------------------------------------------------------
(* The gate *)

\* Blocking adds a key, and refuses every request admitted before.
LEMMA BlockFacts ==
    ASSUME NEW c \in Cores, NEW k \in BlockerKeys
    PROVE  /\ Block(c, k) \in Cores
           /\ Block(c, k).blockers = c.blockers \cup {k} /\ ~Block(c, k).admitted
           /\ Regated(c, Block(c, k))
<1> DEFINE b == c.blockers \cup {k}
<1>1. b \in SUBSET BlockerKeys
  BY DEF Cores
<1> HIDE DEF b
<1>2. Block(c, k) = [c EXCEPT !.blockers = b, !.admitted = FALSE]
  BY DEF Block, b
<1>3. Block(c, k) \in Cores /\ Block(c, k).blockers = b /\ ~Block(c, k).admitted
  BY <1>1, <1>2, ZenonT(60) DEF Cores
<1>4. Regated(c, Block(c, k))
  BY <1>2 DEF Cores, Regated
<1> QED
  BY <1>3, <1>4 DEF b

\* Releasing takes a key away.
LEMMA ReleaseFacts ==
    ASSUME NEW c \in Cores, NEW k \in BlockerKeys
    PROVE  /\ Release(c, k) \in Cores
           /\ Release(c, k).blockers = c.blockers \ {k}
           /\ Release(c, k).admitted => c.admitted /\ k \notin c.blockers
           /\ Regated(c, Release(c, k))
<1>1. CASE k \notin c.blockers
  BY <1>1 DEF Release, Regated
<1>2. CASE k \in c.blockers
  <2> DEFINE b == c.blockers \ {k}
  <2>1. b \in SUBSET BlockerKeys
    BY DEF Cores
  <2> HIDE DEF b
  <2>2. Release(c, k) = [c EXCEPT !.blockers = b, !.admitted = FALSE]
    BY <1>2 DEF Release, b
  <2>3. Release(c, k) \in Cores /\ Release(c, k).blockers = b /\ ~Release(c, k).admitted
    BY <2>1, <2>2, ZenonT(60) DEF Cores
  <2>4. Regated(c, Release(c, k))
    BY <2>2 DEF Cores, Regated
  <2> QED
    BY <2>3, <2>4 DEF b
<1> QED
  BY <1>1, <1>2

\* Of a runtime that did not fail, a release leaves all but the gate, which stays sound.
LEMMA ReleaseRegates ==
    ASSUME NEW c \in Cores, NEW d \in Cores, NEW k \in BlockerKeys,
           Gated(d), ~d.failed, Regated(c, d)
    PROVE  Release(d, k) \in Cores /\ Gated(Release(d, k)) /\ Regated(c, Release(d, k))
<1>1. PICK e \in Cores : /\ e = Release(d, k) /\ e.blockers = d.blockers \ {k}
                         /\ e.admitted => d.admitted /\ k \notin d.blockers
                         /\ Regated(d, e)
  BY ReleaseFacts
<1>2. e.failed = d.failed
  BY <1>1 DEF Regated
<1>3. Gated(e)
  BY <1>1, <1>2 DEF Gated
<1>4. Regated(c, e)
  BY <1>1 DEF Regated
<1> QED
  BY <1>1, <1>3, <1>4

\* A change of the gate alone is judged by the gate's own conditions.
LEMMA RegatedIsGood ==
    ASSUME NEW n, NEW c, NEW d \in Cores, Sound(c, n), Regated(c, d), Gated(d), Prepared(d)
    PROVE  /\ Sound(d, n) /\ Keeps(c, d)
           /\ Active(c) => Active(d)
           /\ Counted(c, n) => Counted(d, n)
           /\ Hooked(c) => Hooked(d)
<1>1. Sound(d, n)
  BY DEF Sound, Regated, Linked, Lives, BootFrom, RecFrom, Served
<1>2. Keeps(c, d) /\ (Active(c) => Active(d))
  BY DEF Regated, Keeps, Active
<1>3. (Counted(c, n) => Counted(d, n)) /\ (Hooked(c) => Hooked(d))
  BY DEF Regated, Counted, Hooked
<1> QED
  BY <1>1, <1>2, <1>3

\* Blocking is always safe.
LEMMA BlockIsGood ==
    ASSUME NEW n, NEW c, Sound(c, n), NEW k \in BlockerKeys
    PROVE  /\ Sound(Block(c, k), n) /\ Keeps(c, Block(c, k))
           /\ Active(c) => Active(Block(c, k))
           /\ Counted(c, n) => Counted(Block(c, k), n)
           /\ Hooked(c) => Hooked(Block(c, k))
<1>1. c \in Cores
  BY DEF Sound
<1>2. PICK d \in Cores : d = Block(c, k) /\ d.blockers = c.blockers \cup {k} /\ ~d.admitted
                         /\ Regated(c, d)
  BY <1>1, BlockFacts
<1>3. Gated(d) /\ Prepared(d)
  BY <1>2 DEF Sound, Gated, Prepared, Regated
<1> QED
  BY <1>2, <1>3, RegatedIsGood

\* What the release of a key may rest on: a preparation that was not refused.
Releasable(c, k) ==
    /\ k = "runtime-retired" => ~c.failed
    /\ k = "context-refresh" => ~c.failed /\ (c.ready => c.prepared = c.context)
    /\ k = "migration-compatibility" => (c.ready => c.prepared = c.context)

\* Releasing is safe after a preparation that was not refused.
LEMMA ReleaseIsGood ==
    ASSUME NEW n, NEW c, Sound(c, n), NEW k \in BlockerKeys, Releasable(c, k)
    PROVE  /\ Sound(Release(c, k), n) /\ Keeps(c, Release(c, k))
           /\ Active(c) => Active(Release(c, k))
           /\ Counted(c, n) => Counted(Release(c, k), n)
           /\ Hooked(c) => Hooked(Release(c, k))
<1>1. c \in Cores
  BY DEF Sound
<1>2. PICK d \in Cores : /\ d = Release(c, k) /\ d.blockers = c.blockers \ {k}
                         /\ d.admitted => c.admitted /\ k \notin c.blockers
                         /\ Regated(c, d)
  BY <1>1, ReleaseFacts
<1>3. Gated(d) /\ Prepared(d)
  BY <1>2 DEF Sound, Gated, Prepared, Regated, Releasable, BlockerKeys
<1> QED
  BY <1>2, <1>3, RegatedIsGood

-----------------------------------------------------------------------------
(* Teardown *)

\* Without its connection no run is current, and no mirror.
LEMMA DisconnectedIsGood ==
    ASSUME NEW n, NEW c, Sound(c, n)
    PROVE  /\ Sound(Disconnected(c), n) /\ Keeps(c, Disconnected(c))
           /\ c.lifecycle # "active" => Active(Disconnected(c))
           /\ Counted(c, n) => Counted(Disconnected(c), n)
           /\ Hooked(c) => Hooked(Disconnected(c))
           /\ Disconnected(c).lifecycle = c.lifecycle
<1> DEFINE m == [s \in Sources |-> IF c.mirror[s] = "none" THEN "none" ELSE "old"]
           b == [c.boot EXCEPT !.sameConn = FALSE]
           r == [c.rec EXCEPT !.sameConn = FALSE]
           d == [c EXCEPT !.up = FALSE, !.boot = b, !.rec = r, !.mirror = m]
<1>1. m \in Mirrors
  BY DEF Mirrors
<1>2. b \in Boots /\ b.sameConn = FALSE /\ b.pc = c.boot.pc /\ b.live = c.boot.live
  BY DEF Sound, Cores, Boots
<1>3. r \in Recs /\ r.sameConn = FALSE /\ r.pc = c.rec.pc /\ r.live = c.rec.live
  BY DEF Sound, Cores, Recs
<1>4. Disconnected(c) = d
  BY DEF Disconnected, Sound, Cores
<1> HIDE DEF m, b, r
<1>5. Sound(d, n)
  BY <1>1, <1>2, <1>3 DEF Sound, Cores, Gated, Linked, Lives, BootFrom, RecFrom, Prepared, Served
<1>6. Keeps(c, d) /\ (c.lifecycle # "active" => Active(d)) /\ d.lifecycle = c.lifecycle
  BY <1>2, <1>3 DEF Sound, Cores, Keeps, Active
<1>7. (Counted(c, n) => Counted(d, n)) /\ (Hooked(c) => Hooked(d))
  BY <1>2, <1>3 DEF Sound, Cores, Counted, Hooked
<1> QED
  BY <1>4, <1>5, <1>6, <1>7

\* A reset leaves nothing ready, nothing queued, and no run of its epoch.
LEMMA ResetIsGood ==
    ASSUME NEW n, NEW c, Sound(c, n)
    PROVE  /\ Sound(Reset(c), n) /\ Keeps(c, Reset(c))
           /\ Active(c) => Active(Reset(c))
           /\ Counted(c, n) => Counted(Reset(c), n)
           /\ Hooked(c) => Hooked(Reset(c))
           /\ Reset(c).lifecycle = c.lifecycle /\ Reset(c).up = c.up
           /\ ~Reset(c).ready
<1>1. CASE c.retired
  BY <1>1 DEF Reset, Keeps, Sound, Lives
<1>2. CASE ~c.retired
  <2>1. PICK x \in Cores : /\ x = Block(c, "runtime-retired") /\ Regated(c, x)
                           /\ "runtime-retired" \in x.blockers /\ ~x.admitted
    BY BlockFacts DEF Sound, BlockerKeys
  <2>2. PICK y \in Cores : /\ y = Release(x, "context-refresh") /\ Regated(x, y)
                           /\ "runtime-retired" \in y.blockers /\ ~y.admitted
    BY <2>1, ReleaseFacts DEF BlockerKeys
  <2>3. PICK z \in Cores : /\ z = Release(y, "migration-compatibility") /\ Regated(y, z)
                           /\ "runtime-retired" \in z.blockers /\ ~z.admitted
    BY <2>2, ReleaseFacts DEF BlockerKeys
  <2>4. Regated(c, z)
    BY <2>1, <2>2, <2>3 DEF Regated
  <2> DEFINE b == [z.boot EXCEPT !.live = FALSE]
             r == [z.rec EXCEPT !.live = FALSE]
             h == IF z.hook = "none" THEN "none" ELSE "orphan"
             f == c.hook # "none"
             d == [z EXCEPT !.retired = TRUE, !.ready = FALSE, !.failed = f,
                            !.world = None, !.mirror = NoMirror, !.adapter = None,
                            !.stored = Cleared, !.context = Cleared, !.prepared = Cleared,
                            !.hook = h, !.given = Cleared, !.refreshes = 0,
                            !.boot = b, !.rec = r]
  <2>5. Reset(c) = d
    BY <1>2, <2>1, <2>2, <2>3 DEF Reset, Cores
  <2>6. b \in Boots /\ ~b.live /\ b.pc = c.boot.pc /\ b.sameConn = c.boot.sameConn
    BY <2>4 DEF Cores, Boots, Regated
  <2>7. r \in Recs /\ ~r.live /\ r.pc = c.rec.pc /\ r.sameConn = c.rec.sameConn
    BY <2>4 DEF Cores, Recs, Regated
  <2>8. NoMirror \in Mirrors /\ Cleared \in Settings
    BY BoundsNat DEF NoMirror, Mirrors, Cleared, Unavailable, Settings
  <2>9. h \in Hooks /\ h \in {"none", "orphan"} /\ f \in BOOLEAN
    BY DEF Hooks
  <2> HIDE DEF b, r, h, f
  <2>10. d \in Cores
    BY <2>6, <2>7, <2>8, <2>9, ZenonT(60) DEF Cores, WorldOrNone
  <2>11. Sound(d, n)
    <3>1. /\ d.retired /\ ~d.ready /\ d.boot = b /\ d.rec = r /\ d.up = c.up
          /\ "runtime-retired" \in d.blockers /\ ~d.admitted
      BY <2>3, <2>4 DEF Cores, Regated
    <3> HIDE DEF d
    <3> QED
      BY <2>6, <2>7, <2>10, <3>1
         DEF Sound, Gated, Linked, Lives, BootFrom, RecFrom, Prepared, Served
  <2>12. Keeps(c, d) /\ (Active(c) => Active(d)) /\ d.lifecycle = c.lifecycle /\ d.up = c.up /\ ~d.ready
    BY <2>4, <2>6, <2>7 DEF Cores, Keeps, Active, Regated
  <2>13. Counted(c, n) => Counted(d, n)
    BY <2>4, <2>9 DEF Cores, Counted, Sound, Natives
  <2>14. Hooked(c) => Hooked(d)
    BY <2>4, <2>7, <2>9 DEF Cores, Hooked
  <2> QED
    BY <2>5, <2>11, <2>12, <2>13, <2>14
<1> QED
  BY <1>1, <1>2

\* What two handlers leave, both leave.
LEMMA KeepsTransitive ==
    ASSUME NEW a, NEW b, NEW c, Keeps(a, b), Keeps(b, c)
    PROVE  Keeps(a, c)
BY DEF Keeps

\* A rejected account closes the gate.
LEMMA RejectAccountIsGood ==
    ASSUME NEW n, NEW c, Sound(c, n)
    PROVE  /\ Sound(RejectAccount(c), n) /\ Keeps(c, RejectAccount(c))
           /\ Active(c) => Active(RejectAccount(c))
           /\ Counted(c, n) => Counted(RejectAccount(c), n)
           /\ Hooked(c) => Hooked(RejectAccount(c))
           /\ RejectAccount(c).blockers # {} /\ RejectAccount(c).hook = c.hook
           /\ RejectAccount(c).refreshes = c.refreshes /\ RejectAccount(c).rec = c.rec
<1> DEFINE d == [c EXCEPT !.diagnostic = TRUE]
<1>0. Sound(d, n)
  <2>1. d \in Cores
    BY DEF Sound, Cores
  <2>2. /\ Gated(d) /\ Linked(d) /\ Lives(d) /\ Prepared(d)
        /\ BootFrom(d, n) /\ RecFrom(d, n) /\ Served(d, n)
    BY DEF Sound, Cores, Gated, Linked, Lives, BootFrom, RecFrom, Prepared, Served
  <2> QED
    BY <2>1, <2>2 DEF Sound
<1>1. /\ Keeps(c, d) /\ (Active(c) => Active(d))
      /\ Counted(c, n) => Counted(d, n)
      /\ Hooked(c) => Hooked(d)
      /\ d.hook = c.hook /\ d.refreshes = c.refreshes /\ d.rec = c.rec
  BY DEF Sound, Cores, Active, Counted, Hooked, Keeps
<1>2. RejectAccount(c) = Block(d, "service-identity")
  BY DEF RejectAccount
<1> HIDE DEF d
<1>3. d \in Cores /\ "service-identity" \in BlockerKeys
  BY <1>0 DEF Sound, BlockerKeys
<1>4. /\ RejectAccount(c).blockers # {} /\ RejectAccount(c).hook = d.hook
      /\ RejectAccount(c).refreshes = d.refreshes /\ RejectAccount(c).rec = d.rec
  BY <1>2, <1>3, BlockFacts DEF Regated
<1> QED
  BY <1>0, <1>1, <1>2, <1>3, <1>4, BlockIsGood, KeepsTransitive

\* A rejected account's connection is closed with its runtime.
LEMMA BlockServiceAccountIsGood ==
    ASSUME NEW n, NEW c, Sound(c, n)
    PROVE  /\ Sound(BlockServiceAccount(c), n) /\ Keeps(c, BlockServiceAccount(c))
           /\ Active(BlockServiceAccount(c)) /\ BlockServiceAccount(c).lifecycle = "closed"
           /\ Counted(c, n) => Counted(BlockServiceAccount(c), n)
           /\ Hooked(c) => Hooked(BlockServiceAccount(c))
<1> DEFINE d == [c EXCEPT !.lifecycle = "closed"]
<1>1. /\ Sound(d, n) /\ Keeps(c, d) /\ d.lifecycle = "closed"
      /\ Counted(c, n) => Counted(d, n)
      /\ Hooked(c) => Hooked(d)
  BY DEF Sound, Cores, Lifecycles, Gated, Linked, Lives, BootFrom, RecFrom, Prepared, Served,
         Counted, Hooked, Keeps
<1>2. BlockServiceAccount(c) = Disconnected(Reset(d))
  BY DEF BlockServiceAccount
<1> HIDE DEF d
<1>3. PICK e : /\ e = Reset(d) /\ Sound(e, n) /\ Keeps(d, e) /\ e.lifecycle = "closed"
               /\ Counted(d, n) => Counted(e, n)
               /\ Hooked(d) => Hooked(e)
  BY <1>1, ResetIsGood
<1> QED
  BY <1>1, <1>2, <1>3, DisconnectedIsGood, KeepsTransitive

\* A closed gate survives a failed readiness, or the transport is closed.
LEMMA ReadinessFailedIsGood ==
    ASSUME NEW n, NEW c, Sound(c, n), Active(c)
    PROVE  /\ Sound(ReadinessFailed(c), n) /\ Keeps(c, ReadinessFailed(c))
           /\ Active(ReadinessFailed(c))
           /\ Counted(c, n) => Counted(ReadinessFailed(c), n)
           /\ Hooked(c) => Hooked(ReadinessFailed(c))
           /\ ~IsReady(ReadinessFailed(c))
<1>1. CASE c.diagnostic
  BY <1>1, BlockServiceAccountIsGood DEF ReadinessFailed, IsReady
<1>2. CASE ~c.diagnostic /\ c.blockers # {}
  BY <1>2 DEF ReadinessFailed, Keeps, IsReady
<1>3. CASE ~c.diagnostic /\ c.blockers = {}
  <2> DEFINE d == [c EXCEPT !.lifecycle = "offline"]
  <2>1. /\ Sound(d, n) /\ Keeps(c, d) /\ d.lifecycle = "offline"
        /\ Counted(c, n) => Counted(d, n)
        /\ Hooked(c) => Hooked(d)
    BY DEF Sound, Cores, Lifecycles, Gated, Linked, Lives, BootFrom, RecFrom, Prepared, Served,
           Counted, Hooked, Keeps
  <2>2. ReadinessFailed(c) = Disconnected(d)
    BY <1>3 DEF ReadinessFailed
  <2> HIDE DEF d
  <2> QED
    BY <2>1, <2>2, DisconnectedIsGood, KeepsTransitive DEF IsReady
<1> QED
  BY <1>1, <1>2, <1>3

-----------------------------------------------------------------------------
(* Starting, joining and ending runs *)

\* What a step of a bootstrap leaves of the recovery, and a step of a recovery of the bootstraps.
KeepsRec(c, d)   == d.rec.pc = c.rec.pc /\ (d.rec.live => c.rec.live) /\ (d.ready => c.ready)
KeepsQueue(c, d) ==
    d.boot.pc = c.boot.pc /\ (d.boot.live => c.boot.live) /\ d.chained = c.chained

\* The queue stands if its bootstrap does.
LEMMA KeptQueue ==
    ASSUME NEW c, NEW d, Queued(c), KeepsQueue(c, d)
    PROVE  Queued(d)
BY DEF Queued, KeepsQueue

\* A bootstrap starts on a connection, behind no hook; otherwise it has failed.
LEMMA StartBootstrapIsGood ==
    ASSUME NEW n, NEW c, Good(c, n), ~c.ready, c.boot.pc = "idle", c.chained = {},
           NEW heard \in BOOLEAN
    PROVE  /\ Good(StartBootstrap(c, heard), n) /\ Queued(StartBootstrap(c, heard))
           /\ KeepsRec(c, StartBootstrap(c, heard))
<1> DEFINE d == [c EXCEPT !.retired = FALSE]
           run == [pc |-> "snapshot", live |-> TRUE, sameConn |-> TRUE, heard |-> heard]
<1>1. d \in Cores /\ ~d.ready /\ d.chained = {} /\ d.rec = c.rec /\ Keeps(c, d)
      /\ d.up = c.up /\ d.hook = c.hook
  BY DEF Good, Sound, Cores, Keeps
<1>2. Good(d, n)
  BY <1>1 DEF Good, Sound, Cores, Gated, Linked, Lives, BootFrom, RecFrom, Prepared, Served,
              Active, Counted, Hooked
<1>3. CASE c.up /\ c.hook = "none"
  <2> DEFINE s == [d EXCEPT !.boot = run]
  <2>1. StartBootstrap(c, heard) = s
    BY <1>3 DEF StartBootstrap
  <2>2. run \in Boots /\ run.live /\ run.sameConn /\ run.pc = "snapshot"
    BY DEF Boots, BootPcs
  <2> HIDE DEF d, run
  <2>3. s \in Cores /\ s.boot = run /\ s.up /\ ~s.ready
    BY <1>1, <1>3, <2>2 DEF Cores
  <2>4. ~s.retired
    BY <1>1 DEF Cores, d
  <2>5. Good(s, n)
    BY <1>1, <1>2, <2>2, <2>3, <2>4
       DEF Good, Sound, Cores, Gated, Linked, Lives, BootFrom, RecFrom, Prepared, Served,
           Active, Counted, Hooked
  <2>6. Queued(s) /\ KeepsRec(c, s)
    BY <1>1 DEF Cores, Queued, KeepsRec
  <2> QED
    BY <2>1, <2>5, <2>6
<1>4. CASE ~(c.up /\ c.hook = "none")
  <2> DEFINE e == IF c.hook = "none" THEN d ELSE Block(d, "context-refresh")
  <2>1. StartBootstrap(c, heard) = IF heard THEN ReadinessFailed(e) ELSE e
    BY <1>4 DEF StartBootstrap
  <2> HIDE DEF d
  <2>2. Good(e, n) /\ Keeps(d, e)
    BY <1>2, BlockIsGood DEF Good, BlockerKeys, Keeps
  <2> HIDE DEF e
  <2>3. PICK s : s = StartBootstrap(c, heard) /\ Good(s, n) /\ Keeps(e, s)
    BY <2>1, <2>2, ReadinessFailedIsGood DEF Good, Keeps
  <2>4. Keeps(c, s)
    BY <1>1, <2>2, <2>3, KeepsTransitive
  <2> QED
    BY <2>3, <2>4 DEF Keeps, KeepsRec, Queued
<1> QED
  BY <1>3, <1>4

\* Bootstraps are started, shared, or queued behind a stale one.
LEMMA JoinBootstrapIsGood ==
    ASSUME NEW n, NEW c, Good(c, n), Queued(c), ~c.ready, NEW heard \in BOOLEAN
    PROVE  /\ Good(JoinBootstrap(c, heard), n) /\ Queued(JoinBootstrap(c, heard))
           /\ KeepsRec(c, JoinBootstrap(c, heard))
<1>1. CASE c.boot.pc = "idle"
  BY <1>1, StartBootstrapIsGood DEF JoinBootstrap, Queued
<1>2. CASE c.boot.pc # "idle" /\ c.boot.live
  <2> DEFINE b == [c.boot EXCEPT !.heard = c.boot.heard \/ heard]
             d == [c EXCEPT !.boot = b]
  <2>1. b \in Boots /\ b.pc = c.boot.pc /\ b.live = c.boot.live /\ b.sameConn = c.boot.sameConn
    BY DEF Good, Sound, Cores, Boots
  <2>2. JoinBootstrap(c, heard) = d
    BY <1>2 DEF JoinBootstrap, Good, Sound, Cores
  <2> HIDE DEF b
  <2>3. d \in Cores /\ KeepsRec(c, d) /\ Queued(d)
    BY <2>1 DEF Good, Sound, Cores, KeepsRec, Queued
  <2>4. Good(d, n)
    BY <2>1, <2>3 DEF Good, Sound, Cores, Gated, Linked, Lives, BootFrom, RecFrom, Prepared,
                      Served, Active, Counted, Hooked
  <2> QED
    BY <2>2, <2>3, <2>4
<1>3. CASE c.boot.pc # "idle" /\ ~c.boot.live
  <2> DEFINE q == c.chained \cup {heard}
             d == [c EXCEPT !.chained = q]
  <2>1. q \in SUBSET BOOLEAN
    BY DEF Good, Sound, Cores
  <2>2. JoinBootstrap(c, heard) = d
    BY <1>3 DEF JoinBootstrap
  <2> HIDE DEF q
  <2>3. d \in Cores /\ KeepsRec(c, d) /\ Queued(d)
    BY <1>3, <2>1 DEF Good, Sound, Cores, KeepsRec, Queued
  <2>4. Good(d, n)
    BY <2>3 DEF Good, Sound, Cores, Gated, Linked, Lives, BootFrom, RecFrom, Prepared,
                Served, Active, Counted, Hooked
  <2> QED
    BY <2>2, <2>3, <2>4
<1> QED
  BY <1>1, <1>2, <1>3

\* Stated of the state without the recovery, which is all that its end rests on.
LEMMA RecoveryEndsIsGood ==
    ASSUME NEW n, NEW c, NEW d, d = [c EXCEPT !.rec = NoRec], d.rec = NoRec,
           Sound(d, n), Active(d), Counted(d, n), d.hook # "recovery", NEW ok \in BOOLEAN
    PROVE  /\ Good(RecoveryEnds(c, ok), n) /\ Keeps(d, RecoveryEnds(c, ok))
           /\ d.blockers # {} => ~IsReady(RecoveryEnds(c, ok))
           /\ ok => RecoveryEnds(c, ok) = d
<1>1. Hooked(d)
  BY DEF Hooked, NoRec
<1>2. CASE c.rec.heard /\ ~ok
  BY <1>1, <1>2, ReadinessFailedIsGood DEF RecoveryEnds, Good
<1>3. CASE ~(c.rec.heard /\ ~ok)
  BY <1>1, <1>3 DEF RecoveryEnds, Good, Keeps, IsReady
<1> QED
  BY <1>2, <1>3

\* A failed recovery leaves the gate closed if its runtime still stands.
LEMMA RecoveryFailsIsGood ==
    ASSUME NEW n, NEW c, Sound(c, n), Active(c), c.refreshes = 0,
           c.hook \notin {"refresh", "recovery"}
    PROVE  /\ Good(RecoveryFails(c), n) /\ KeepsQueue(c, RecoveryFails(c))
           /\ RecoveryFails(c).rec.pc = "idle"
           /\ c.rec.live => ~IsReady(RecoveryFails(c))
<1> DEFINE f == [c EXCEPT !.failed = TRUE]
           a == IF c.rec.live THEN Block(f, "context-refresh") ELSE c
           b == IF "migration-compatibility" \in a.blockers THEN [a EXCEPT !.ready = FALSE] ELSE a
           d == [b EXCEPT !.rec = NoRec]
<1>1. /\ f \in Cores /\ f.failed /\ f.blockers = c.blockers /\ f.rec = c.rec /\ f.boot = c.boot
      /\ f.chained = c.chained /\ f.ready = c.ready /\ f.up = c.up /\ f.lifecycle = c.lifecycle
      /\ f.mirror = c.mirror /\ f.world = c.world /\ f.adapter = c.adapter
      /\ f.retired = c.retired /\ f.prepared = c.prepared /\ f.context = c.context
      /\ f.refreshes = c.refreshes /\ f.hook = c.hook
  BY DEF Sound, Cores
<1> HIDE DEF f
<1>2. /\ a \in Cores /\ a.rec = c.rec /\ a.boot = c.boot
      /\ a.chained = c.chained /\ a.ready = c.ready /\ a.up = c.up /\ a.lifecycle = c.lifecycle
      /\ a.mirror = c.mirror /\ a.world = c.world /\ a.adapter = c.adapter
      /\ a.retired = c.retired /\ a.prepared = c.prepared /\ a.context = c.context
      /\ a.refreshes = c.refreshes /\ a.hook = c.hook
      /\ c.blockers \subseteq a.blockers
      /\ c.rec.live => "context-refresh" \in a.blockers
      /\ Gated(a)
  <2>1. CASE c.rec.live
    <3>1. PICK x \in Cores : /\ x = Block(f, "context-refresh") /\ Regated(f, x)
                             /\ x.blockers = f.blockers \cup {"context-refresh"} /\ ~x.admitted
      BY <1>1, BlockFacts DEF BlockerKeys
    <3>2. a = x
      BY <2>1, <3>1
    <3> HIDE DEF a
    <3> QED
      BY <1>1, <3>1, <3>2 DEF Regated, Gated
  <2>2. CASE ~c.rec.live
    BY <2>2 DEF Sound
  <2> QED
    BY <2>1, <2>2
<1> HIDE DEF a
<1>3. /\ b \in Cores /\ b.rec = c.rec /\ b.boot = c.boot
      /\ b.chained = c.chained /\ (b.ready => c.ready) /\ b.up = c.up /\ b.lifecycle = c.lifecycle
      /\ b.mirror = c.mirror /\ b.world = c.world /\ b.adapter = c.adapter
      /\ b.retired = c.retired /\ b.prepared = c.prepared /\ b.context = c.context
      /\ b.refreshes = 0 /\ b.hook = c.hook
      /\ c.blockers \subseteq b.blockers
      /\ c.rec.live => "context-refresh" \in b.blockers
      /\ Gated(b)
  BY <1>2 DEF Cores, Gated
<1> HIDE DEF b
<1>4. NoRec \in Recs /\ NoRec.pc = "idle" /\ ~NoRec.live /\ ~NoRec.sameConn
  BY DEF NoRec, Recs, RecPcs
<1>5. /\ d \in Cores /\ d.rec = NoRec /\ d.boot = c.boot
      /\ d.chained = c.chained /\ (d.ready => c.ready) /\ d.up = c.up /\ d.lifecycle = c.lifecycle
      /\ d.mirror = c.mirror /\ d.world = c.world /\ d.adapter = c.adapter
      /\ d.retired = c.retired /\ d.prepared = c.prepared /\ d.context = c.context
      /\ d.refreshes = 0 /\ d.hook = c.hook
      /\ c.blockers \subseteq d.blockers
      /\ c.rec.live => "context-refresh" \in d.blockers
      /\ Gated(d)
  BY <1>3, <1>4 DEF Cores, Gated
<1>6. RecoveryFails(c) = RecoveryEnds(b, FALSE)
  BY DEF RecoveryFails, a, b, f
<1>7. d = [b EXCEPT !.rec = NoRec]
  OBVIOUS
<1> HIDE DEF d
<1>8. Sound(d, n)
  BY <1>4, <1>5 DEF Sound, Linked, Lives, BootFrom, RecFrom, Prepared, Served
<1>9. Active(d) /\ Counted(d, n) /\ d.hook # "recovery"
  BY <1>5, <1>8 DEF Active, Counted, Sound, Natives
<1>10. PICK e : /\ e = RecoveryFails(c) /\ Good(e, n) /\ Keeps(d, e)
                /\ d.blockers # {} => ~IsReady(e)
  BY <1>5, <1>6, <1>7, <1>8, <1>9, RecoveryEndsIsGood
<1> QED
  BY <1>4, <1>5, <1>10 DEF Keeps, KeepsQueue

\* The queued bootstrap starts on a runtime that is not ready: it was queued behind a stale run.
LEMMA BootstrapEndsIsGood ==
    ASSUME NEW n, NEW c, NEW a, a = [c EXCEPT !.boot = NoBoot], Good(a, n),
           a.boot.pc = "idle", ~a.boot.live, a.rec = c.rec, a.chained = c.chained,
           c.chained # {} => ~a.ready, NEW ok \in BOOLEAN
    PROVE  /\ Good(BootstrapEnds(c, ok), n) /\ Queued(BootstrapEnds(c, ok))
           /\ c.rec.pc # "replaced" => KeepsRec(a, BootstrapEnds(c, ok))
<1> DEFINE b == IF c.boot.heard /\ ~ok THEN ReadinessFailed(a) ELSE a
           q == [b EXCEPT !.chained = {}]
           h == TRUE \in c.chained
           d == IF c.chained = {} THEN b ELSE JoinBootstrap(q, h)
<1>0. h \in BOOLEAN
  BY SMT
<1>1. BootstrapEnds(c, ok) = IF c.rec.pc = "replaced" THEN RecoveryEnds(d, ok) ELSE d
  BY DEF BootstrapEnds
<1> HIDE DEF h
<1>2. Good(b, n) /\ Keeps(a, b)
  BY ReadinessFailedIsGood DEF Good, Keeps
<1> HIDE DEF b
<1>3. Good(d, n) /\ Queued(d) /\ KeepsRec(a, d)
  <2>1. CASE c.chained = {}
    BY <1>2, <2>1 DEF Keeps, KeepsRec, Queued
  <2>2. CASE c.chained # {}
    <3>0. b \in Cores /\ {} \in SUBSET BOOLEAN
      BY <1>2 DEF Good, Sound
    <3>1. q \in Cores /\ KeepsRec(b, q) /\ Queued(q) /\ q.ready = b.ready
      BY <3>0 DEF Cores, KeepsRec, Queued
    <3>2. Good(q, n)
      BY <1>2, <3>1 DEF Good, Sound, Cores, Gated, Linked, Lives, BootFrom, RecFrom, Prepared,
                        Served, Active, Counted, Hooked
    <3>3. ~q.ready
      BY <1>2, <2>2, <3>1 DEF Keeps
    <3> HIDE DEF q
    <3>4. Good(d, n) /\ Queued(d) /\ KeepsRec(q, d)
      BY <1>0, <2>2, <3>1, <3>2, <3>3, JoinBootstrapIsGood
    <3> QED
      BY <1>2, <3>1, <3>4 DEF Keeps, KeepsRec
  <2> QED
    BY <2>1, <2>2
<1> HIDE DEF d
<1>4. CASE c.rec.pc # "replaced"
  BY <1>1, <1>3, <1>4
<1>5. CASE c.rec.pc = "replaced"
  <2> DEFINE e == [d EXCEPT !.rec = NoRec]
  <2>1. NoRec \in Recs /\ NoRec.pc = "idle" /\ ~NoRec.live /\ ~NoRec.sameConn
    BY DEF NoRec, Recs, RecPcs
  <2>2. d.rec.pc = "replaced"
    BY <1>3, <1>5 DEF KeepsRec
  <2>3. e \in Cores /\ e.rec = NoRec /\ e.hook = d.hook /\ Queued(e)
    BY <1>3, <2>1 DEF Good, Sound, Cores, Queued
  <2>4. Sound(e, n) /\ Active(e) /\ Counted(e, n)
    BY <1>3, <2>1, <2>3 DEF Good, Sound, Cores, Gated, Linked, Lives, BootFrom, RecFrom,
                            Prepared, Served, Active, Counted
  <2>5. e.hook # "recovery"
    BY <1>3, <2>2, <2>3 DEF Good, Hooked
  <2> HIDE DEF e
  <2>6. PICK r : r = RecoveryEnds(d, ok) /\ Good(r, n) /\ Keeps(e, r)
    BY <2>3, <2>4, <2>5, RecoveryEndsIsGood DEF e
  <2> QED
    BY <1>1, <1>5, <2>3, <2>6 DEF Keeps, Queued
<1> QED
  BY <1>4, <1>5

\* A failed bootstrap retires its runtime; a stale one touches nothing.
LEMMA BootstrapFailsIsGood ==
    ASSUME NEW n, NEW c, Good(c, n), Queued(c), c.boot.pc # "idle", NEW stale \in BOOLEAN
    PROVE  /\ Good(BootstrapFails(c, stale), n) /\ Queued(BootstrapFails(c, stale))
           /\ c.rec.pc # "replaced" => KeepsRec(c, BootstrapFails(c, stale))
<1> DEFINE x == IF ~stale /\ c.boot.live /\ c.blockers = {} THEN Reset(c) ELSE c
           a == [x EXCEPT !.boot = NoBoot]
<1>1. BootstrapFails(c, stale) = BootstrapEnds(x, FALSE)
  BY DEF BootstrapFails
<1>2. Good(x, n) /\ Keeps(c, x)
  BY ResetIsGood DEF Good, Keeps
<1> HIDE DEF x
<1>3. NoBoot \in Boots /\ NoBoot.pc = "idle" /\ ~NoBoot.live /\ ~NoBoot.sameConn
  BY DEF NoBoot, Boots, BootPcs
<1>4. x.boot.pc # "idle" /\ ~x.ready
  BY <1>2 DEF Keeps, Good, Sound, Lives
<1>5. a \in Cores /\ a.boot = NoBoot /\ a.rec = x.rec /\ a.chained = x.chained /\ ~a.ready
  BY <1>2, <1>3, <1>4 DEF Good, Sound, Cores
<1>6. Good(a, n)
  BY <1>2, <1>3, <1>5 DEF Good, Sound, Cores, Gated, Linked, Lives, BootFrom, RecFrom,
                          Prepared, Served, Active, Counted, Hooked
<1>7. a = [x EXCEPT !.boot = NoBoot]
  OBVIOUS
<1> HIDE DEF a
<1>8. PICK e : /\ e = BootstrapEnds(x, FALSE) /\ Good(e, n) /\ Queued(e)
               /\ x.rec.pc # "replaced" => KeepsRec(a, e)
  BY <1>3, <1>5, <1>6, <1>7, BootstrapEndsIsGood
<1> QED
  BY <1>1, <1>2, <1>5, <1>8 DEF Keeps, KeepsRec

\* A recovery goes on once the refreshes have settled, unless a hook still runs.
LEMMA AfterRefreshesIsGood ==
    ASSUME NEW n, NEW c, Good(c, n)
    PROVE  /\ Good(AfterRefreshes(c), n) /\ KeepsQueue(c, AfterRefreshes(c))
           /\ c.rec.pc # "context" => AfterRefreshes(c) = c
<1>1. CASE c.rec.pc # "context" \/ ~c.rec.live \/ c.refreshes # 0
  BY <1>1 DEF AfterRefreshes, KeepsQueue
<1>2. CASE ~(c.rec.pc # "context" \/ ~c.rec.live \/ c.refreshes # 0) /\ (c.hook # "none" \/ ~c.up)
  <2>1. AfterRefreshes(c) = RecoveryFails(c)
    BY <1>2 DEF AfterRefreshes
  <2>2. c.hook \notin {"refresh", "recovery"}
    BY <1>2 DEF Good, Counted, Hooked
  <2> QED
    BY <1>2, <2>1, <2>2, RecoveryFailsIsGood DEF Good
<1>3. CASE ~(c.rec.pc # "context" \/ ~c.rec.live \/ c.refreshes # 0) /\ ~(c.hook # "none" \/ ~c.up)
  <2> DEFINE r == [c.rec EXCEPT !.pc = "snapshot"]
             d == [c EXCEPT !.rec = r]
  <2>1. r \in Recs /\ r.pc = "snapshot" /\ r.live = c.rec.live /\ r.sameConn = c.rec.sameConn
    BY DEF Good, Sound, Cores, Recs, RecPcs
  <2>2. AfterRefreshes(c) = d
    BY <1>3 DEF AfterRefreshes, Good, Sound, Cores
  <2> HIDE DEF r
  <2>3. d \in Cores /\ KeepsQueue(c, d)
    BY <2>1 DEF Good, Sound, Cores, KeepsQueue
  <2>4. Good(d, n)
    BY <1>3, <2>1, <2>3 DEF Good, Sound, Cores, Gated, Linked, Lives, BootFrom, RecFrom,
                            Prepared, Served, Active, Counted, Hooked
  <2> QED
    BY <1>3, <2>2, <2>3, <2>4
<1> QED
  BY <1>1, <1>2, <1>3

\* A recovery closes the gate before it reads anything.
LEMMA StartRecoveryIsGood ==
    ASSUME NEW n, NEW c, Good(c, n), c.ready, c.rec.pc = "idle", NEW heard \in BOOLEAN
    PROVE  Good(StartRecovery(c, heard), n) /\ KeepsQueue(c, StartRecovery(c, heard))
<1> DEFINE r == [NoRec EXCEPT !.pc = "context", !.live = TRUE, !.sameConn = c.up, !.heard = heard]
           d == [c EXCEPT !.rec = r]
           e == Block(d, "context-refresh")
<1>1. r \in Recs /\ r.pc = "context" /\ r.live /\ r.sameConn = c.up
  BY DEF Good, Sound, Cores, Recs, RecPcs, NoRec
<1>2. StartRecovery(c, heard) = AfterRefreshes(e)
  BY DEF StartRecovery
<1> HIDE DEF r
<1>3. d \in Cores /\ KeepsQueue(c, d) /\ d.rec = r /\ d.up = c.up
  BY <1>1 DEF Good, Sound, Cores, KeepsQueue
<1>4. Good(d, n)
  BY <1>1, <1>3 DEF Good, Sound, Cores, Gated, Linked, Lives, BootFrom, RecFrom,
                    Prepared, Served, Active, Counted, Hooked
<1> HIDE DEF d
<1>5. Good(e, n) /\ Keeps(d, e)
  BY <1>4, BlockIsGood DEF Good, BlockerKeys
<1> HIDE DEF e
<1> QED
  BY <1>2, <1>3, <1>5, AfterRefreshesIsGood DEF Keeps, KeepsQueue

\* A recovery of a ready runtime is started or shared; otherwise it is a bootstrap.
LEMMA RecoverIsGood ==
    ASSUME NEW n, NEW c, Good(c, n), Queued(c), NEW heard \in BOOLEAN
    PROVE  /\ Good(Recover(c, heard), n) /\ Queued(Recover(c, heard))
           /\ c.rec.pc # "idle" => KeepsRec(c, Recover(c, heard))
<1>1. CASE ~c.ready
  BY <1>1, JoinBootstrapIsGood DEF Recover
<1>2. CASE c.ready /\ c.rec.pc = "idle"
  BY <1>2, StartRecoveryIsGood, KeptQueue DEF Recover
<1>3. CASE c.ready /\ c.rec.pc # "idle"
  <2> DEFINE r == [c.rec EXCEPT !.heard = c.rec.heard \/ heard]
             d == [c EXCEPT !.rec = r]
  <2>1. /\ r \in Recs /\ r.pc = c.rec.pc /\ r.live = c.rec.live /\ r.sameConn = c.rec.sameConn
        /\ r.fenced = c.rec.fenced
    BY DEF Good, Sound, Cores, Recs
  <2>2. Recover(c, heard) = d
    BY <1>3 DEF Recover, Good, Sound, Cores
  <2> HIDE DEF r
  <2>3. d \in Cores /\ KeepsRec(c, d) /\ Queued(d)
    BY <2>1 DEF Good, Sound, Cores, KeepsRec, Queued
  <2>4. Good(d, n)
    BY <2>1, <2>3 DEF Good, Sound, Cores, Gated, Linked, Lives, BootFrom, RecFrom,
                      Prepared, Served, Active, Counted, Hooked
  <2> QED
    BY <2>2, <2>3, <2>4
<1> QED
  BY <1>1, <1>2, <1>3

-----------------------------------------------------------------------------
(* World-context refreshes and hooks *)

\* A failed refresh leaves the gate closed and drops the refreshes queued behind it.
LEMMA RefreshFailsIsGood ==
    ASSUME NEW n, NEW c, Sound(c, n), Active(c), c.hook \in {"none", "orphan"},
           c.rec.pc \in {"idle", "context"}
    PROVE  Good(RefreshFails(c), n) /\ KeepsQueue(c, RefreshFails(c))
<1> DEFINE x == [c EXCEPT !.failed = TRUE, !.context = Unavailable, !.refreshes = 0]
<1>1. Unavailable \in Settings
  BY BoundsNat DEF Unavailable, Settings
<1>2. /\ x \in Cores /\ x.refreshes = 0 /\ x.blockers = c.blockers /\ x.ready = c.ready
      /\ x.rec = c.rec /\ x.boot = c.boot /\ x.chained = c.chained /\ x.up = c.up
      /\ x.lifecycle = c.lifecycle /\ x.mirror = c.mirror /\ x.world = c.world
      /\ x.adapter = c.adapter /\ x.retired = c.retired /\ x.hook = c.hook
  BY <1>1 DEF Sound, Cores
<1>3. RefreshFails(c) = AfterRefreshes(Block(x, "context-refresh"))
  BY DEF RefreshFails
<1> HIDE DEF x
<1>4. PICK y \in Cores : /\ y = Block(x, "context-refresh") /\ Regated(x, y)
                         /\ y.blockers = x.blockers \cup {"context-refresh"} /\ ~y.admitted
  BY <1>2, BlockFacts DEF BlockerKeys
<1>5. Sound(y, n) /\ KeepsQueue(c, y)
  BY <1>2, <1>4 DEF Sound, Gated, Linked, Lives, BootFrom, RecFrom, Prepared, Served,
                    Regated, KeepsQueue
<1>6. Active(y) /\ Counted(y, n) /\ Hooked(y)
  BY <1>2, <1>4, <1>5 DEF Active, Counted, Hooked, Regated, Sound, Natives
<1> QED
  BY <1>3, <1>4, <1>5, <1>6, AfterRefreshesIsGood DEF Good, KeepsQueue

\* The hook of a refresh is given the context of then.
LEMMA StartRefreshHookIsGood ==
    ASSUME NEW n, NEW c, Sound(c, n), Active(c), c.refreshes # 0, c.refreshes <= n.setting,
           c.ready, c.rec.pc = "idle" \/ (c.rec.live /\ c.rec.pc = "context"),
           c.hook \in {"none", "orphan"}
    PROVE  Good(StartRefreshHook(c), n) /\ KeepsQueue(c, StartRefreshHook(c))
<1>1. CASE c.hook # "none"
  BY <1>1, RefreshFailsIsGood DEF StartRefreshHook
<1>2. CASE c.hook = "none"
  <2> DEFINE s == [c EXCEPT !.hook = "refresh", !.given = c.context]
  <2>1. StartRefreshHook(c) = s
    BY <1>2 DEF StartRefreshHook
  <2>2. /\ s \in Cores /\ s.hook = "refresh" /\ s.given = c.context /\ s.context = c.context
        /\ s.refreshes = c.refreshes /\ s.ready = c.ready /\ s.rec = c.rec /\ KeepsQueue(c, s)
    BY DEF Sound, Cores, Hooks, KeepsQueue
  <2>3. Sound(s, n) /\ Active(s)
    BY <2>2 DEF Sound, Cores, Gated, Linked, Lives, BootFrom, RecFrom, Prepared, Served, Active
  <2>4. Counted(s, n) /\ Hooked(s)
    BY <2>2 DEF Counted, Hooked
  <2> QED
    BY <2>1, <2>2, <2>3, <2>4 DEF Good
<1> QED
  BY <1>1, <1>2

\* A refresh that settles starts the next one, or reopens the gate.
LEMMA RefreshSettlesIsGood ==
    ASSUME NEW n, NEW c, Good(c, n), c.hook = "refresh"
    PROVE  Good(RefreshSettles(c), n) /\ KeepsQueue(c, RefreshSettles(c))
<1> DEFINE p == IF c.given = c.context THEN c.context ELSE c.prepared
           k == c.refreshes - 1
           d == [c EXCEPT !.refreshes = k, !.hook = "none", !.given = Cleared, !.prepared = p]
           e == IF c.failed THEN d ELSE Release(d, "context-refresh")
<1>1. k \in Nat /\ k < c.refreshes /\ k + 1 = c.refreshes /\ p \in Settings /\ Cleared \in Settings
      /\ "none" \in Hooks
  BY BoundsNat DEF Good, Counted, Sound, Cores, Settings, Cleared, Unavailable, Hooks
<1>2. p = c.context \/ p = c.prepared
  OBVIOUS
<1>3. RefreshSettles(c) = IF d.refreshes # 0 THEN StartRefreshHook(d)
                          ELSE AfterRefreshes(IF c.failed THEN d ELSE Release(d, "context-refresh"))
  BY DEF RefreshSettles
<1>4. c.refreshes = 1 => p = c.context
  BY DEF Good, Counted
<1> HIDE DEF p, k
<1>5. /\ d \in Cores /\ d.refreshes = k /\ d.hook = "none" /\ d.prepared = p
      /\ d.blockers = c.blockers /\ d.admitted = c.admitted /\ d.failed = c.failed
      /\ d.ready = c.ready /\ d.rec = c.rec /\ d.context = c.context /\ KeepsQueue(c, d)
      /\ d.lifecycle = c.lifecycle /\ d.up = c.up
  BY <1>1 DEF Good, Sound, Cores, KeepsQueue
<1>6. Sound(d, n) /\ Active(d)
  BY <1>2, <1>5 DEF Good, Sound, Cores, Gated, Linked, Lives, BootFrom, RecFrom, Prepared,
                    Served, Active
<1>7. CASE k # 0
  <2>1. RefreshSettles(c) = StartRefreshHook(d)
    BY <1>3, <1>5, <1>7
  <2>2. c.refreshes # 0 /\ c.refreshes <= n.setting /\ c.refreshes \in Nat /\ n.setting \in Nat
    BY <1>1, <1>7 DEF Good, Counted, Sound, Cores, Natives
  <2>3. k <= n.setting
    BY <1>1, <2>2
  <2>4. d.ready /\ (d.rec.pc = "idle" \/ (d.rec.live /\ d.rec.pc = "context"))
    BY <1>5, <2>2 DEF Good, Counted
  <2> HIDE DEF d
  <2> QED
    BY <1>5, <1>6, <1>7, <2>1, <2>3, <2>4, StartRefreshHookIsGood DEF KeepsQueue
<1>8. CASE k = 0
  <2>1. c.refreshes = 1 /\ p = c.context
    BY <1>1, <1>4, <1>8
  <2>2. Counted(d, n) /\ Hooked(d)
    BY <1>5, <1>6, <1>8, <2>1 DEF Good, Counted, Hooked, Sound, Natives
  <2>3. RefreshSettles(c) = AfterRefreshes(e)
    BY <1>3, <1>5, <1>8
  <2> HIDE DEF d
  <2>4. Good(e, n) /\ KeepsQueue(d, e)
    <3>1. CASE c.failed
      BY <1>6, <2>2, <3>1 DEF Good, KeepsQueue
    <3>2. CASE ~c.failed
      <4>1. Releasable(d, "context-refresh")
        BY <1>5, <2>1, <3>2 DEF Releasable
      <4> QED
        BY <1>6, <2>2, <3>2, <4>1, ReleaseIsGood DEF Good, Keeps, KeepsQueue, BlockerKeys
    <3> QED
      BY <3>1, <3>2
  <2> HIDE DEF e
  <2> QED
    BY <1>5, <2>3, <2>4, AfterRefreshesIsGood DEF KeepsQueue
<1> QED
  BY <1>7, <1>8

\* The last hook of a recovery: it fails behind the gate, or publishes the setting Foundry has.
LEMMA RecoveryHookDoneIsGood ==
    ASSUME NEW n, NEW c, Sound(c, n), Active(c), c.refreshes = 0,
           c.rec.pc \in {"hook", "compatibility"}
    PROVE  /\ Good(RecoveryHookDone(c), n) /\ KeepsQueue(c, RecoveryHookDone(c))
           /\ c.rec.live /\ IsReady(RecoveryHookDone(c)) => RecoveryHookDone(c).prepared = n.setting
<1> DEFINE d == [c EXCEPT !.hook = "none", !.given = Cleared]
           x == [d EXCEPT !.prepared = c.context]
           y == Release(x, "migration-compatibility")
           z == [y EXCEPT !.failed = FALSE, !.lifecycle = "active"]
           w == Release(z, "context-refresh")
           v == [w EXCEPT !.rec = NoRec]
<1>1. Cleared \in Settings /\ "none" \in Hooks /\ c.context \in Settings
  BY BoundsNat DEF Settings, Cleared, Unavailable, Hooks, Sound, Cores
<1>2. RecoveryHookDone(c) =
        IF ~Current(c.rec) THEN RecoveryFails(d)
        ELSE IF c.rec.fenced THEN RecoveryFails(y) ELSE RecoveryEnds(w, TRUE)
  BY DEF RecoveryHookDone
<1>3. d \in Cores /\ d.hook = "none" /\ d.refreshes = 0 /\ d.rec = c.rec /\ KeepsQueue(c, d)
  BY <1>1 DEF Sound, Cores, KeepsQueue
<1>4. Sound(d, n) /\ Active(d)
  BY <1>3 DEF Sound, Cores, Gated, Linked, Lives, BootFrom, RecFrom, Prepared, Served, Active
<1>5. /\ x \in Cores /\ x.hook = "none" /\ x.refreshes = 0 /\ x.rec = c.rec /\ KeepsQueue(c, x)
      /\ x.prepared = c.context /\ x.context = c.context
  BY <1>1, <1>3 DEF Cores, KeepsQueue
<1>6. Sound(x, n) /\ Active(x)
  BY <1>4, <1>5 DEF Sound, Cores, Gated, Linked, Lives, BootFrom, RecFrom, Prepared, Served, Active
<1> HIDE DEF d, x
<1>7. Sound(y, n) /\ Active(y) /\ Regated(x, y)
  <2>1. Releasable(x, "migration-compatibility")
    BY <1>5 DEF Releasable
  <2> QED
    BY <1>5, <1>6, <2>1, ReleaseIsGood, ReleaseFacts DEF BlockerKeys
<1>8. /\ y \in Cores /\ y.hook = "none" /\ y.refreshes = 0 /\ y.rec = c.rec /\ KeepsQueue(c, y)
      /\ y.prepared = c.context /\ y.context = c.context
  BY <1>5, <1>7 DEF Regated, KeepsQueue, Sound
<1> HIDE DEF y
<1>9. CASE ~Current(c.rec)
  <2>1. RecoveryHookDone(c) = RecoveryFails(d)
    BY <1>2, <1>9
  <2> QED
    BY <1>3, <1>4, <2>1, RecoveryFailsIsGood DEF KeepsQueue
<1>10. CASE Current(c.rec) /\ c.rec.fenced
  <2>1. RecoveryHookDone(c) = RecoveryFails(y)
    BY <1>2, <1>10
  <2> QED
    BY <1>7, <1>8, <2>1, RecoveryFailsIsGood DEF KeepsQueue
<1>11. CASE Current(c.rec) /\ ~c.rec.fenced
  <2>1. RecoveryHookDone(c) = RecoveryEnds(w, TRUE)
    BY <1>2, <1>11
  <2>2. /\ y.up /\ y.mirror["snapshot"] = "current" /\ y.mirror["packs"] = "current"
        /\ y.mirror["documents"] = "current" /\ y.world = n.world /\ c.context = n.setting
    BY <1>7, <1>8, <1>11 DEF Current, Sound, RecFrom, Linked
  <2>3. /\ z \in Cores /\ ~z.failed /\ z.up /\ z.hook = "none" /\ z.refreshes = 0 /\ z.rec = c.rec
        /\ z.prepared = c.context /\ z.context = c.context /\ KeepsQueue(c, z)
    BY <1>8, <2>2 DEF Cores, Lifecycles, KeepsQueue
  <2>4. Sound(z, n) /\ Active(z)
    BY <1>7, <2>2, <2>3 DEF Sound, Cores, Gated, Linked, Lives, BootFrom, RecFrom, Prepared,
                            Served, Active, Sources
  <2> HIDE DEF z
  <2>5. Releasable(z, "context-refresh")
    BY <2>3 DEF Releasable
  <2>6. Sound(w, n) /\ Active(w) /\ Regated(z, w)
    BY <2>3, <2>4, <2>5, ReleaseIsGood, ReleaseFacts DEF BlockerKeys
  <2> HIDE DEF w
  <2>7. NoRec \in Recs /\ NoRec.pc = "idle" /\ ~NoRec.live /\ ~NoRec.sameConn
    BY DEF NoRec, Recs, RecPcs
  <2>8. w.hook = "none" /\ w.refreshes = 0 /\ w.prepared = n.setting /\ KeepsQueue(c, w) /\ w \in Cores
    BY <2>2, <2>3, <2>6 DEF Regated, KeepsQueue, Sound
  <2>9. /\ v \in Cores /\ v.rec = NoRec /\ v.hook = "none" /\ v.refreshes = 0
        /\ v.prepared = n.setting /\ KeepsQueue(c, v)
    BY <2>7, <2>8 DEF Cores, KeepsQueue
  <2>10. Sound(v, n) /\ Active(v)
    BY <2>6, <2>7, <2>9 DEF Sound, Cores, Gated, Linked, Lives, BootFrom, RecFrom, Prepared,
                            Served, Active
  <2>11. Counted(v, n)
    BY <2>9, <2>10 DEF Counted, Sound, Natives
  <2>12. v = [w EXCEPT !.rec = NoRec]
    OBVIOUS
  <2> HIDE DEF v
  <2>13. Good(RecoveryEnds(w, TRUE), n) /\ RecoveryEnds(w, TRUE) = v
    BY <2>9, <2>10, <2>11, <2>12, RecoveryEndsIsGood
  <2> QED
    BY <2>1, <2>9, <2>13
<1> QED
  BY <1>9, <1>10, <1>11

\* The setting has changed in Foundry; a recovery that has read the old one is fenced.
LEMMA NextSetting ==
    ASSUME NEW n, NEW m \in Natives, m.world = n.world, m.setting = n.setting + 1,
           NEW c, Good(c, n), RecFrom(c, m)
    PROVE  Good(c, m)
<1>1. Sound(c, m)
  BY DEF Good, Sound, BootFrom, Served
<1>2. c.refreshes \in Nat /\ n.setting \in Nat
  BY DEF Good, Sound, Cores, Natives
<1>3. Counted(c, m)
  BY <1>2 DEF Good, Counted
<1> QED
  BY <1>1, <1>3 DEF Good

\* A changed setting fences a recovery, or queues a refresh of a ready runtime.
LEMMA RefreshWorldContextIsGood ==
    ASSUME NEW n, NEW m \in Natives, m.world = n.world, m.setting = n.setting + 1,
           NEW c, Good(c, n)
    PROVE  /\ Good(RefreshWorldContext(c), m) /\ KeepsQueue(c, RefreshWorldContext(c))
           /\ c.rec.pc # "idle" => RefreshWorldContext(c).rec.pc = c.rec.pc
<1>1. CASE ~c.ready \/ c.adapter = None
  <2>1. RefreshWorldContext(c) = c
    BY <1>1 DEF RefreshWorldContext
  <2>2. ~c.rec.live \/ (c.adapter = None /\ c.adapter = c.world /\ c.world # None)
    BY <1>1 DEF Good, Sound, Lives
  <2>3. RecFrom(c, m)
    BY <2>2 DEF RecFrom
  <2> QED
    BY <2>1, <2>3, NextSetting DEF KeepsQueue
<1>2. CASE ~(~c.ready \/ c.adapter = None) /\ c.rec.pc # "idle"
  <2> DEFINE f == c.rec.pc \in {"compatibility", "hook"}
             r == [c.rec EXCEPT !.fenced = f]
             d == [c EXCEPT !.rec = r]
  <2>0. f \in BOOLEAN
    BY SMT
  <2>1. /\ r \in Recs /\ r.pc = c.rec.pc /\ r.live = c.rec.live /\ r.sameConn = c.rec.sameConn
        /\ c.rec.pc \in {"compatibility", "hook"} => r.fenced
    BY <2>0 DEF Good, Sound, Cores, Recs
  <2>2. RefreshWorldContext(c) = d
    BY <1>2 DEF RefreshWorldContext, Good, Sound, Cores
  <2> HIDE DEF f, r
  <2>3. d \in Cores /\ KeepsQueue(c, d) /\ d.rec = r /\ d.mirror = c.mirror /\ d.world = c.world
    BY <2>1 DEF Good, Sound, Cores, KeepsQueue
  <2>4. RecFrom(d, n) /\ RecFrom(d, m)
    BY <2>1, <2>3 DEF Good, Sound, RecFrom
  <2>5. Good(d, n)
    BY <2>1, <2>3, <2>4 DEF Good, Sound, Cores, Gated, Linked, Lives, BootFrom, Prepared,
                            Served, Active, Counted, Hooked
  <2> HIDE DEF d
  <2> QED
    BY <2>1, <2>2, <2>3, <2>4, <2>5, NextSetting
<1>3. CASE ~(~c.ready \/ c.adapter = None) /\ c.rec.pc = "idle" /\ (c.failed \/ c.stored = c.context)
  <2>1. RefreshWorldContext(c) = c
    BY <1>3 DEF RefreshWorldContext
  <2>2. RecFrom(c, m)
    BY <1>3 DEF RecFrom
  <2> QED
    BY <2>1, <2>2, NextSetting DEF KeepsQueue
<1>4. CASE ~(~c.ready \/ c.adapter = None) /\ c.rec.pc = "idle" /\ ~(c.failed \/ c.stored = c.context)
  <2> DEFINE k == c.refreshes + 1
             x == [c EXCEPT !.context = c.stored, !.refreshes = k]
             d == Block(x, "context-refresh")
  <2>1. k \in Nat /\ k # 0 /\ k <= m.setting
    BY DEF Good, Counted, Sound, Cores, Natives
  <2>2. k # 1 => c.refreshes # 0
    BY DEF Good, Sound, Cores
  <2>3. k = 1 => c.refreshes = 0
    BY DEF Good, Sound, Cores
  <2>4. RefreshWorldContext(c) = IF d.refreshes = 1 THEN StartRefreshHook(d) ELSE d
    BY <1>4 DEF RefreshWorldContext
  <2> HIDE DEF k
  <2>5. /\ x \in Cores /\ x.refreshes = k /\ x.blockers = c.blockers /\ x.failed = c.failed
        /\ x.ready = c.ready /\ x.rec = c.rec /\ x.boot = c.boot /\ x.hook = c.hook
        /\ x.up = c.up /\ x.lifecycle = c.lifecycle /\ x.mirror = c.mirror /\ x.world = c.world
        /\ x.adapter = c.adapter /\ x.retired = c.retired /\ x.chained = c.chained
    BY <2>1 DEF Good, Sound, Cores
  <2> HIDE DEF x
  <2>6. /\ d \in Cores /\ Regated(x, d) /\ ~d.admitted
        /\ d.blockers = x.blockers \cup {"context-refresh"}
    BY <2>5, BlockFacts DEF BlockerKeys
  <2> HIDE DEF d
  <2>7. d.refreshes = k /\ d.rec = c.rec /\ d.hook = c.hook /\ d.ready /\ KeepsQueue(c, d)
    BY <1>4, <2>5, <2>6 DEF Regated, KeepsQueue
  <2>8. Sound(d, m) /\ Active(d)
    BY <1>4, <2>5, <2>6 DEF Good, Sound, Gated, Linked, Lives, BootFrom, RecFrom, Prepared,
                            Served, Active, Regated
  <2>9. c.hook # "recovery" /\ (c.hook = "refresh" <=> c.refreshes # 0) /\ c.hook \in Hooks
    BY <1>4 DEF Good, Hooked, Counted, Sound, Cores
  <2>10. CASE k = 1
    <3>1. RefreshWorldContext(c) = StartRefreshHook(d) /\ d.hook \in {"none", "orphan"}
      BY <2>3, <2>4, <2>7, <2>9, <2>10 DEF Hooks
    <3> QED
      BY <1>4, <2>1, <2>7, <2>8, <3>1, StartRefreshHookIsGood DEF KeepsQueue
  <2>11. CASE k # 1
    <3>1. RefreshWorldContext(c) = d /\ d.hook = "refresh"
      BY <2>2, <2>4, <2>7, <2>9, <2>11
    <3>2. Counted(d, m) /\ Hooked(d)
      BY <1>4, <2>1, <2>7, <2>11, <3>1 DEF Counted, Hooked
    <3> QED
      BY <1>4, <2>7, <2>8, <3>1, <3>2 DEF Good
  <2> QED
    BY <2>10, <2>11
<1> QED
  BY <1>1, <1>2, <1>3, <1>4

-----------------------------------------------------------------------------
(* What several actions do *)

\* They differ in what the transport says of the world, not in what is served.
Restated(c, d) ==
    /\ d.up = c.up /\ d.blockers = c.blockers /\ d.admitted = c.admitted
    /\ d.retired = c.retired /\ d.ready = c.ready /\ d.failed = c.failed
    /\ d.world = c.world /\ d.mirror = c.mirror /\ d.adapter = c.adapter
    /\ d.context = c.context /\ d.prepared = c.prepared
    /\ d.hook = c.hook /\ d.given = c.given /\ d.refreshes = c.refreshes
    /\ d.boot = c.boot /\ d.chained = c.chained /\ d.rec = c.rec

\* What the transport says of the world is not served.
LEMMA RestatedIsGood ==
    ASSUME NEW n, NEW c, NEW d \in Cores, Sound(c, n), Restated(c, d),
           d.lifecycle # "active" \/ d.lifecycle = c.lifecycle
    PROVE  /\ Sound(d, n) /\ Keeps(c, d) /\ (Queued(c) => Queued(d))
           /\ d.lifecycle # "active" \/ Active(c) => Active(d)
           /\ Counted(c, n) => Counted(d, n)
           /\ Hooked(c) => Hooked(d)
<1>1. Sound(d, n)
  BY DEF Sound, Restated, Gated, Linked, Lives, BootFrom, RecFrom, Prepared, Served
<1>2. Keeps(c, d) /\ (Queued(c) => Queued(d)) /\ (d.lifecycle # "active" \/ Active(c) => Active(d))
  BY DEF Restated, Keeps, Active, Queued
<1>3. (Counted(c, n) => Counted(d, n)) /\ (Hooked(c) => Hooked(d))
  BY DEF Restated, Counted, Hooked
<1> QED
  BY <1>1, <1>2, <1>3

\* They differ in the mirrors alone, and what was current still is.
Seeded(c, d) ==
    /\ d.up = c.up /\ d.lifecycle = c.lifecycle /\ d.blockers = c.blockers
    /\ d.admitted = c.admitted /\ d.retired = c.retired /\ d.ready = c.ready
    /\ d.failed = c.failed /\ d.world = c.world /\ d.adapter = c.adapter
    /\ d.context = c.context /\ d.prepared = c.prepared
    /\ d.hook = c.hook /\ d.given = c.given /\ d.refreshes = c.refreshes
    /\ d.boot = c.boot /\ d.chained = c.chained /\ d.rec = c.rec
    /\ \A t \in Sources : c.mirror[t] = "current" => d.mirror[t] = "current"

\* Seeding a mirror leaves the others.
LEMMA SeedFacts ==
    ASSUME NEW c \in Cores, NEW source \in Sources
    PROVE  /\ Seed(c, source) \in Cores /\ Seeded(c, Seed(c, source))
           /\ Seed(c, source).mirror[source] = "current"
<1> DEFINE m == [c.mirror EXCEPT ![source] = "current"]
           d == [c EXCEPT !.mirror = m]
<1>1. c.mirror \in Mirrors
  BY DEF Cores
<1>2. /\ m \in Mirrors /\ m[source] = "current"
      /\ \A t \in Sources : c.mirror[t] = "current" => m[t] = "current"
  BY <1>1 DEF Mirrors
<1>3. Seed(c, source) = d
  BY DEF Seed, Cores
<1> HIDE DEF m
<1>4. d \in Cores /\ Seeded(c, d) /\ d.mirror = m
  BY <1>2 DEF Cores, Seeded
<1> QED
  BY <1>2, <1>3, <1>4

\* A verified account releases its own key only.
LEMMA VerifiedIsGood ==
    ASSUME NEW n, NEW c, Sound(c, n)
    PROVE  /\ Sound(Verified(c), n) /\ Keeps(c, Verified(c))
           /\ Active(c) => Active(Verified(c))
           /\ Counted(c, n) => Counted(Verified(c), n)
           /\ Hooked(c) => Hooked(Verified(c))
           /\ Verified(c).boot = c.boot /\ Verified(c).rec = c.rec /\ Verified(c).world = c.world
<1> DEFINE d == [c EXCEPT !.diagnostic = FALSE]
<1>1. d \in Cores /\ Restated(c, d) /\ d.lifecycle = c.lifecycle
  BY DEF Sound, Cores, Restated
<1>2. Verified(c) = Release(d, "service-identity")
  BY DEF Verified
<1> HIDE DEF d
<1>3. /\ Sound(d, n) /\ Keeps(c, d) /\ (Active(c) => Active(d))
      /\ Counted(c, n) => Counted(d, n)
      /\ Hooked(c) => Hooked(d)
  BY <1>1, RestatedIsGood
<1>4. Releasable(d, "service-identity") /\ "service-identity" \in BlockerKeys
  BY DEF Releasable, BlockerKeys
<1>5. Regated(d, Verified(c))
  BY <1>1, <1>2, <1>4, ReleaseFacts
<1> QED
  BY <1>1, <1>2, <1>3, <1>4, <1>5, ReleaseIsGood, KeepsTransitive DEF Regated, Restated

\* A hook that ends a recovery publishes the setting that Foundry has then.
Replayed(c, d, n) ==
    (c.rec.pc = "hook" /\ c.rec.live /\ d.rec.pc = "idle" /\ IsReady(d)) => d.prepared = n.setting

\* What every action comes to.
Leads(c, d, n) == Good(d, n) /\ Queued(d) /\ Replayed(c, d, n)

\* No refresh is pending once a recovery reads, nor before a runtime is ready.
LEMMA NoRefreshes ==
    ASSUME NEW n, NEW c, Good(c, n), c.rec.pc \notin {"idle", "context"} \/ ~c.ready
    PROVE  c.refreshes = 0 /\ c.hook # "refresh" /\ (c.rec.pc # "hook" => c.hook # "recovery")
BY DEF Good, Counted, Hooked

\* The ends of a bootstrap leave the recovery's pc, the ends of a recovery the queue.
LEMMA BootLeads ==
    ASSUME NEW n, NEW c, NEW d, Good(d, n), Queued(d), c.rec.pc # "replaced" => KeepsRec(c, d)
    PROVE  Leads(c, d, n)
BY DEF Leads, Replayed, KeepsRec

\* A handler that keeps the recovery and the queue leads to a good step.
LEMMA KeepsLeads ==
    ASSUME NEW n, NEW c, NEW d, Good(d, n), Queued(c), Keeps(c, d)
    PROVE  Leads(c, d, n)
BY DEF Leads, Replayed, Keeps, Queued

\* A recovery that fails publishes nothing.
LEMMA RecoveryFailsLeads ==
    ASSUME NEW n, NEW c, NEW d, Sound(d, n), Active(d), Queued(c), KeepsQueue(c, d),
           d.refreshes = 0, d.hook \notin {"refresh", "recovery"}, d.rec = c.rec
    PROVE  Leads(c, RecoveryFails(d), n)
<1>1. /\ Good(RecoveryFails(d), n) /\ KeepsQueue(d, RecoveryFails(d))
      /\ d.rec.live => ~IsReady(RecoveryFails(d))
  BY RecoveryFailsIsGood
<1>2. Queued(RecoveryFails(d))
  BY <1>1, KeptQueue
<1> QED
  BY <1>1, <1>2 DEF Leads, Replayed

-----------------------------------------------------------------------------
(* Steps of a bootstrap *)

\* The world snapshot: the account is verified, the world and its users mirrored.
LEMMA BootSnapshotLeads ==
    ASSUME Good(core, native), Queued(core), BootSnapshot
    PROVE  Leads(core, core', native)
<1>1. core.boot.pc = "snapshot" /\ core.boot.live /\ core.boot.sameConn
  BY DEF BootSnapshot, Current
<1>2. core \in Cores /\ native \in Natives
  BY DEF Good, Sound
<1>3. CASE ~native.gm
  <2>1. core' = BootstrapFails(RejectAccount(core), FALSE)
    BY <1>3 DEF BootSnapshot
  <2>2. PICK x : x = RejectAccount(core) /\ Good(x, native) /\ Keeps(core, x)
    BY RejectAccountIsGood DEF Good
  <2>3. Queued(x) /\ x.boot.pc # "idle"
    BY <1>1, <2>2 DEF Keeps, Queued
  <2>4. /\ Good(core', native) /\ Queued(core')
        /\ x.rec.pc # "replaced" => KeepsRec(x, core')
    BY <2>1, <2>2, <2>3, BootstrapFailsIsGood
  <2> QED
    BY <2>2, <2>4, BootLeads DEF Keeps, KeepsRec
<1>4. CASE native.gm
  <2>1. core' = Seed([Verified(core) EXCEPT !.world = native.world, !.boot.pc = "packs"], "snapshot")
    BY <1>4 DEF BootSnapshot
  <2>2. PICK v : v = Verified(core) /\ Good(v, native) /\ Keeps(core, v) /\ v.boot = core.boot
    BY VerifiedIsGood DEF Good
  <2> DEFINE b == [v.boot EXCEPT !.pc = "packs"]
             x == [v EXCEPT !.world = native.world, !.boot = b]
  <2>3. /\ b \in Boots /\ b.pc = "packs" /\ b.live = core.boot.live /\ b.sameConn = core.boot.sameConn
    BY <1>2, <2>2 DEF Cores, Boots, BootPcs
  <2>4. core' = Seed(x, "snapshot")
    BY <2>1, <2>2 DEF Good, Sound, Cores
  <2> HIDE DEF b
  <2>5. native.world \in WorldOrNone
    BY <1>2 DEF Natives, WorldOrNone
  <2>6. x \in Cores /\ x.boot = b /\ x.world = native.world /\ KeepsRec(v, x) /\ x.chained = v.chained
    BY <2>2, <2>3, <2>5 DEF Good, Sound, Cores, KeepsRec
  <2>7. ~v.ready /\ ~x.ready
    BY <1>1, <2>2, <2>6 DEF Good, Sound, Lives, Keeps, KeepsRec
  <2>8. /\ Gated(x) /\ Linked(x) /\ Lives(x) /\ RecFrom(x, native) /\ Prepared(x) /\ Served(x, native)
        /\ Active(x) /\ Counted(x, native) /\ Hooked(x)
    BY <1>1, <2>2, <2>3, <2>6, <2>7
       DEF Good, Sound, Cores, Gated, Linked, Lives, RecFrom, Prepared, Served, Active, Counted, Hooked
  <2> HIDE DEF x
  <2>9. /\ core' \in Cores /\ Seeded(x, core') /\ core'.mirror["snapshot"] = "current"
    BY <2>4, <2>6, SeedFacts DEF Sources
  <2>10. Good(core', native)
    BY <1>2, <2>3, <2>6, <2>7, <2>8, <2>9
       DEF Good, Sound, Seeded, Gated, Linked, Lives, BootFrom, RecFrom, Prepared, Served,
           Active, Counted, Hooked
  <2>11. Queued(core') /\ KeepsRec(core, core')
    BY <1>1, <2>2, <2>3, <2>6, <2>9 DEF Seeded, Queued, Keeps, KeepsRec
  <2> QED
    BY <2>10, <2>11, BootLeads
<1> QED
  BY <1>3, <1>4

\* A step of a bootstrap that fails, fresh or stale.
LEMMA BootFailLeads ==
    ASSUME NEW n, NEW c, Good(c, n), Queued(c), c.boot.pc # "idle", NEW stale \in BOOLEAN
    PROVE  Leads(c, BootstrapFails(c, stale), n)
BY BootstrapFailsIsGood, BootLeads

\* The compendium packs are mirrored.
LEMMA BootPacksLeads ==
    ASSUME Good(core, native), Queued(core), BootPacks
    PROVE  Leads(core, core', native)
<1>1. core.boot.pc = "packs" /\ core.boot.sameConn
  BY DEF BootPacks
<1>2. core \in Cores /\ native \in Natives
  BY DEF Good, Sound
<1>3. CASE ~core.boot.live
  BY <1>1, <1>3, BootFailLeads DEF BootPacks
<1>4. CASE core.boot.live
  <2> DEFINE b == [core.boot EXCEPT !.pc = "documents"]
             x == [core EXCEPT !.boot = b]
  <2>1. b \in Boots /\ b.pc = "documents" /\ b.live = core.boot.live /\ b.sameConn = core.boot.sameConn
    BY <1>2 DEF Cores, Boots, BootPcs
  <2>2. core' = Seed(x, "packs")
    BY <1>2, <1>4 DEF BootPacks, Cores
  <2> HIDE DEF b
  <2>3. /\ x \in Cores /\ x.boot = b /\ KeepsRec(core, x) /\ x.chained = core.chained
        /\ x.mirror = core.mirror /\ x.world = core.world
    BY <1>2, <2>1 DEF Cores, KeepsRec
  <2>4. ~core.ready /\ ~x.ready
    BY <1>1, <2>3 DEF Good, Sound, Lives, KeepsRec
  <2>5. /\ Gated(x) /\ Linked(x) /\ Lives(x) /\ RecFrom(x, native) /\ Prepared(x) /\ Served(x, native)
        /\ Active(x) /\ Counted(x, native) /\ Hooked(x)
    BY <1>1, <1>2, <2>1, <2>3, <2>4
       DEF Good, Sound, Cores, Gated, Linked, Lives, RecFrom, Prepared, Served, Active, Counted, Hooked
  <2>6. x.mirror["snapshot"] = "current" /\ x.world = native.world
    BY <1>1, <1>4, <2>3 DEF Good, Sound, BootFrom
  <2> HIDE DEF x
  <2>7. core' \in Cores /\ Seeded(x, core') /\ core'.mirror["packs"] = "current"
    BY <2>2, <2>3, SeedFacts DEF Sources
  <2>8. Good(core', native)
    BY <1>2, <2>1, <2>3, <2>4, <2>5, <2>6, <2>7
       DEF Good, Sound, Seeded, Gated, Linked, Lives, BootFrom, RecFrom, Prepared, Served,
           Active, Counted, Hooked, Sources
  <2>9. Queued(core') /\ KeepsRec(core, core')
    BY <1>1, <2>1, <2>3, <2>7 DEF Seeded, Queued, KeepsRec
  <2> QED
    BY <2>8, <2>9, BootLeads
<1> QED
  BY <1>3, <1>4

\* The documents are mirrored, the context is read, the gate closes on the checks.
LEMMA BootDocumentsLeads ==
    ASSUME Good(core, native), Queued(core), BootDocuments
    PROVE  Leads(core, core', native)
<1>1. core.boot.pc = "documents" /\ core.boot.sameConn
  BY DEF BootDocuments
<1>2. core \in Cores /\ native \in Natives
  BY DEF Good, Sound
<1>3. CASE ~core.boot.live
  BY <1>1, <1>3, BootFailLeads DEF BootDocuments
<1>4. CASE core.boot.live
  <2> DEFINE b == [core.boot EXCEPT !.pc = "compatibility"]
             x == [core EXCEPT !.stored = native.setting, !.context = native.setting, !.boot = b]
             y == Seed(x, "documents")
  <2>1. b \in Boots /\ b.pc = "compatibility" /\ b.live = core.boot.live /\ b.sameConn = core.boot.sameConn
    BY <1>2 DEF Cores, Boots, BootPcs
  <2>2. core' = Block(y, "migration-compatibility")
    BY <1>2, <1>4 DEF BootDocuments, Cores
  <2> HIDE DEF b
  <2>3. native.setting \in Settings
    BY <1>2, BoundsNat DEF Natives, Settings, Unavailable
  <2>4. /\ x \in Cores /\ x.boot = b /\ KeepsRec(core, x) /\ x.chained = core.chained
        /\ x.mirror = core.mirror /\ x.world = core.world
    BY <1>2, <2>1, <2>3 DEF Cores, KeepsRec
  <2>5. ~core.ready /\ ~x.ready
    BY <1>1, <2>4 DEF Good, Sound, Lives, KeepsRec
  <2>6. core.refreshes = 0
    BY <2>5, NoRefreshes
  <2>7. /\ Gated(x) /\ Linked(x) /\ Lives(x) /\ RecFrom(x, native) /\ Prepared(x) /\ Served(x, native)
        /\ Active(x) /\ Counted(x, native) /\ Hooked(x)
    BY <1>1, <1>2, <2>1, <2>4, <2>5, <2>6
       DEF Good, Sound, Cores, Gated, Linked, Lives, RecFrom, Prepared, Served, Active, Counted, Hooked
  <2>8. x.mirror["snapshot"] = "current" /\ x.world = native.world /\ x.mirror["packs"] = "current"
    BY <1>1, <1>4, <2>4 DEF Good, Sound, BootFrom
  <2> HIDE DEF x
  <2>9. y \in Cores /\ Seeded(x, y) /\ y.mirror["documents"] = "current"
    BY <2>4, SeedFacts DEF Sources
  <2> HIDE DEF y
  <2>10. Good(y, native)
    BY <1>2, <2>1, <2>4, <2>5, <2>7, <2>8, <2>9
       DEF Good, Sound, Seeded, Gated, Linked, Lives, BootFrom, RecFrom, Prepared, Served,
           Active, Counted, Hooked, Sources
  <2>11. Queued(y) /\ KeepsRec(core, y)
    BY <1>1, <2>1, <2>4, <2>9 DEF Seeded, Queued, KeepsRec
  <2>12. Good(core', native) /\ Keeps(y, core')
    BY <2>2, <2>10, BlockIsGood DEF Good, BlockerKeys
  <2>13. Queued(core') /\ KeepsRec(core, core')
    BY <2>11, <2>12 DEF Keeps, KeepsRec, Queued
  <2> QED
    BY <2>12, <2>13, BootLeads
<1> QED
  BY <1>3, <1>4

\* The adapter of the mirrored world is loaded.
LEMMA BootCompatibilityLeads ==
    ASSUME Good(core, native), Queued(core), BootCompatibility
    PROVE  Leads(core, core', native)
<1>1. core.boot.pc = "compatibility"
  BY DEF BootCompatibility
<1>2. core \in Cores /\ native \in Natives
  BY DEF Good, Sound
<1>3. CASE ~core.boot.live
  BY <1>1, <1>3, BootFailLeads DEF BootCompatibility
<1>4. CASE core.boot.live
  <2> DEFINE b == [core.boot EXCEPT !.pc = "initialize"]
             x == [core EXCEPT !.adapter = core.world, !.boot = b]
  <2>1. b \in Boots /\ b.pc = "initialize" /\ b.live = core.boot.live /\ b.sameConn = core.boot.sameConn
    BY <1>2 DEF Cores, Boots, BootPcs
  <2>2. core' = x
    BY <1>2, <1>4 DEF BootCompatibility, Cores
  <2> HIDE DEF b
  <2>3. /\ x \in Cores /\ x.boot = b /\ KeepsRec(core, x) /\ x.chained = core.chained
        /\ x.mirror = core.mirror /\ x.world = core.world /\ x.adapter = core.world
    BY <1>2, <2>1 DEF Cores, KeepsRec
  <2>4. ~core.ready /\ ~x.ready
    BY <1>1, <2>3 DEF Good, Sound, Lives, KeepsRec
  <2>5. Good(x, native)
    BY <1>1, <1>2, <2>1, <2>3, <2>4
       DEF Good, Sound, Cores, Gated, Linked, Lives, BootFrom, RecFrom, Prepared, Served,
           Active, Counted, Hooked
  <2>6. Queued(x)
    BY <1>1, <2>1, <2>3 DEF Queued
  <2> QED
    BY <2>2, <2>3, <2>5, <2>6, BootLeads
<1> QED
  BY <1>3, <1>4

\* A bootstrap publishes what it prepared; it alone makes a runtime ready.
LEMMA BootInitializeLeads ==
    ASSUME Good(core, native), Queued(core), BootInitialize
    PROVE  Leads(core, core', native)
<1> DEFINE x == [core EXCEPT !.prepared = core.context]
           y == Release(x, "migration-compatibility")
           z == [y EXCEPT !.ready = TRUE, !.failed = FALSE, !.lifecycle = "active"]
           v == Release(z, "context-refresh")
           w == Release(v, "runtime-retired")
           a == [w EXCEPT !.boot = NoBoot]
<1>1. core.boot.pc = "initialize"
  BY DEF BootInitialize
<1>2. core \in Cores /\ native \in Natives /\ core.context \in Settings
  BY DEF Good, Sound, Cores
<1>3. /\ ~core.boot.live => core' = BootstrapFails(core, TRUE)
      /\ core.boot.live /\ ~Current(core.boot) => core' = BootstrapFails(y, TRUE)
      /\ Current(core.boot) => core' = BootstrapEnds(w, TRUE)
  BY DEF BootInitialize, Current
<1>4. ~core.ready
  BY <1>1 DEF Good, Sound, Lives
<1>5. /\ x \in Cores /\ x.prepared = core.context /\ x.context = core.context /\ Keeps(core, x)
      /\ x.ready = core.ready /\ x.boot = core.boot /\ x.rec = core.rec /\ x.up = core.up
      /\ x.mirror = core.mirror /\ x.world = core.world /\ x.adapter = core.adapter
      /\ x.retired = core.retired /\ x.refreshes = core.refreshes /\ x.hook = core.hook
      /\ x.chained = core.chained
  BY <1>2 DEF Cores, Keeps
<1>6. Good(x, native)
  BY <1>2, <1>4, <1>5
     DEF Good, Sound, Cores, Gated, Linked, Lives, BootFrom, RecFrom, Prepared, Served,
         Active, Counted, Hooked
<1> HIDE DEF x
<1>7. Releasable(x, "migration-compatibility")
  BY <1>5 DEF Releasable
<1>8. Good(y, native) /\ Keeps(x, y) /\ y \in Cores /\ Regated(x, y)
  BY <1>5, <1>6, <1>7, ReleaseIsGood, ReleaseFacts DEF Good, BlockerKeys
<1> HIDE DEF y
<1>9. CASE ~core.boot.live
  BY <1>1, <1>3, <1>9, BootFailLeads
<1>10. CASE core.boot.live /\ ~Current(core.boot)
  <2>1. Queued(y) /\ y.boot.pc # "idle" /\ Keeps(core, y)
    BY <1>1, <1>5, <1>8 DEF Keeps, Queued
  <2>2. Leads(y, BootstrapFails(y, TRUE), native)
    BY <1>8, <2>1, BootFailLeads
  <2>3. Good(core', native) /\ Queued(core') /\ (y.rec.pc # "replaced" => KeepsRec(y, core'))
    BY <1>3, <1>8, <1>10, <2>1, BootstrapFailsIsGood
  <2> QED
    BY <2>1, <2>3, BootLeads DEF Keeps, KeepsRec
<1>11. CASE Current(core.boot)
  <2>1. /\ core.boot.live /\ core.boot.sameConn /\ core.chained = {} /\ core.up /\ ~core.retired
        /\ ~core.rec.live
        /\ \A s \in Sources : core.mirror[s] = "current"
        /\ core.world = native.world /\ core.adapter = core.world
    BY <1>1, <1>4, <1>11 DEF Current, Good, Sound, BootFrom, Linked, Lives, Queued, Sources
  <2>2. core.world # None /\ core.refreshes = 0 /\ core.hook # "refresh"
    BY <1>2, <1>4, <2>1, NoneIsNoWorld, NoRefreshes DEF Natives
  <2>3. /\ z \in Cores /\ ~z.failed /\ z.ready /\ Gated(z) /\ z.rec = core.rec
        /\ z.prepared = core.context /\ z.context = core.context
        /\ z.up = core.up /\ z.mirror = core.mirror /\ z.world = core.world
        /\ z.adapter = core.adapter /\ z.retired = core.retired
        /\ z.refreshes = core.refreshes /\ z.hook = core.hook /\ z.chained = core.chained
    BY <1>5, <1>8, ZenonT(60) DEF Cores, Lifecycles, Regated, Good, Sound, Gated
  <2>4. Hooked(z)
    BY <2>1, <2>3 DEF Good, Hooked
  <2> HIDE DEF z
  <2>5. v \in Cores /\ Gated(v) /\ Regated(z, v)
    <3>1. Regated(z, z) /\ "context-refresh" \in BlockerKeys
      BY DEF Regated, BlockerKeys
    <3> QED
      BY <2>3, <3>1, ReleaseRegates
  <2> HIDE DEF v
  <2>6. w \in Cores /\ Gated(w) /\ Regated(z, w)
    <3>1. ~v.failed /\ "runtime-retired" \in BlockerKeys
      BY <2>3, <2>5 DEF Regated, BlockerKeys
    <3> QED
      BY <2>3, <2>5, <3>1, ReleaseRegates
  <2> HIDE DEF w
  <2>7. NoBoot \in Boots /\ NoBoot.pc = "idle" /\ ~NoBoot.live /\ ~NoBoot.sameConn
    BY DEF NoBoot, Boots, BootPcs
  <2>8. /\ a \in Cores /\ ~a.failed /\ a.ready /\ Gated(a) /\ a.rec = core.rec /\ a.boot = NoBoot
        /\ a.prepared = core.context /\ a.context = core.context
        /\ a.up = core.up /\ a.mirror = core.mirror /\ a.world = core.world
        /\ a.adapter = core.adapter /\ a.retired = core.retired
        /\ a.refreshes = 0 /\ a.hook = core.hook /\ a.chained = {} /\ w.chained = {} /\ w.rec = core.rec
    BY <2>1, <2>2, <2>3, <2>6, <2>7, ZenonT(60) DEF Cores, Regated, Gated
  <2>9. a = [w EXCEPT !.boot = NoBoot]
    OBVIOUS
  <2> HIDE DEF a
  <2>10. Sound(a, native) /\ Active(a)
    BY <1>2, <2>1, <2>2, <2>7, <2>8
       DEF Good, Sound, Linked, Lives, BootFrom, RecFrom, Prepared, Served, Active
  <2>11. Counted(a, native) /\ Hooked(a)
    BY <1>2, <2>2, <2>4, <2>8, <2>3 DEF Good, Counted, Hooked, Natives
  <2>12. /\ Good(core', native) /\ Queued(core')
         /\ core.rec.pc # "replaced" => KeepsRec(a, core')
    <3>1. /\ core' = BootstrapEnds(w, TRUE) /\ Good(a, native)
          /\ a.boot.pc = "idle" /\ ~a.boot.live /\ a.rec = w.rec /\ a.chained = w.chained
      BY <1>3, <1>11, <2>7, <2>8, <2>10, <2>11 DEF Good
    <3>2. w.chained # {} => ~a.ready
      BY <2>8
    <3>3. /\ Good(BootstrapEnds(w, TRUE), native) /\ Queued(BootstrapEnds(w, TRUE))
          /\ w.rec.pc # "replaced" => KeepsRec(a, BootstrapEnds(w, TRUE))
      BY <2>9, <3>1, <3>2, BootstrapEndsIsGood
    <3> QED
      BY <2>8, <3>1, <3>3
  <2>13. Replayed(core, core', native)
    BY <2>8, <2>12 DEF Replayed, KeepsRec
  <2> QED
    BY <2>12, <2>13 DEF Leads
<1> QED
  BY <1>9, <1>10, <1>11

\* A step of a bootstrap fails.
LEMMA BootFaultLeads ==
    ASSUME Good(core, native), Queued(core), BootFault
    PROVE  Leads(core, core', native)
BY BootFailLeads DEF BootFault

\* A request of a bootstrap whose connection is gone fails.
LEMMA BootTimeoutLeads ==
    ASSUME Good(core, native), Queued(core), BootTimeout
    PROVE  Leads(core, core', native)
BY BootFailLeads DEF BootTimeout, Sources

-----------------------------------------------------------------------------
(* Steps of a recovery *)

\* A recovery that fails between two requests.
LEMMA RecFailLeads ==
    ASSUME NEW n, NEW c, Good(c, n), Queued(c),
           c.rec.pc \notin {"idle", "context", "hook"}
    PROVE  Leads(c, RecoveryFails(c), n)
<1>1. c.refreshes = 0 /\ c.hook \notin {"refresh", "recovery"}
  BY NoRefreshes
<1> QED
  BY <1>1, RecoveryFailsLeads DEF Good, KeepsQueue

\* The snapshot of a recovery: the same world goes on, another one is bootstrapped.
LEMMA RecSnapshotLeads ==
    ASSUME Good(core, native), Queued(core), RecSnapshot
    PROVE  Leads(core, core', native)
<1>1. core.rec.pc = "snapshot" /\ core.rec.sameConn
  BY DEF RecSnapshot
<1>2. core \in Cores /\ native \in Natives
  BY DEF Good, Sound
<1>3. core.refreshes = 0 /\ core.hook \notin {"refresh", "recovery"}
  BY <1>1, NoRefreshes
<1>4. PICK v : v = Verified(core) /\ Good(v, native) /\ Keeps(core, v)
               /\ v.boot = core.boot /\ v.rec = core.rec /\ v.world = core.world
  BY VerifiedIsGood DEF Good
<1>5. CASE ~core.rec.live
  <2>1. core' = RecoveryFails(core)
    BY <1>5 DEF RecSnapshot
  <2> QED
    BY <1>1, <2>1, RecFailLeads
<1>6. CASE core.rec.live /\ ~native.gm
  <2>1. core' = RecoveryFails(RejectAccount(core))
    BY <1>6 DEF RecSnapshot
  <2>2. PICK x : /\ x = RejectAccount(core) /\ Good(x, native) /\ Keeps(core, x)
                 /\ x.hook = core.hook /\ x.refreshes = core.refreshes /\ x.rec = core.rec
    BY RejectAccountIsGood DEF Good
  <2> QED
    BY <1>3, <2>1, <2>2, RecoveryFailsLeads DEF Keeps, KeepsQueue, Good
<1>7. CASE core.rec.live /\ native.gm /\ native.world # core.world
  <2> DEFINE r == [v.rec EXCEPT !.pc = "replaced"]
             x == [v EXCEPT !.lifecycle = "setup", !.rec = r]
  <2>1. core' = JoinBootstrap(Reset(x), FALSE)
    BY <1>4, <1>7 DEF RecSnapshot, Good, Sound, Cores
  <2>2. r \in Recs /\ r.pc = "replaced" /\ r.live = core.rec.live /\ r.sameConn = core.rec.sameConn
    BY <1>2, <1>4 DEF Cores, Recs, RecPcs
  <2> HIDE DEF r
  <2>3. /\ x \in Cores /\ x.rec = r /\ KeepsQueue(core, x) /\ x.lifecycle = "setup"
        /\ x.refreshes = v.refreshes /\ x.hook = v.hook
    BY <1>4, <2>2 DEF Good, Sound, Cores, Lifecycles, Keeps, KeepsQueue
  <2>4. v.refreshes = 0 /\ v.hook \notin {"refresh", "recovery"}
    BY <1>1, <1>4, NoRefreshes
  <2>5. Good(x, native)
    BY <1>4, <2>2, <2>3, <2>4
       DEF Good, Sound, Cores, Gated, Linked, Lives, BootFrom, RecFrom, Prepared, Served,
           Active, Counted, Hooked
  <2> HIDE DEF x
  <2>6. PICK e : e = Reset(x) /\ Good(e, native) /\ Keeps(x, e) /\ ~e.ready
    BY <2>5, ResetIsGood DEF Good
  <2>7. Queued(e)
    BY <2>3, <2>6 DEF Keeps, KeepsQueue, Queued
  <2>8. Good(core', native) /\ Queued(core')
    BY <2>1, <2>6, <2>7, JoinBootstrapIsGood
  <2> QED
    BY <1>1, <2>8 DEF Leads, Replayed
<1>8. CASE core.rec.live /\ native.gm /\ native.world = core.world
  <2> DEFINE r == [v.rec EXCEPT !.pc = "packs"]
             x == [v EXCEPT !.rec = r]
  <2>1. core' = Seed(x, "snapshot")
    BY <1>4, <1>8 DEF RecSnapshot, Good, Sound, Cores
  <2>2. r \in Recs /\ r.pc = "packs" /\ r.live = core.rec.live /\ r.sameConn = core.rec.sameConn
    BY <1>2, <1>4 DEF Cores, Recs, RecPcs
  <2> HIDE DEF r
  <2>3. /\ x \in Cores /\ x.rec = r /\ KeepsQueue(core, x) /\ x.world = native.world
        /\ x.refreshes = v.refreshes /\ x.hook = v.hook
    BY <1>4, <1>8, <2>2 DEF Good, Sound, Cores, Keeps, KeepsQueue
  <2>4. v.refreshes = 0 /\ v.hook \notin {"refresh", "recovery"}
    BY <1>1, <1>4, NoRefreshes
  <2>5. /\ Gated(x) /\ Linked(x) /\ Lives(x) /\ BootFrom(x, native) /\ Prepared(x) /\ Served(x, native)
        /\ Active(x) /\ Counted(x, native) /\ Hooked(x)
    BY <1>4, <2>2, <2>3, <2>4
       DEF Good, Sound, Cores, Gated, Linked, Lives, BootFrom, Prepared, Served,
           Active, Counted, Hooked
  <2> HIDE DEF x
  <2>6. core' \in Cores /\ Seeded(x, core') /\ core'.mirror["snapshot"] = "current"
    BY <2>1, <2>3, SeedFacts DEF Sources
  <2>7. Good(core', native)
    BY <1>2, <2>2, <2>3, <2>5, <2>6
       DEF Good, Sound, Seeded, Gated, Linked, Lives, BootFrom, RecFrom, Prepared, Served,
           Active, Counted, Hooked, Sources
  <2>8. Queued(core')
    BY <2>3, <2>6 DEF Seeded, KeepsQueue, Queued
  <2> QED
    BY <1>1, <2>7, <2>8 DEF Leads, Replayed
<1> QED
  BY <1>5, <1>6, <1>7, <1>8

\* The packs are mirrored anew.
LEMMA RecPacksLeads ==
    ASSUME Good(core, native), Queued(core), RecPacks
    PROVE  Leads(core, core', native)
<1>1. core.rec.pc = "packs" /\ core.rec.sameConn
  BY DEF RecPacks
<1>2. core \in Cores /\ native \in Natives
  BY DEF Good, Sound
<1>3. CASE ~core.rec.live
  BY <1>1, <1>3, RecFailLeads DEF RecPacks
<1>4. CASE core.rec.live
  <2> DEFINE r == [core.rec EXCEPT !.pc = "documents"]
             x == [core EXCEPT !.rec = r]
  <2>1. core' = Seed(x, "packs")
    BY <1>2, <1>4 DEF RecPacks, Cores
  <2>2. r \in Recs /\ r.pc = "documents" /\ r.live = core.rec.live /\ r.sameConn = core.rec.sameConn
    BY <1>2 DEF Cores, Recs, RecPcs
  <2> HIDE DEF r
  <2>3. /\ x \in Cores /\ x.rec = r /\ KeepsQueue(core, x) /\ x.world = core.world
        /\ x.mirror = core.mirror /\ x.refreshes = core.refreshes /\ x.hook = core.hook
    BY <1>2, <2>2 DEF Cores, KeepsQueue
  <2>4. core.refreshes = 0 /\ core.hook \notin {"refresh", "recovery"}
    BY <1>1, NoRefreshes
  <2>5. /\ Gated(x) /\ Linked(x) /\ Lives(x) /\ BootFrom(x, native) /\ Prepared(x) /\ Served(x, native)
        /\ Active(x) /\ Counted(x, native) /\ Hooked(x)
    BY <1>2, <2>2, <2>3, <2>4
       DEF Good, Sound, Cores, Gated, Linked, Lives, BootFrom, Prepared, Served,
           Active, Counted, Hooked
  <2>6. x.mirror["snapshot"] = "current" /\ x.world = native.world
    BY <1>1, <1>4, <2>3 DEF Good, Sound, RecFrom
  <2> HIDE DEF x
  <2>7. core' \in Cores /\ Seeded(x, core') /\ core'.mirror["packs"] = "current"
    BY <2>1, <2>3, SeedFacts DEF Sources
  <2>8. Good(core', native)
    BY <1>2, <2>2, <2>3, <2>5, <2>6, <2>7
       DEF Good, Sound, Seeded, Gated, Linked, Lives, BootFrom, RecFrom, Prepared, Served,
           Active, Counted, Hooked, Sources
  <2>9. Queued(core')
    BY <2>3, <2>7 DEF Seeded, KeepsQueue, Queued
  <2> QED
    BY <1>1, <2>8, <2>9 DEF Leads, Replayed
<1> QED
  BY <1>3, <1>4

\* The context is read anew, and the gate closes on the compatibility checks.
LEMMA RecDocumentsLeads ==
    ASSUME Good(core, native), Queued(core), RecDocuments
    PROVE  Leads(core, core', native)
<1>1. core.rec.pc = "documents" /\ core.rec.sameConn
  BY DEF RecDocuments
<1>2. core \in Cores /\ native \in Natives
  BY DEF Good, Sound
<1>3. CASE ~core.rec.live
  BY <1>1, <1>3, RecFailLeads DEF RecDocuments
<1>4. CASE core.rec.live
  <2> DEFINE r == [core.rec EXCEPT !.pc = "compatibility"]
             x == [core EXCEPT !.stored = native.setting, !.context = native.setting, !.rec = r]
             y == Seed(x, "documents")
  <2>1. core' = Block(y, "migration-compatibility")
    BY <1>2, <1>4 DEF RecDocuments, Cores
  <2>2. r \in Recs /\ r.pc = "compatibility" /\ r.live = core.rec.live /\ r.sameConn = core.rec.sameConn
    BY <1>2 DEF Cores, Recs, RecPcs
  <2>3. native.setting \in Settings
    BY <1>2, BoundsNat DEF Natives, Settings, Unavailable
  <2> HIDE DEF r
  <2>4. /\ x \in Cores /\ x.rec = r /\ KeepsQueue(core, x) /\ x.world = core.world
        /\ x.mirror = core.mirror /\ x.refreshes = core.refreshes /\ x.hook = core.hook
        /\ x.context = native.setting
    BY <1>2, <2>2, <2>3 DEF Cores, KeepsQueue
  <2>5. core.refreshes = 0 /\ core.hook \notin {"refresh", "recovery"}
    BY <1>1, NoRefreshes
  <2>6. /\ Gated(x) /\ Linked(x) /\ Lives(x) /\ BootFrom(x, native) /\ Served(x, native)
        /\ Active(x) /\ Counted(x, native) /\ Hooked(x)
    BY <1>2, <2>2, <2>4, <2>5
       DEF Good, Sound, Cores, Gated, Linked, Lives, BootFrom, Served, Active, Counted, Hooked
  <2>7. x.mirror["snapshot"] = "current" /\ x.world = native.world /\ x.mirror["packs"] = "current"
    BY <1>1, <1>4, <2>4 DEF Good, Sound, RecFrom
  <2> HIDE DEF x
  <2>8. y \in Cores /\ Seeded(x, y) /\ y.mirror["documents"] = "current"
    BY <2>4, SeedFacts DEF Sources
  <2> HIDE DEF y
  <2>9. /\ core' \in Cores /\ Regated(y, core') /\ ~core'.admitted
        /\ core'.blockers = y.blockers \cup {"migration-compatibility"}
    BY <2>1, <2>8, BlockFacts DEF BlockerKeys
  <2>10. Gated(core') /\ Prepared(core') /\ RecFrom(core', native)
    BY <2>2, <2>4, <2>6, <2>7, <2>8, <2>9 DEF Gated, Prepared, RecFrom, Seeded, Regated, Sources
  <2>11. Linked(core') /\ Lives(core') /\ BootFrom(core', native) /\ Served(core', native)
    BY <2>6, <2>8, <2>9 DEF Linked, Lives, BootFrom, Served, Seeded, Regated, Sources
  <2>12. Active(core') /\ Counted(core', native) /\ Hooked(core')
    BY <2>6, <2>8, <2>9 DEF Active, Counted, Hooked, Seeded, Regated
  <2>13. Queued(core')
    BY <2>4, <2>8, <2>9 DEF Seeded, Regated, KeepsQueue, Queued
  <2> QED
    BY <1>1, <1>2, <2>9, <2>10, <2>11, <2>12, <2>13 DEF Leads, Replayed, Good, Sound
<1> QED
  BY <1>3, <1>4

\* The end of a recovery's hook.
LEMMA HookDoneLeads ==
    ASSUME NEW n, NEW c, Good(c, n), Queued(c), c.rec.pc \in {"hook", "compatibility"}
    PROVE  Leads(c, RecoveryHookDone(c), n)
<1>1. c.refreshes = 0
  BY NoRefreshes
<1>2. /\ Good(RecoveryHookDone(c), n) /\ KeepsQueue(c, RecoveryHookDone(c))
      /\ c.rec.live /\ IsReady(RecoveryHookDone(c)) => RecoveryHookDone(c).prepared = n.setting
  BY <1>1, RecoveryHookDoneIsGood DEF Good
<1> QED
  BY <1>2, KeptQueue DEF Leads, Replayed

\* The adapter's hook is called with the context of the recovery.
LEMMA RecCompatibilityLeads ==
    ASSUME Good(core, native), Queued(core), RecCompatibility
    PROVE  Leads(core, core', native)
<1>1. core.rec.pc = "compatibility"
  BY DEF RecCompatibility
<1>2. core \in Cores
  BY DEF Good, Sound
<1>3. CASE core.hook # "none" \/ core.context = Cleared
  BY <1>1, <1>3, RecFailLeads DEF RecCompatibility
<1>4. CASE core.hook = "none" /\ core.context # Cleared /\ core.adapter = None
  BY <1>1, <1>4, HookDoneLeads DEF RecCompatibility
<1>5. CASE core.hook = "none" /\ core.context # Cleared /\ core.adapter # None
  <2> DEFINE r == [core.rec EXCEPT !.pc = "hook"]
             x == [core EXCEPT !.hook = "recovery", !.given = core.context, !.rec = r]
  <2>1. core' = x
    BY <1>2, <1>5 DEF RecCompatibility, Cores
  <2>2. /\ r \in Recs /\ r.pc = "hook" /\ r.live = core.rec.live /\ r.sameConn = core.rec.sameConn
        /\ r.fenced = core.rec.fenced
    BY <1>2 DEF Cores, Recs, RecPcs
  <2> HIDE DEF r
  <2>3. x \in Cores /\ x.rec = r /\ KeepsQueue(core, x) /\ x.hook = "recovery"
    BY <1>2, <2>2 DEF Cores, Hooks, KeepsQueue
  <2>4. core.refreshes = 0
    BY <1>1, NoRefreshes
  <2>5. Good(x, native)
    BY <1>1, <1>2, <2>2, <2>3, <2>4
       DEF Good, Sound, Cores, Gated, Linked, Lives, BootFrom, RecFrom, Prepared, Served,
           Active, Counted, Hooked
  <2>6. Queued(x)
    BY <2>3, KeptQueue
  <2> QED
    BY <1>1, <2>1, <2>5, <2>6 DEF Leads, Replayed
<1> QED
  BY <1>3, <1>4, <1>5

\* The hook that a refresh or a recovery waited for has returned, or is left running.
Leaving(c, left) == [c EXCEPT !.hook = left, !.given = Cleared]

\* Only the hook changes.
LEMMA HookLeft ==
    ASSUME NEW n, NEW c, Good(c, n), NEW left \in {"none", "orphan"}
    PROVE  /\ Sound(Leaving(c, left), n) /\ Active(Leaving(c, left))
           /\ KeepsQueue(c, Leaving(c, left)) /\ Leaving(c, left).rec = c.rec
           /\ Leaving(c, left).hook = left /\ Leaving(c, left).refreshes = c.refreshes
<1> DEFINE d == Leaving(c, left)
<1>1. Cleared \in Settings /\ left \in Hooks /\ c \in Cores
  BY BoundsNat DEF Settings, Cleared, Unavailable, Hooks, Good, Sound
<1>2. /\ d \in Cores /\ KeepsQueue(c, d) /\ d.rec = c.rec /\ d.hook = left
      /\ d.refreshes = c.refreshes
  BY <1>1 DEF Cores, KeepsQueue, Leaving
<1>3. Sound(d, n) /\ Active(d)
  BY <1>1, <1>2 DEF Leaving, Good, Sound, Cores, Gated, Linked, Lives, BootFrom, RecFrom, Prepared,
                    Served, Active
<1> QED
  BY <1>2, <1>3

\* A hook returns to the refreshes, to the recovery, or to nobody.
LEMMA HookSettlesLeads ==
    ASSUME Good(core, native), Queued(core), HookSettles
    PROVE  Leads(core, core', native)
<1>1. CASE core.hook = "refresh"
  <2>1. core' = RefreshSettles(core)
    BY <1>1 DEF HookSettles
  <2>2. Good(core', native) /\ Queued(core')
    BY <1>1, <2>1, RefreshSettlesIsGood, KeptQueue
  <2> QED
    BY <1>1, <2>2 DEF Leads, Replayed, Good, Hooked
<1>2. CASE core.hook = "recovery"
  <2>1. core' = RecoveryHookDone(core) /\ core.rec.pc = "hook"
    BY <1>2 DEF HookSettles, Good, Hooked
  <2> QED
    BY <2>1, HookDoneLeads
<1>3. CASE core.hook = "orphan"
  <2> DEFINE d == Leaving(core, "none")
  <2>1. core' = d
    BY <1>3 DEF HookSettles, Leaving
  <2> HIDE DEF d
  <2>2. /\ Sound(d, native) /\ Active(d) /\ KeepsQueue(core, d) /\ d.rec = core.rec
        /\ d.hook = "none" /\ d.refreshes = core.refreshes
    BY HookLeft DEF d
  <2>3. Counted(d, native) /\ Hooked(d)
    BY <1>3, <2>2 DEF Good, Counted, Hooked
  <2> QED
    BY <2>1, <2>2, <2>3, KeptQueue DEF Leads, Replayed, Good
<1> QED
  BY <1>1, <1>2, <1>3 DEF HookSettles, Good, Sound, Cores, Hooks

\* A hook fails, or runs on as an orphan.
LEMMA HookFailsLeads ==
    ASSUME Good(core, native), Queued(core), HookFails
    PROVE  Leads(core, core', native)
<1>1. core.hook \in {"refresh", "recovery"}
  BY DEF HookFails
<1>2. PICK left \in {"none", "orphan"} :
        core' = IF core.hook = "refresh" THEN RefreshFails(Leaving(core, left))
                ELSE RecoveryFails(Leaving(core, left))
  BY DEF HookFails, Leaving
<1> DEFINE d == Leaving(core, left)
<1>3. core' = IF core.hook = "refresh" THEN RefreshFails(d) ELSE RecoveryFails(d)
  BY <1>2
<1> HIDE DEF d
<1>4. /\ Sound(d, native) /\ Active(d) /\ KeepsQueue(core, d) /\ d.rec = core.rec
      /\ d.hook = left /\ d.refreshes = core.refreshes
  BY HookLeft DEF d
<1>5. CASE core.hook = "refresh"
  <2>1. core.rec.pc \in {"idle", "context"} /\ core' = RefreshFails(d)
    BY <1>3, <1>5 DEF Good, Counted
  <2>2. Good(core', native) /\ KeepsQueue(d, core')
    BY <1>4, <2>1, RefreshFailsIsGood
  <2> QED
    BY <1>4, <2>1, <2>2, KeptQueue DEF Leads, Replayed
<1>6. CASE core.hook = "recovery"
  <2>1. core.rec.pc = "hook" /\ core' = RecoveryFails(d)
    BY <1>3, <1>6 DEF Good, Hooked
  <2>2. core.refreshes = 0
    BY <2>1, NoRefreshes
  <2> QED
    BY <1>4, <2>1, <2>2, RecoveryFailsLeads
<1> QED
  BY <1>1, <1>5, <1>6

\* A step of a recovery fails.
LEMMA RecFaultLeads ==
    ASSUME Good(core, native), Queued(core), RecFault
    PROVE  Leads(core, core', native)
BY RecFailLeads DEF RecFault, Sources

\* A recovery without its connection, runtime or hook fails.
LEMMA RecTimeoutLeads ==
    ASSUME Good(core, native), Queued(core), RecTimeout
    PROVE  Leads(core, core', native)
<1>1. core' = RecoveryFails(core)
  BY DEF RecTimeout
<1>2. core.refreshes = 0 /\ core.hook \notin {"refresh", "recovery"}
  BY DEF RecTimeout, Sources, Good, Counted, Hooked
<1> QED
  BY <1>1, <1>2, RecoveryFailsLeads DEF Good, KeepsQueue

-----------------------------------------------------------------------------
(* Transport *)

\* A change of epoch, connection or lifecycle leaves the recovery's pc and the queue.
LEMMA RecoverLeads ==
    ASSUME NEW n, NEW c, NEW d, Good(d, n), Queued(d), d.rec = c.rec, NEW heard \in BOOLEAN
    PROVE  Leads(c, Recover(d, heard), n)
BY RecoverIsGood DEF Leads, Replayed, KeepsRec

\* An attempt connects and recovers, or rejects the account.
LEMMA AttemptLeads ==
    ASSUME Good(core, native), Queued(core), Attempt, ~core.up
    PROVE  Leads(core, core', native)
<1> DEFINE found == [core EXCEPT !.title = native.world, !.evidence = 0, !.lifecycle = "startup"]
           x == [found EXCEPT !.up = TRUE]
           y == [found EXCEPT !.lifecycle = "closed"]
<1>1. core \in Cores /\ native.world \in WorldOrNone /\ 0 \in 0..1
  BY DEF Good, Sound, Natives, WorldOrNone
<1>2. core' = IF native.gm THEN Recover(x, TRUE) ELSE RejectAccount(y)
  BY DEF Attempt
<1>3. /\ x \in Cores /\ x.rec = core.rec /\ x.up /\ x.lifecycle = "startup"
      /\ x.boot = core.boot /\ x.chained = core.chained
  BY <1>1 DEF Cores, Lifecycles
<1>4. Good(x, native) /\ Queued(x)
  BY <1>1, <1>3 DEF Good, Sound, Cores, Gated, Linked, Lives, BootFrom, RecFrom, Prepared,
                    Served, Active, Counted, Hooked, Queued
<1>5. y \in Cores /\ Restated(core, y) /\ y.lifecycle = "closed"
  BY <1>1 DEF Cores, Lifecycles, Restated
<1> HIDE DEF x, y
<1>6. Good(y, native) /\ Keeps(core, y)
  BY <1>5, RestatedIsGood DEF Good
<1>7. CASE native.gm
  BY <1>2, <1>3, <1>4, <1>7, RecoverLeads
<1>8. CASE ~native.gm
  <2>1. core' = RejectAccount(y)
    BY <1>2, <1>8
  <2>2. Good(core', native) /\ Keeps(y, core')
    BY <1>6, <2>1, RejectAccountIsGood DEF Good
  <2> QED
    BY <1>6, <2>2, KeepsTransitive, KeepsLeads
<1> QED
  BY <1>7, <1>8

\* The admin's retry recovers at any time.
LEMMA AdminRetryLeads ==
    ASSUME Good(core, native), Queued(core), AdminRetry
    PROVE  Leads(core, core', native)
BY RecoverLeads DEF AdminRetry

\* A state that a lost connection left, under another name of the lifecycle.
LEMMA DownLeads ==
    ASSUME NEW n, NEW c, NEW d, NEW e \in Cores, Queued(c), Keeps(c, d), Sound(d, n),
           Counted(d, n), Hooked(d), Restated(d, e), e.lifecycle # "active"
    PROVE  Leads(c, e, n)
<1>1. /\ Sound(e, n) /\ Keeps(d, e) /\ Active(e) /\ Counted(e, n) /\ Hooked(e)
  BY RestatedIsGood
<1> QED
  BY <1>1, KeepsTransitive, KeepsLeads DEF Good

\* A lost connection retires a runtime that never became ready.
LEMMA LostLeads ==
    ASSUME Good(core, native), Queued(core), Lost
    PROVE  Leads(core, core', native)
<1> DEFINE r == Block(core, "service-identity")
           x == IF core.ready THEN r ELSE Reset(r)
           down == Disconnected(x)
           l == IF down.lifecycle = "setup" THEN "setup" ELSE "offline"
           d == [down EXCEPT !.lifecycle = l]
<1>1. core' = d
  BY DEF Lost
<1>2. Good(r, native) /\ Keeps(core, r)
  BY BlockIsGood DEF Good, BlockerKeys
<1> HIDE DEF r
<1>3. Good(x, native) /\ Keeps(core, x)
  BY <1>2, ResetIsGood, KeepsTransitive DEF Good
<1> HIDE DEF x
<1>4. Sound(down, native) /\ Counted(down, native) /\ Hooked(down) /\ Keeps(core, down)
  BY <1>3, DisconnectedIsGood, KeepsTransitive DEF Good
<1> HIDE DEF down
<1>5. l \in Lifecycles /\ l # "active"
  BY DEF Lifecycles
<1> HIDE DEF l
<1>6. d \in Cores /\ Restated(down, d) /\ d.lifecycle = l
  BY <1>4, <1>5 DEF Sound, Cores, Restated
<1> HIDE DEF d
<1> QED
  BY <1>1, <1>4, <1>5, <1>6, DownLeads

\* A reload only drops the connection.
LEMMA ReloadLeads ==
    ASSUME Good(core, native), Queued(core), Reload
    PROVE  Leads(core, core', native)
<1> DEFINE x == [core EXCEPT !.lifecycle = "offline"]
<1>1. core' = Disconnected(x)
  BY DEF Reload
<1>2. x \in Cores /\ Restated(core, x) /\ x.lifecycle = "offline"
  BY DEF Good, Sound, Cores, Lifecycles, Restated
<1> HIDE DEF x
<1>3. Good(x, native) /\ Keeps(core, x)
  BY <1>2, RestatedIsGood DEF Good
<1>4. Good(core', native) /\ Keeps(x, core')
  BY <1>1, <1>2, <1>3, DisconnectedIsGood DEF Good
<1> QED
  BY <1>3, <1>4, KeepsTransitive, KeepsLeads

\* A report of setup, the second of which retires a retained world.
LEMMA SetupReportedLeads ==
    ASSUME Good(core, native), Queued(core), SetupReported
    PROVE  Leads(core, core', native)
<1> DEFINE down == Disconnected(core)
           gone == [down EXCEPT !.evidence = 0, !.title = None, !.lifecycle = "setup"]
           once == [down EXCEPT !.evidence = 1, !.lifecycle = "offline"]
<1>1. core' = gone \/ core' = once \/ core' = Reset(gone)
  BY DEF SetupReported
<1>2. Sound(down, native) /\ Counted(down, native) /\ Hooked(down) /\ Keeps(core, down)
  BY DisconnectedIsGood DEF Good
<1> HIDE DEF down
<1>0. 0 \in 0..1 /\ 1 \in 0..1
  OBVIOUS
<1>3. /\ gone \in Cores /\ Restated(down, gone) /\ gone.lifecycle = "setup"
      /\ once \in Cores /\ Restated(down, once) /\ once.lifecycle = "offline"
  BY <1>0, <1>2 DEF Sound, Cores, Lifecycles, Restated, WorldOrNone
<1> HIDE DEF gone, once
<1>4. Leads(core, gone, native) /\ Leads(core, once, native)
  BY <1>2, <1>3, DownLeads
<1>5. Keeps(core, gone)
  BY <1>2, <1>3, RestatedIsGood, KeepsTransitive
<1>6. Good(Reset(gone), native) /\ Keeps(gone, Reset(gone))
  BY <1>4, ResetIsGood DEF Leads, Good
<1> QED
  BY <1>1, <1>4, <1>5, <1>6, KeepsTransitive, KeepsLeads

\* A shutdown retires the runtime.
LEMMA ShutdownLeads ==
    ASSUME Good(core, native), Queued(core), Shutdown
    PROVE  Leads(core, core', native)
<1> DEFINE x == [core EXCEPT !.evidence = 0, !.lifecycle = "setup"]
<1>1. core' = Disconnected(Reset(x))
  BY DEF Shutdown
<1>0. 0 \in 0..1
  OBVIOUS
<1>2. x \in Cores /\ Restated(core, x) /\ x.lifecycle = "setup"
  BY <1>0 DEF Good, Sound, Cores, Lifecycles, Restated
<1> HIDE DEF x
<1>3. Good(x, native) /\ Keeps(core, x)
  BY <1>2, RestatedIsGood DEF Good
<1>4. PICK y : y = Reset(x) /\ Good(y, native) /\ Keeps(x, y) /\ y.lifecycle = "setup"
  BY <1>2, <1>3, ResetIsGood DEF Good
<1>5. Good(core', native) /\ Keeps(y, core')
  BY <1>1, <1>4, DisconnectedIsGood DEF Good
<1> QED
  BY <1>3, <1>4, <1>5, KeepsTransitive, KeepsLeads

-----------------------------------------------------------------------------
(* Foundry, and requests *)

\* What Foundry runs changes only while nothing is connected to it.
LEMMA SwitchWorldLeads ==
    ASSUME Good(core, native), Queued(core), NEW w \in Worlds, SwitchWorld(w)
    PROVE  Leads(core, core', native')
<1>1. /\ core' = core /\ ~core.up /\ native' = [native EXCEPT !.world = w]
  BY DEF SwitchWorld
<1>2. native' \in Natives /\ native'.setting = native.setting
  BY <1>1 DEF Good, Sound, Natives
<1>3. Good(core, native')
  BY <1>1, <1>2 DEF Good, Sound, Linked, BootFrom, RecFrom, Served, Counted
<1> QED
  BY <1>1, <1>3 DEF Leads, Replayed

\* The service account's role is not part of what is mirrored.
LEMMA OtherRole ==
    ASSUME NEW n, NEW m \in Natives, m.world = n.world, m.setting = n.setting, NEW c, Good(c, n)
    PROVE  Good(c, m)
BY DEF Good, Sound, BootFrom, RecFrom, Served, Counted

\* A demoted account is rejected at once where its users are mirrored.
LEMMA DemoteLeads ==
    ASSUME Good(core, native), Queued(core), Demote
    PROVE  Leads(core, core', native')
<1>1. native' = [native EXCEPT !.gm = FALSE]
  BY DEF Demote
<1>2. native' \in Natives /\ native'.setting = native.setting /\ native'.world = native.world
  BY <1>1 DEF Good, Sound, Natives
<1>3. PICK m : m = native'
  OBVIOUS
<1>4. Good(core, m)
  BY <1>2, <1>3, OtherRole
<1>5. CASE core' = core
  BY <1>3, <1>4, <1>5 DEF Leads, Replayed
<1>6. CASE core' = BlockServiceAccount(RejectAccount(core))
  <2>1. PICK x : x = RejectAccount(core) /\ Good(x, m) /\ Keeps(core, x)
    BY <1>4, RejectAccountIsGood DEF Good
  <2>2. Good(core', m) /\ Keeps(x, core')
    BY <1>6, <2>1, BlockServiceAccountIsGood DEF Good
  <2> QED
    BY <1>3, <2>1, <2>2, KeepsTransitive, KeepsLeads
<1> QED
  BY <1>5, <1>6 DEF Demote

\* A promotion is not heard.
LEMMA PromoteLeads ==
    ASSUME Good(core, native), Queued(core), Promote
    PROVE  Leads(core, core', native')
<1>1. native' = [native EXCEPT !.gm = TRUE] /\ core' = core
  BY DEF Promote
<1>2. native' \in Natives /\ native'.setting = native.setting /\ native'.world = native.world
  BY <1>1 DEF Good, Sound, Natives
<1>3. Good(core, native')
  BY <1>2, OtherRole
<1> QED
  BY <1>1, <1>3 DEF Leads, Replayed

\* A changed setting is refreshed, or comes before the recovery reads it.
LEMMA ChangeSettingLeads ==
    ASSUME Good(core, native), Queued(core), ChangeSetting
    PROVE  Leads(core, core', native')
<1>1. core \in Cores /\ native \in Natives /\ native.setting < MaxSetting
  BY DEF ChangeSetting, Good, Sound
<1>2. PICK k : k = native.setting + 1
  OBVIOUS
<1>3. k \in 0..MaxSetting /\ k \in Settings
  BY <1>1, <1>2, BoundsNat DEF Natives, Settings, Unavailable
<1>4. PICK m : m = native' /\ m = [native EXCEPT !.setting = k]
  BY <1>2 DEF ChangeSetting
<1>5. m \in Natives /\ m.world = native.world /\ m.setting = native.setting + 1
  BY <1>1, <1>2, <1>3, <1>4 DEF Natives
<1> DEFINE x == [core EXCEPT !.stored = k]
<1>6. CASE core.up /\ core.mirror["documents"] # "none"
  <2>1. core' = RefreshWorldContext(x)
    BY <1>2, <1>6 DEF ChangeSetting
  <2>2. x \in Cores /\ Restated(core, x) /\ x.lifecycle = core.lifecycle
    BY <1>1, <1>3 DEF Cores, Restated
  <2> HIDE DEF x
  <2>3. Good(x, native) /\ Keeps(core, x) /\ Queued(x)
    BY <2>2, RestatedIsGood DEF Good
  <2>4. /\ Good(core', m) /\ KeepsQueue(x, core')
        /\ x.rec.pc # "idle" => core'.rec.pc = x.rec.pc
    BY <1>5, <2>1, <2>3, RefreshWorldContextIsGood
  <2>5. Queued(core')
    BY <2>3, <2>4, KeptQueue
  <2> QED
    BY <1>4, <2>3, <2>4, <2>5 DEF Leads, Replayed, Keeps
<1>7. CASE ~(core.up /\ core.mirror["documents"] # "none")
  <2>1. core' = core
    BY <1>7 DEF ChangeSetting
  <2>2. RecFrom(core, m)
    BY <1>5, <1>7 DEF Good, Sound, Linked, RecFrom
  <2>3. Good(core, m)
    BY <1>5, <2>2, NextSetting
  <2> QED
    BY <1>4, <2>1, <2>3 DEF Leads, Replayed
<1> QED
  BY <1>6, <1>7

\* A request is admitted through an open gate.
LEMMA AdmitLeads ==
    ASSUME Good(core, native), Queued(core), Admit
    PROVE  Leads(core, core', native)
<1> DEFINE d == [core EXCEPT !.admitted = TRUE]
<1>1. core' = d /\ core.blockers = {}
  BY DEF Admit, IsReady
<1>2. d \in Cores /\ d.blockers = {} /\ d.rec = core.rec /\ Keeps(core, d)
  BY <1>1 DEF Good, Sound, Cores, Keeps
<1>3. Good(d, native)
  BY <1>1, <1>2 DEF Good, Sound, Cores, Gated, Linked, Lives, BootFrom, RecFrom, Prepared,
                    Served, Active, Counted, Hooked
<1> QED
  BY <1>1, <1>2, <1>3, KeepsLeads

-----------------------------------------------------------------------------
(* The invariant *)

\* The invariant holds at first.
LEMMA InitIInv == Init => IInv
<1> SUFFICES ASSUME Init
             PROVE  IInv
  OBVIOUS
<1>1. /\ native \in Natives /\ native.setting = 0
      /\ 0 \in 0..1 /\ Cleared \in Settings /\ 0 \in 0..MaxFaults
  BY BoundsNat DEF Init, Natives, Settings, Cleared, Unavailable
<1>2. NoBoot \in Boots /\ NoRec \in Recs /\ NoMirror \in Mirrors /\ {} \in SUBSET BOOLEAN
  BY DEF NoBoot, Boots, BootPcs, NoRec, Recs, RecPcs, NoMirror, Mirrors
<1>3. core \in Cores
  BY <1>1, <1>2 DEF Init, Cores, Lifecycles, WorldOrNone, Hooks
<1>4. Gated(core) /\ Linked(core) /\ Lives(core) /\ Prepared(core) /\ Served(core, native)
  BY DEF Init, Gated, Linked, Lives, Prepared, Served, NoBoot, NoRec
<1>5. BootFrom(core, native) /\ RecFrom(core, native) /\ Queued(core)
  BY DEF Init, BootFrom, RecFrom, Queued, NoBoot, NoRec
<1>6. Active(core) /\ Counted(core, native) /\ Hooked(core)
  BY <1>1 DEF Init, Active, Counted, Hooked, NoRec
<1> QED
  BY <1>1, <1>3, <1>4, <1>5, <1>6 DEF Init, IInv, Good, Sound

\* Faults are counted, and only Foundry's own steps change what it runs.
LEMMA NextLeads ==
    ASSUME IInv, Next
    PROVE  Leads(core, core', native') /\ faults' \in 0..MaxFaults
<1>1. Good(core, native) /\ Queued(core) /\ faults \in 0..MaxFaults
  BY DEF IInv
<1>2. Fault => faults' \in 0..MaxFaults
  BY <1>1, BoundsNat DEF Fault
<1>3. CASE BootSnapshot \/ BootPacks \/ BootDocuments \/ BootCompatibility \/ BootInitialize
           \/ BootFault \/ BootTimeout
  <2>1. Leads(core, core', native)
    BY <1>1, <1>3, BootSnapshotLeads, BootPacksLeads, BootDocumentsLeads, BootCompatibilityLeads,
       BootInitializeLeads, BootFaultLeads, BootTimeoutLeads
  <2>2. native' = native /\ (faults' = faults \/ Fault)
    BY <1>3 DEF BootSnapshot, BootPacks, BootDocuments, BootCompatibility, BootInitialize,
                BootFault, BootTimeout
  <2> QED
    BY <1>1, <1>2, <2>1, <2>2
<1>4. CASE RecSnapshot \/ RecPacks \/ RecDocuments \/ RecCompatibility \/ RecFault \/ RecTimeout
           \/ HookSettles \/ HookFails
  <2>1. Leads(core, core', native)
    BY <1>1, <1>4, RecSnapshotLeads, RecPacksLeads, RecDocumentsLeads, RecCompatibilityLeads,
       RecFaultLeads, RecTimeoutLeads, HookSettlesLeads, HookFailsLeads
  <2>2. native' = native /\ (faults' = faults \/ Fault)
    BY <1>4 DEF RecSnapshot, RecPacks, RecDocuments, RecCompatibility, RecFault, RecTimeout,
                HookSettles, HookFails
  <2> QED
    BY <1>1, <1>2, <2>1, <2>2
<1>5. CASE Connect \/ AdminConnect \/ AdminRetry \/ Admit
  <2>1. Leads(core, core', native)
    BY <1>1, <1>5, AttemptLeads, AdminRetryLeads, AdmitLeads DEF Connect, AdminConnect
  <2>2. native' = native /\ faults' = faults
    BY <1>5 DEF Connect, AdminConnect, AdminRetry, Admit
  <2> QED
    BY <1>1, <2>1, <2>2
<1>6. CASE Lost \/ Reload \/ SetupReported \/ Shutdown
  <2>1. Leads(core, core', native)
    BY <1>1, <1>6, LostLeads, ReloadLeads, SetupReportedLeads, ShutdownLeads
  <2>2. native' = native /\ Fault
    BY <1>6 DEF Lost, Reload, SetupReported, Shutdown
  <2> QED
    BY <1>2, <2>1, <2>2
<1>7. CASE (\E w \in Worlds : SwitchWorld(w)) \/ Demote \/ Promote \/ ChangeSetting
  <2>1. Leads(core, core', native')
    BY <1>1, <1>7, SwitchWorldLeads, DemoteLeads, PromoteLeads, ChangeSettingLeads
  <2>2. Fault \/ faults' = faults
    BY <1>7 DEF SwitchWorld, Demote, Promote, ChangeSetting
  <2> QED
    BY <1>1, <1>2, <2>1, <2>2
<1> QED
  BY <1>3, <1>4, <1>5, <1>6, <1>7 DEF Next, Unattended

\* Every step keeps it.
LEMMA NextIInv == IInv /\ [Next]_vars => IInv'
<1> SUFFICES ASSUME IInv, [Next]_vars
             PROVE  IInv'
  OBVIOUS
<1>1. CASE Next
  <2>1. Good(core', native') /\ Queued(core') /\ faults' \in 0..MaxFaults
    BY <1>1, NextLeads DEF Leads
  <2> QED
    BY <2>1 DEF IInv
<1>2. CASE UNCHANGED vars
  <2>1. Good(core', native') /\ Queued(core') /\ faults' \in 0..MaxFaults
    BY <1>2 DEF IInv, vars
  <2> QED
    BY <2>1 DEF IInv
<1> QED
  BY <1>1, <1>2

\* So it always holds.
LEMMA Invariance == Spec => []IInv
BY InitIInv, NextIInv, PTL DEF Spec

-----------------------------------------------------------------------------
(* The theorems *)

\* The types of the process state; in particular there are never more refreshes pending than
\* the setting has changed.
THEOREM BootstrapTypes == Spec => []TypeOK
<1>1. IInv => TypeOK
  <2> SUFFICES ASSUME IInv
               PROVE  TypeOK
    OBVIOUS
  <2>1. core \in Cores /\ native \in Natives /\ core.refreshes <= native.setting
    BY DEF IInv, Good, Sound, Counted
  <2>2. core.refreshes \in 0..MaxSetting
    BY <2>1, BoundsNat DEF Cores, Natives
  <2>3. core.admitted => core.blockers = {}
    BY DEF IInv, Good, Sound, Gated
  <2>4. /\ core.boot.pc \in BootPcs /\ core.rec.pc \in RecPcs /\ core.lifecycle \in Lifecycles
        /\ core.blockers \subseteq BlockerKeys
        /\ core.mirror \in [Sources -> {"none", "old", "current"}]
        /\ core.hook \in {"none", "refresh", "recovery", "orphan"}
    BY <2>1 DEF Cores, Boots, Recs, Mirrors, Hooks
  <2>5. /\ {core.world, core.adapter, core.title} \subseteq Worlds \cup {None}
        /\ {core.stored, core.context, core.prepared} \subseteq Unavailable..MaxSetting
    BY <2>1 DEF Cores, WorldOrNone, Settings
  <2> QED
    BY <2>2, <2>3, <2>4, <2>5 DEF TypeOK
<1> QED
  BY <1>1, Invariance, PTL

\* While requests are admitted, what they read was seeded on this connection from the running
\* world, and the adapter is that world's.
THEOREM MirrorsAreCurrent == Spec => []ServedMirrorIsCurrent
<1>1. IInv => ServedMirrorIsCurrent
  BY DEF IInv, Good, Sound, Active, Served, Lives, ServedMirrorIsCurrent, IsReady
<1> QED
  BY <1>1, Invariance, PTL

\* While requests are admitted, actors are prepared from the context that they are told.
THEOREM ActorsArePrepared == Spec => []PreparedMatchesContext
<1>1. IInv => PreparedMatchesContext
  BY DEF IInv, Good, Sound, Prepared, PreparedMatchesContext, IsReady
<1> QED
  BY <1>1, Invariance, PTL

\* A failed preparation keeps the gate closed until a later one succeeds.
THEOREM FailuresStayGated == Spec => []FailureStaysGated
<1>1. IInv => FailureStaysGated
  BY DEF IInv, Good, Sound, Gated, FailureStaysGated
<1> QED
  BY <1>1, Invariance, PTL

\* A recovery that publishes publishes the setting Foundry has then, whatever changed while
\* it ran.
THEOREM ChangesAreReplayed == Spec => RecoveryReplaysChanges
<1> DEFINE A == core.rec.pc = "hook" /\ core.rec.live /\ core'.rec.pc = "idle" /\ IsReady(core')
                  => core'.prepared = native'.setting
<1>1. IInv /\ [Next]_vars => [A]_vars
  BY NextLeads DEF Leads, Replayed
<1>2. Spec => [][A]_vars
  BY <1>1, Invariance, PTL DEF Spec
<1> QED
  BY <1>2 DEF RecoveryReplaysChanges
=============================================================================
