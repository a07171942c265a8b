------------------------ MODULE FoundrySessionsProofs ------------------------
(***************************************************************************)
(* The safety of the player sessions, for any number of sessions, users,   *)
(* worlds and events.                                                      *)
(*                                                                         *)
(* What retires a session must win against the login, the restoration and  *)
(* the rebind that may be in flight for it.  The invariant says why each   *)
(* of them loses: a login or a restoration has lost its epoch (Quiet), or  *)
(* the session's authority version, or meets the tombstone; a rebind has   *)
(* lost its connection, and no later connection meets it (Orphaned).       *)
(***************************************************************************)
EXTENDS FoundrySessions, TLAPS

Roles      == RoleNames \cup {"gone"}
Records    == Worlds \cup {Null, Absent}
LoginPcs   == {"idle", "replacing", "resolving", "connecting", "done"}
RestorePcs == {"idle", "waiting", "connecting", "refreshing", "backoff"}

Logins   == [pc : LoginPcs, fresh : BOOLEAN, role : RoleNames]
Restores == [pc : RestorePcs, tries : 0..Attempts - 1, fresh : BOOLEAN, untouched : BOOLEAN,
             world : Worlds \cup {Null}, role : RoleNames]
Rebinds  == [pc : {"idle", "connecting"}, same : BOOLEAN, role : RoleNames]

\* TypeOK, and the types of what the flows remember.
Shapes ==
    /\ life \in {"offline", "setup", "startup", "active", "closed"}
    /\ world \in Worlds \cup {Null}
    /\ seen \in [Users -> Roles]
    /\ foundry \in [world : Worlds, role : [Users -> Roles]]
    /\ conn \in [Sessions -> {Null} \cup Connections]
    /\ stored \in [Sessions -> Records]
    /\ login \in [Sessions -> Logins]
    /\ restore \in [Sessions -> Restores]
    /\ rebind \in [Sessions -> Rebinds]
    /\ clearing \subseteq Sessions /\ deleted \subseteq Users
    /\ suspended \in BOOLEAN
    /\ purged \subseteq Sessions /\ out \subseteq Sessions

\* The users of an active world are mirrored as Foundry has them.
Mirrored == life = "active" => seen = foundry.role

\* A session has nothing before its login has ended.
Unregistered(s) ==
    login[s].pc # "done" =>
        ~Live(s) /\ stored[s] = Absent /\ rebind[s].pc = "idle" /\ restore[s].pc = "idle"

\* A restoration of a live session waits for a rebind, or does not run.
Restoring(s) == restore[s].pc \notin {"idle", "refreshing"} => ~Live(s)

\* The connection a rebind captured is the session's.
SameIsLive(s) == rebind[s].same => Live(s)

\* The restoration under way may still register its connection.
Current(s) == restore[s].fresh /\ restore[s].untouched

\* A rebind that lost its connection meets no other one: nothing is left to restore.
Orphaned(s) ==
    rebind[s].pc # "idle" /\ ~rebind[s].same =>
        /\ ~Live(s)
        /\ stored[s] = Absent \/ suspended \/ Owner[s] \in deleted
        /\ Current(s) => Owner[s] \in deleted

\* Not live, and neither a login nor a restoration may register.
Quiet(s) == ~Live(s) /\ ~login[s].fresh /\ ~restore[s].fresh

PurgeHolds(s)   == s \in purged => Quiet(s) /\ stored[s] = Absent /\ login[s].pc # "idle"
SuspendHolds(s) == suspended => Quiet(s)
DeleteHolds(s)  == Owner[s] \in deleted => ~Live(s) /\ (stored[s] = Absent \/ s \in clearing)
LogoutHolds(s)  ==
    s \in out => ~Live(s) /\ stored[s] = Absent /\ login[s].pc = "done" /\ ~restore[s].untouched

\* RolesAreReconciled, in an offline world too: its users keep the roles they had.
Bound(s) ==
    life \in {"active", "offline"} /\ Live(s) /\ Owner[s] \notin missed =>
        conn[s].role = RoleOf(seen[Owner[s]]) \/ rebind[s].pc # "idle"

Safe(s) ==
    /\ Unregistered(s) /\ Restoring(s)
    /\ SameIsLive(s) /\ Orphaned(s)
    /\ PurgeHolds(s) /\ SuspendHolds(s) /\ DeleteHolds(s) /\ LogoutHolds(s)
    /\ Bound(s)

IInv ==
    /\ Shapes
    /\ Mirrored
    /\ \A s \in Sessions : Safe(s)

-----------------------------------------------------------------------------
(* What may happen to one session in a step.                               *)

\* Nothing of the session changes.
Kept(s) ==
    /\ conn'[s] = conn[s] /\ stored'[s] = stored[s]
    /\ login'[s] = login[s] /\ restore'[s] = restore[s] /\ rebind'[s] = rebind[s]

\* A session that has logged in goes down: a rebind loses its connection and a
\* restoration its authority.
Down(s) ==
    /\ login[s].pc = "done" /\ login'[s] = login[s]
    /\ conn'[s] = Null
    /\ stored'[s] \in {stored[s], Absent}
    /\ rebind'[s].pc = rebind[s].pc /\ ~rebind'[s].same
    /\ restore'[s].fresh => restore[s].fresh
    /\ ~restore'[s].untouched

\* A live session stands by itself: nothing that retires sessions has met it.
LEMMA LiveStands ==
    ASSUME NEW s \in Sessions, Safe(s), Live(s)
    PROVE  /\ login[s].pc = "done"
           /\ restore[s].pc \in {"idle", "refreshing"}
           /\ rebind[s].pc # "idle" => rebind[s].same
           /\ ~suspended /\ s \notin purged /\ s \notin out /\ Owner[s] \notin deleted
BY DEF Safe, Unregistered, Restoring, Orphaned, PurgeHolds, SuspendHolds, DeleteHolds, LogoutHolds, Quiet

\* Conversely, that is all the invariant asks of a live session, with its role.
LEMMA StandingIsSafe ==
    ASSUME NEW s \in Sessions,
           (/\ Live(s) /\ Bound(s)
            /\ login[s].pc = "done"
            /\ restore[s].pc \in {"idle", "refreshing"}
            /\ rebind[s].pc # "idle" => rebind[s].same
            /\ ~suspended /\ s \notin purged /\ s \notin out /\ Owner[s] \notin deleted)'
    PROVE  Safe(s)'
BY DEF Safe, Unregistered, Restoring, SameIsLive, Orphaned, PurgeHolds, SuspendHolds, DeleteHolds,
       LogoutHolds, Live

\* A session of which nothing changes stays safe, whatever happens to the others.
LEMMA KeptIsSafe ==
    ASSUME NEW s \in Sessions, Safe(s), Kept(s), Bound(s)', suspended' = suspended,
           s \in clearing => s \in clearing', s \in purged' => s \in purged, s \in out' => s \in out,
           Owner[s] \in deleted => Owner[s] \in deleted',
           Owner[s] \in deleted' => Owner[s] \in deleted \/ (~Live(s) /\ stored[s] = Absent)
    PROVE  Safe(s)'
BY DEF Safe, Kept, Unregistered, Restoring, SameIsLive, Orphaned, PurgeHolds, SuspendHolds,
       DeleteHolds, LogoutHolds, Current, Quiet, Live

\* A session that goes down stays down: its record is gone, or its removal is due and
\* no rebind or the tombstone is left.
LEMMA DownIsSafe ==
    ASSUME NEW s \in Sessions, Safe(s), Down(s), suspended' = suspended,
           stored'[s] # Absent => /\ s \in clearing' /\ s \notin out'
                                  /\ rebind[s].pc = "idle" \/ Owner[s] \in deleted',
           s \in purged' => s \in purged
    PROVE  Safe(s)'
BY DEF Safe, Down, Unregistered, Restoring, SameIsLive, Orphaned, PurgeHolds, SuspendHolds,
       DeleteHolds, LogoutHolds, Bound, Current, Quiet, Live

\* A step of one session, that changes neither the world nor the flags.
LEMMA OneSession ==
    ASSUME IInv, NEW s \in Sessions, UNCHANGED <<world_, flags, purged, missed>>,
           \A t \in Sessions \ {s} :
               Kept(t) /\ (t \in clearing => t \in clearing') /\ (t \in out' => t \in out),
           Shapes', Safe(s)'
    PROVE  IInv'
<1>1. ASSUME NEW t \in Sessions, t # s
      PROVE  Safe(t)'
  <2>1. Bound(t)'
    BY <1>1 DEF IInv, Safe, Bound, Kept, Live, world_
  <2>2. Safe(t) /\ Kept(t) /\ (t \in clearing => t \in clearing') /\ (t \in out' => t \in out)
    BY <1>1 DEF IInv
  <2>3. suspended' = suspended /\ deleted' = deleted /\ purged' = purged
    BY DEF flags
  <2> QED
    BY <2>1, <2>2, <2>3, KeptIsSafe
<1>2. Mirrored'
  BY DEF IInv, Mirrored, world_
<1> QED
  BY <1>1, <1>2 DEF IInv

-----------------------------------------------------------------------------
(* What the helpers do.                                                    *)

\* A user's role is a role, NONE for a user the store has not.
LEMMA RoleOfType == ASSUME NEW x \in Roles PROVE RoleOf(x) \in RoleNames
BY DEF Roles, RoleOf, RoleNames

\* The records the flows start from, and end with, are of their types.
LEMMA RecordTypes ==
    /\ NoLogin \in Logins /\ NoRestore \in Restores /\ NoRebind \in Rebinds
    /\ \A r \in RoleNames : Rebinding(r) \in Rebinds
BY DEF NoLogin, NoRestore, NoRebind, Rebinding, Logins, LoginPcs, Restores, RestorePcs, Rebinds,
       RoleNames, Attempts

\* A retried restoration captured nothing, and the attempts are counted.
LEMMA RetryableIsBlank ==
    ASSUME NEW x, x.tries \in 0..Attempts - 1
    PROVE  /\ Retryable(x) \in Restores
           /\ Retryable(x).pc \in {"idle", "backoff"}
           /\ ~Retryable(x).fresh /\ ~Retryable(x).untouched
<1>1. NoRestore \in Restores /\ NoRestore.pc = "idle" /\ ~NoRestore.fresh /\ ~NoRestore.untouched
  BY RecordTypes DEF NoRestore
<1>2. CASE x.tries + 1 < Attempts
  <2> DEFINE n == x.tries + 1
             y == [NoRestore EXCEPT !.pc = "backoff", !.tries = n]
  <2>1. n \in 0..Attempts - 1
    BY <1>2 DEF Attempts
  <2> HIDE DEF n
  <2>2. y \in Restores /\ y.pc = "backoff" /\ ~y.fresh /\ ~y.untouched
    BY <2>1, <1>1 DEF NoRestore, Restores, RestorePcs, RoleNames, Attempts
  <2> USE DEF n
  <2> QED
    BY <1>2, <2>2 DEF Retryable
<1>3. CASE ~(x.tries + 1 < Attempts)
  BY <1>1, <1>3 DEF Retryable
<1> QED
  BY <1>2, <1>3

\* clearSession chains only remove records, and each record of a chain is removed or
\* its removal waits.
LEMMA ClearShrinks ==
    ASSUME stored \in [Sessions -> Records], clearing \subseteq Sessions,
           NEW chains \in SUBSET SUBSET Sessions, Clear(chains)
    PROVE  /\ stored' \in [Sessions -> Records]
           /\ clearing' \subseteq Sessions
           /\ clearing \subseteq clearing'
           /\ \A s \in Sessions : stored'[s] \in {stored[s], Absent}
           /\ \A s \in UNION chains : stored'[s] = Absent \/ s \in clearing'
           /\ \A s \in Sessions \ UNION chains : stored'[s] = stored[s]
BY DEF Clear, Records

\* A single clearSession runs at once.
LEMMA ClearOne ==
    ASSUME NEW s \in Sessions, Clear({{s}})
    PROVE  /\ stored' = [t \in Sessions |-> IF t = s THEN Absent ELSE stored[t]]
           /\ clearing' = clearing
BY DEF Clear

\* destroySession takes one session down, with its record.
LEMMA DestroyFacts ==
    ASSUME Shapes, NEW s \in Sessions, Destroy(s), UNCHANGED login, login[s].pc = "done"
    PROVE  /\ conn' \in [Sessions -> {Null} \cup Connections]
           /\ stored' \in [Sessions -> Records]
           /\ restore' \in [Sessions -> Restores]
           /\ rebind' \in [Sessions -> Rebinds]
           /\ clearing' = clearing
           /\ Down(s) /\ stored'[s] = Absent
           /\ \A t \in Sessions \ {s} : Kept(t)
<1>1. /\ conn' = [t \in Sessions |-> IF t \in {s} THEN Null ELSE conn[t]]
      /\ rebind' = [t \in Sessions |-> IF t \in {s} THEN [rebind[t] EXCEPT !.same = FALSE] ELSE rebind[t]]
      /\ restore' = [t \in Sessions |-> IF t \in {s} THEN [restore[t] EXCEPT !.untouched = FALSE] ELSE restore[t]]
      /\ stored' = [t \in Sessions |-> IF t = s THEN Absent ELSE stored[t]]
      /\ clearing' = clearing
  BY ClearOne DEF Destroy, Retire
<1> DEFINE b == [rebind[s] EXCEPT !.same = FALSE]
           r == [restore[s] EXCEPT !.untouched = FALSE]
<1>2. b \in Rebinds /\ b.pc = rebind[s].pc /\ ~b.same
  BY DEF Shapes, Rebinds
<1>3. r \in Restores /\ r.fresh = restore[s].fresh /\ ~r.untouched
  <2>1. restore[s] \in Restores
    BY DEF Shapes
  <2> QED
    BY <2>1 DEF Restores, Attempts
<1>4. rebind'[s] = b /\ restore'[s] = r
  BY <1>1
<1> HIDE DEF b, r
<1>5. conn' \in [Sessions -> {Null} \cup Connections] /\ stored' \in [Sessions -> Records]
  BY <1>1 DEF Shapes, Records
<1>6. \A t \in Sessions \ {s} : Kept(t)
  BY <1>1 DEF Kept
<1>7. restore' \in [Sessions -> Restores] /\ rebind' \in [Sessions -> Rebinds]
  <2>1. \A t \in Sessions : restore'[t] \in Restores /\ rebind'[t] \in Rebinds
    BY <1>2, <1>3, <1>4, <1>6 DEF Kept, Shapes
  <2> QED
    BY <1>1, <2>1
<1>8. Down(s) /\ stored'[s] = Absent
  BY <1>1, <1>2, <1>3, <1>4 DEF Down
<1> QED
  BY <1>1, <1>5, <1>6, <1>7, <1>8

\* Destroying a session that has logged in, by a logout or otherwise.
LEMMA DestroyKeeps ==
    ASSUME IInv, NEW s \in Sessions, Destroy(s), login[s].pc = "done",
           UNCHANGED <<world_, login, flags, purged, missed>>, out' \in {out, out \cup {s}}
    PROVE  IInv'
<1>1. Shapes /\ Safe(s)
  BY DEF IInv
<1>2. /\ conn' \in [Sessions -> {Null} \cup Connections]
      /\ stored' \in [Sessions -> Records]
      /\ restore' \in [Sessions -> Restores]
      /\ rebind' \in [Sessions -> Rebinds]
      /\ clearing' = clearing
      /\ Down(s) /\ stored'[s] = Absent
      /\ \A t \in Sessions \ {s} : Kept(t)
  BY <1>1, DestroyFacts
<1>3. Shapes'
  BY <1>1, <1>2 DEF Shapes, world_, flags
<1>4. Safe(s)'
  BY <1>1, <1>2, DownIsSafe DEF flags
<1> QED
  BY <1>2, <1>3, <1>4, OneSession

-----------------------------------------------------------------------------
(* Logins                                                                  *)

\* A login that has not ended moves on; only one that begins has the epoch of now.
LEMMA LoginMoves ==
    ASSUME IInv, NEW s \in Sessions, NEW x \in Logins,
           login[s].pc # "done", login' = [login EXCEPT ![s] = x], x.pc # "idle",
           x.fresh => ~suspended /\ s \notin purged,
           UNCHANGED <<world_, conn, stored, restore, rebind, clearing, flags, marks>>
    PROVE  IInv'
<1>1. Shapes /\ Safe(s)
  BY DEF IInv
<1>2. Shapes'
  BY <1>1 DEF Shapes, world_, flags, marks
<1>3. login'[s] = x
  BY <1>1 DEF Shapes
<1>4. Safe(s)'
  BY <1>1, <1>3 DEF Safe, Unregistered, Restoring, SameIsLive, Orphaned, PurgeHolds, SuspendHolds,
     DeleteHolds, LogoutHolds, Bound, Current, Quiet, Live, world_, flags, marks
<1>5. \A t \in Sessions \ {s} : Kept(t)
  BY <1>1 DEF Kept, Shapes
<1> QED
  BY <1>2, <1>4, <1>5, OneSession DEF marks

\* A login begins with the epoch of now, and only while nothing is suspended.
LEMMA LoginBeginKeeps == ASSUME IInv, NEW s \in Sessions, LoginBegin(s) PROVE IInv'
<1> DEFINE x == [NoLogin EXCEPT !.pc = "replacing", !.fresh = TRUE]
<1>1. x \in Logins /\ x.pc = "replacing" /\ x.fresh
  BY DEF NoLogin, Logins, LoginPcs, RoleNames
<1>2. login[s].pc = "idle" /\ login' = [login EXCEPT ![s] = x]
  BY DEF LoginBegin
<1> HIDE DEF x
<1>3. ~suspended /\ s \notin purged
  BY <1>2 DEF LoginBegin, IInv, Safe, PurgeHolds
<1> QED
  BY <1>1, <1>2, <1>3, LoginMoves DEF LoginBegin, marks

\* A login destroys the live sessions of its user.
LEMMA LoginReplacesKeeps == ASSUME IInv, NEW s \in Sessions, LoginReplaces(s) PROVE IInv'
<1>1. PICK u \in Sessions : Live(u) /\ Destroy(u)
  BY DEF LoginReplaces, LiveOf
<1>2. login[u].pc = "done"
  BY <1>1, LiveStands DEF IInv
<1> QED
  BY <1>1, <1>2, DestroyKeeps DEF LoginReplaces, marks

\* A login whose user has no live session left goes on.
LEMMA LoginResolvesKeeps == ASSUME IInv, NEW s \in Sessions, LoginResolves(s) PROVE IInv'
<1> DEFINE x == [login[s] EXCEPT !.pc = "resolving"]
<1>1. login[s] \in Logins /\ Safe(s)
  BY DEF IInv, Shapes
<1>2. x \in Logins /\ x.pc = "resolving" /\ x.fresh = login[s].fresh
  BY <1>1 DEF Logins, LoginPcs
<1>3. login[s].pc = "replacing" /\ login' = [login EXCEPT ![s] = x]
  BY DEF LoginResolves
<1> HIDE DEF x
<1> QED
  BY <1>1, <1>2, <1>3, LoginMoves DEF LoginResolves, marks, Safe, PurgeHolds, SuspendHolds, Quiet

\* A login that ends without a connection.
LEMMA EndedLogin ==
    LET x == [NoLogin EXCEPT !.pc = "done"] IN x \in Logins /\ x.pc = "done" /\ ~x.fresh
BY DEF NoLogin, Logins, LoginPcs, RoleNames

\* A login captures its user's role, or ends at a tombstone.
LEMMA LoginConnectsKeeps == ASSUME IInv, NEW s \in Sessions, LoginConnects(s) PROVE IInv'
<1> DEFINE x == IF Owner[s] \in deleted THEN [NoLogin EXCEPT !.pc = "done"]
                ELSE [login[s] EXCEPT !.pc = "connecting", !.role = RoleOf(seen[Owner[s]])]
<1>1. login[s] \in Logins /\ Safe(s)
  BY DEF IInv, Shapes
<1>2. RoleOf(seen[Owner[s]]) \in RoleNames
  BY OwnerType, RoleOfType DEF IInv, Shapes
<1>3. x \in Logins /\ x.pc # "idle" /\ (x.fresh => login[s].fresh)
  BY <1>1, <1>2, EndedLogin DEF Logins, LoginPcs
<1>4. login[s].pc = "resolving" /\ login' = [login EXCEPT ![s] = x]
  BY DEF LoginConnects
<1> HIDE DEF x
<1> QED
  BY <1>1, <1>3, <1>4, LoginMoves DEF LoginConnects, marks, Safe, PurgeHolds, SuspendHolds, Quiet

\* A login that fails leaves nothing.
LEMMA LoginFailsKeeps == ASSUME IInv, NEW s \in Sessions, LoginFails(s) PROVE IInv'
<1> DEFINE x == [NoLogin EXCEPT !.pc = "done"]
<1>1. x \in Logins /\ x.pc = "done" /\ ~x.fresh
  BY EndedLogin
<1>2. login[s].pc # "done" /\ login' = [login EXCEPT ![s] = x]
  BY DEF LoginFails
<1> HIDE DEF x
<1> QED
  BY <1>1, <1>2, LoginMoves DEF LoginFails, marks

\* A logout destroys its session for good.
LEMMA LogoutKeeps == ASSUME IInv, NEW s \in Sessions, Logout(s) PROVE IInv'
BY DestroyKeeps DEF Logout, flags

-----------------------------------------------------------------------------
(* Registered connections                                                  *)

\* Registering a connection touches one session.
LEMMA RegisterTypes ==
    ASSUME Shapes, NEW s \in Sessions, NEW r \in RoleNames, NEW w \in Worlds \cup {Null},
           NEW rec \in Records, Register(s, r, w, rec)
    PROVE  /\ conn' \in [Sessions -> {Null} \cup Connections]
           /\ stored' \in [Sessions -> Records]
           /\ rebind' \in [Sessions -> Rebinds]
           /\ \A t \in Sessions \ {s} :
                 conn'[t] = conn[t] /\ stored'[t] = stored[t] /\ rebind'[t] = rebind[t]
<1> DEFINE now == RoleOf(seen[Owner[s]])
           down == r # now /\ now = NONE
           c == IF down THEN Null ELSE [world |-> w, role |-> r]
           d == IF down THEN Absent ELSE rec
<1>1. now \in RoleNames
  BY OwnerType, RoleOfType DEF Shapes
<1>2. /\ conn' = [conn EXCEPT ![s] = c] /\ stored' = [stored EXCEPT ![s] = d]
      /\ rebind' = IF r # now /\ ~down /\ rebind[s].pc = "idle"
                   THEN [rebind EXCEPT ![s] = Rebinding(now)] ELSE rebind
  BY DEF Register
<1>3. c \in {Null} \cup Connections /\ d \in Records
  BY DEF Connections, Records
<1>4. Rebinding(now) \in Rebinds
  BY <1>1, RecordTypes
<1> HIDE DEF now, c, d, down
<1> QED
  BY <1>2, <1>3, <1>4 DEF Shapes

\* A connection registered where nothing barred it is bound to its user's role, or
\* being rebound, or down again.
LEMMA RegisteredIsSafe ==
    ASSUME Shapes, NEW s \in Sessions, Safe(s), NEW r \in RoleNames, NEW w \in Worlds \cup {Null},
           NEW rec \in Records, Register(s, r, w, rec),
           ~Live(s), rebind[s].pc = "idle",
           ~suspended, s \notin purged, s \notin out, Owner[s] \notin deleted,
           login'[s].pc = "done", Live(s)' => restore'[s].pc \in {"idle", "refreshing"},
           UNCHANGED <<world_, flags, marks>>
    PROVE  Safe(s)'
<1> DEFINE now == RoleOf(seen[Owner[s]])
           down == r # now /\ now = NONE
           c == [world |-> w, role |-> r]
<1>1. /\ conn'[s] = IF down THEN Null ELSE c
      /\ rebind'[s] = IF r # now /\ ~down THEN Rebinding(now) ELSE rebind[s]
  BY DEF Register, Shapes
<1>2. c # Null /\ c.role = r
  BY NullApart DEF Connections
<1>3. Rebinding(now).same /\ Rebinding(now).pc = "connecting"
  BY DEF Rebinding
<1>4. UNCHANGED <<life, seen, deleted, suspended, purged, out, missed>>
  BY DEF world_, flags, marks
<1>5. ~rebind[s].same
  BY DEF Safe, SameIsLive
<1> HIDE DEF c
<1>6. CASE down
  <2>1. ~Live(s)' /\ rebind'[s].pc = "idle" /\ ~rebind'[s].same
    BY <1>1, <1>5, <1>6 DEF Live
  <2> QED
    BY <1>4, <2>1 DEF Safe, Unregistered, Restoring, SameIsLive, Orphaned, PurgeHolds, SuspendHolds,
       DeleteHolds, LogoutHolds, Bound
<1>7. CASE ~down
  <2>1. conn'[s].role = r /\ Live(s)'
    BY <1>1, <1>2, <1>7 DEF Live
  <2>2. r = now \/ rebind'[s].pc = "connecting"
    BY <1>1, <1>3, <1>7
  <2>3. rebind'[s].pc # "idle" => rebind'[s].same
    BY <1>1, <1>3, <1>7
  <2>4. Bound(s)'
    BY <1>4, <2>1, <2>2 DEF Bound
  <2> QED
    BY <1>4, <2>1, <2>3, <2>4, StandingIsSafe
<1> QED
  BY <1>6, <1>7

\* A login registers its connection if it still may.
LEMMA LoginConnectedKeeps == ASSUME IInv, NEW s \in Sessions, LoginConnected(s) PROVE IInv'
<1> DEFINE x == [NoLogin EXCEPT !.pc = "done"]
<1>1. x \in Logins /\ x.pc = "done" /\ ~x.fresh
  BY EndedLogin
<1>2. login[s].pc = "connecting" /\ login' = [login EXCEPT ![s] = x]
  BY DEF LoginConnected
<1> HIDE DEF x
<1>3. Shapes /\ Safe(s)
  BY DEF IInv
<1>4. CASE ~MayRegister(login[s], s)
  BY <1>1, <1>2, <1>4, LoginMoves DEF LoginConnected, marks
<1>5. CASE MayRegister(login[s], s)
  <2>1. Register(s, login[s].role, world, world)
    BY <1>5 DEF LoginConnected
  <2>2. login[s].role \in RoleNames /\ world \in Worlds \cup {Null} /\ world \in Records
    BY <1>3 DEF Shapes, Logins, Records
  <2>3. /\ ~Live(s) /\ rebind[s].pc = "idle" /\ restore[s].pc = "idle"
        /\ ~suspended /\ s \notin purged /\ s \notin out /\ Owner[s] \notin deleted
    BY <1>2, <1>3, <1>5 DEF Safe, Unregistered, PurgeHolds, SuspendHolds, LogoutHolds, Quiet,
       MayRegister, NoRestore
  <2>4. login'[s].pc = "done" /\ restore' = restore
    BY <1>1, <1>2, <1>3 DEF LoginConnected, Shapes
  <2>5. Safe(s)'
    BY <1>3, <2>1, <2>2, <2>3, <2>4, RegisteredIsSafe DEF LoginConnected
  <2>6. /\ conn' \in [Sessions -> {Null} \cup Connections]
        /\ stored' \in [Sessions -> Records]
        /\ rebind' \in [Sessions -> Rebinds]
        /\ \A t \in Sessions \ {s} :
              conn'[t] = conn[t] /\ stored'[t] = stored[t] /\ rebind'[t] = rebind[t]
    BY <1>3, <2>1, <2>2, RegisterTypes
  <2>7. Shapes'
    BY <1>1, <1>2, <1>3, <2>6 DEF LoginConnected, Shapes, world_, flags, marks
  <2>8. \A t \in Sessions \ {s} : Kept(t)
    BY <1>2, <1>3, <2>4, <2>6 DEF Kept, Shapes
  <2> QED
    BY <2>5, <2>7, <2>8, OneSession DEF LoginConnected, marks
<1> QED
  BY <1>4, <1>5

\* A removal that waited runs.
LEMMA ClearWakesKeeps == ASSUME IInv, NEW s \in Sessions, ClearWakes(s) PROVE IInv'
<1>1. Shapes /\ Safe(s)
  BY DEF IInv
<1>2. stored' = [stored EXCEPT ![s] = Absent] /\ clearing' = clearing \ {s}
  BY DEF ClearWakes
<1>3. UNCHANGED <<world_, conn, flows, flags, events, marks>>
  BY DEF ClearWakes
<1>4. Shapes'
  BY <1>1, <1>2, <1>3 DEF Shapes, Records, world_, flows, flags, marks
<1>5. stored'[s] = Absent
  BY <1>1, <1>2 DEF Shapes
<1>6. Safe(s)'
  BY <1>1, <1>3, <1>5 DEF Safe, Unregistered, Restoring, SameIsLive, Orphaned, PurgeHolds, SuspendHolds,
     DeleteHolds, LogoutHolds, Bound, Current, Quiet, Live, world_, flows, flags, marks
<1>7. \A t \in Sessions \ {s} : Kept(t) /\ (t \in clearing => t \in clearing')
  BY <1>1, <1>2, <1>3 DEF Kept, Shapes, flows
<1> QED
  BY <1>3, <1>4, <1>6, <1>7, OneSession DEF marks

-----------------------------------------------------------------------------
(* Rebinds that end                                                        *)

\* A session whose rebind has ended, and that is not live.
LEMMA FallenIsSafe ==
    ASSUME NEW s \in Sessions, Safe(s), login[s].pc = "done", login' = login,
           ~Live(s)', rebind'[s] = NoRebind, stored'[s] \in {stored[s], Absent},
           restore'[s].fresh => restore[s].fresh, restore'[s].untouched => restore[s].untouched,
           UNCHANGED <<world_, clearing, flags, marks>>
    PROVE  Safe(s)'
BY DEF Safe, Unregistered, Restoring, SameIsLive, Orphaned, PurgeHolds, SuspendHolds, DeleteHolds,
       LogoutHolds, Bound, Quiet, Live, NoRebind, flags, marks

\* The restoration that waited for a rebind is over, or tries again.
LEMMA ResumedFacts ==
    ASSUME Shapes, NEW s \in Sessions, NEW failed \in BOOLEAN
    PROVE  /\ Resumed(s, failed) \in [Sessions -> Restores]
           /\ \A t \in Sessions \ {s} : Resumed(s, failed)[t] = restore[t]
           /\ Resumed(s, failed)[s].fresh => restore[s].fresh
           /\ Resumed(s, failed)[s].untouched => restore[s].untouched
           /\ ~failed /\ restore[s].pc = "refreshing" => Resumed(s, failed)[s].pc = "idle"
           /\ restore[s].pc # "refreshing" => Resumed(s, failed)[s] = restore[s]
<1> DEFINE v == IF restore[s].pc # "refreshing" THEN restore[s]
                ELSE IF failed THEN Retryable(restore[s]) ELSE NoRestore
<1>1. restore[s] \in Restores /\ restore[s].tries \in 0..Attempts - 1
  BY DEF Shapes, Restores
<1>2. Retryable(restore[s]) \in Restores /\ ~Retryable(restore[s]).fresh /\ ~Retryable(restore[s]).untouched
  BY <1>1, RetryableIsBlank
<1>3. NoRestore \in Restores /\ ~NoRestore.fresh /\ ~NoRestore.untouched /\ NoRestore.pc = "idle"
  BY RecordTypes DEF NoRestore
<1>4. /\ v \in Restores /\ (v.fresh => restore[s].fresh) /\ (v.untouched => restore[s].untouched)
      /\ ~failed /\ restore[s].pc = "refreshing" => v.pc = "idle"
      /\ restore[s].pc # "refreshing" => v = restore[s]
  BY <1>1, <1>2, <1>3
<1>5. Resumed(s, failed) = [restore EXCEPT ![s] = v]
  BY DEF Resumed
<1> HIDE DEF v
<1> QED
  BY <1>4, <1>5 DEF Shapes

\* A rebind that fails destroys the session it still holds.
LEMMA RebindFailsKeeps == ASSUME IInv, NEW s \in Sessions, RebindFails(s) PROVE IInv'
<1>1. Shapes /\ Safe(s)
  BY DEF IInv
<1>2. rebind[s].pc = "connecting" /\ rebind' = [rebind EXCEPT ![s] = NoRebind] /\ NoRebind \in Rebinds
  BY RecordTypes DEF RebindFails
<1>3. /\ conn' = IF rebind[s].same THEN [conn EXCEPT ![s] = Null] ELSE conn
      /\ stored' = IF rebind[s].same THEN [stored EXCEPT ![s] = Absent] ELSE stored
      /\ restore' = Resumed(s, TRUE)
      /\ UNCHANGED <<world_, login, clearing, flags, events, marks>>
  BY DEF RebindFails
<1>4. /\ restore' \in [Sessions -> Restores]
      /\ \A t \in Sessions \ {s} : restore'[t] = restore[t]
      /\ restore'[s].fresh => restore[s].fresh
      /\ restore'[s].untouched => restore[s].untouched
  BY <1>1, <1>3, ResumedFacts
<1>5. Shapes'
  BY <1>1, <1>2, <1>3, <1>4 DEF Shapes, Records, world_, flags, marks
<1>6. ~Live(s)' /\ rebind'[s] = NoRebind /\ stored'[s] \in {stored[s], Absent}
  BY <1>1, <1>2, <1>3 DEF Safe, Orphaned, Live, Shapes
<1>7. login[s].pc = "done"
  BY <1>1, <1>2 DEF Safe, Unregistered
<1>8. Safe(s)'
  BY <1>1, <1>3, <1>4, <1>6, <1>7, FallenIsSafe
<1>9. \A t \in Sessions \ {s} : Kept(t)
  BY <1>1, <1>2, <1>3, <1>4 DEF Kept, Shapes
<1> QED
  BY <1>3, <1>5, <1>8, <1>9, OneSession DEF marks

\* A rebind that ends binds the role, begins again, or takes the session down.
LEMMA RebindConnectedKeeps == ASSUME IInv, NEW s \in Sessions, RebindConnected(s) PROVE IInv'
<1> DEFINE now   == RoleOf(seen[Owner[s]])
           c     == [conn[s] EXCEPT !.role = rebind[s].role]
           bound == IF rebind[s].same THEN [conn EXCEPT ![s].role = rebind[s].role] ELSE conn
           saved == IF rebind[s].same THEN [stored EXCEPT ![s] = world] ELSE stored
           stale == bound[s] # Null /\ bound[s].role # now
           down  == stale /\ now = NONE
           b     == IF stale /\ ~down THEN Rebinding(now) ELSE NoRebind
<1>1. Shapes /\ Safe(s)
  BY DEF IInv
<1>2. rebind[s].pc = "connecting" /\ rebind' = [rebind EXCEPT ![s] = b]
  BY DEF RebindConnected
<1>3. /\ conn' = IF down THEN [bound EXCEPT ![s] = Null] ELSE bound
      /\ stored' = IF down THEN [saved EXCEPT ![s] = Absent] ELSE saved
      /\ restore' = IF stale /\ ~down THEN restore ELSE Resumed(s, FALSE)
      /\ UNCHANGED <<world_, login, clearing, flags, events, marks>>
  BY DEF RebindConnected
<1>4. now \in RoleNames
  BY <1>1, OwnerType, RoleOfType DEF Shapes
<1>5. b \in Rebinds
  BY <1>4, RecordTypes
<1>6. /\ restore' \in [Sessions -> Restores]
      /\ \A t \in Sessions \ {s} : restore'[t] = restore[t]
      /\ restore'[s].fresh => restore[s].fresh
      /\ restore'[s].untouched => restore[s].untouched
      /\ restore[s].pc \in {"idle", "refreshing"} => restore'[s].pc \in {"idle", "refreshing"}
  BY <1>1, <1>3, ResumedFacts DEF Shapes
<1>7. /\ Live(s) <=> rebind[s].same
      /\ login[s].pc = "done"
  BY <1>1, <1>2 DEF Safe, SameIsLive, Orphaned, Unregistered
<1>8. rebind[s].same => c \in Connections /\ c.role = rebind[s].role /\ c # Null
  <2>1. rebind[s].same => conn[s] \in Connections
    BY <1>1, <1>7 DEF Shapes, Live
  <2>2. rebind[s].role \in RoleNames
    BY <1>1 DEF Shapes, Rebinds
  <2>3. rebind[s].same => c \in Connections /\ c.role = rebind[s].role
    BY <2>1, <2>2 DEF Connections
  <2> QED
    BY <2>3, NullApart
<1>9. bound = IF rebind[s].same THEN [conn EXCEPT ![s] = c] ELSE conn
  OBVIOUS
<1>10. bound[s] = IF rebind[s].same THEN c ELSE Null
  BY <1>1, <1>7, <1>9 DEF Shapes, Live
<1> HIDE DEF b, c
<1>11. /\ bound \in [Sessions -> {Null} \cup Connections]
       /\ \A t \in Sessions \ {s} : bound[t] = conn[t]
  BY <1>1, <1>8, <1>9 DEF Shapes
<1>12. /\ saved \in [Sessions -> Records]
       /\ \A t \in Sessions \ {s} : saved[t] = stored[t]
       /\ ~rebind[s].same => saved[s] = stored[s]
  BY <1>1 DEF Shapes, Records
<1> HIDE DEF bound, saved
<1>13. Shapes'
  BY <1>1, <1>2, <1>3, <1>5, <1>6, <1>11, <1>12 DEF Shapes, Records, world_, flags, marks
<1>14. \A t \in Sessions \ {s} : Kept(t)
  BY <1>1, <1>2, <1>3, <1>6, <1>11, <1>12 DEF Kept, Shapes
<1>15. rebind'[s] = b /\ conn'[s] = IF down THEN Null ELSE bound[s]
  BY <1>1, <1>2, <1>3, <1>11 DEF Shapes
<1>16. UNCHANGED <<world_, login, clearing, flags, marks>>
  BY <1>3 DEF marks
<1>17. ASSUME ~rebind[s].same \/ down
       PROVE  Safe(s)'
  <2>1. ~Live(s)' /\ stored'[s] \in {stored[s], Absent}
    BY <1>3, <1>10, <1>12, <1>15, <1>17 DEF Live
  <2>2. rebind'[s] = NoRebind
    BY <1>10, <1>15, <1>17 DEF b
  <2> QED
    BY <1>1, <1>6, <1>7, <1>16, <2>1, <2>2, FallenIsSafe
<1>18. ASSUME rebind[s].same, ~down
       PROVE  Safe(s)'
  <2>1. conn'[s] = c /\ Live(s)'
    BY <1>8, <1>10, <1>15, <1>18 DEF Live
  <2>2. c.role # now => rebind'[s] = Rebinding(now)
    BY <1>8, <1>10, <1>15, <1>18 DEF b
  <2>3. c.role = now => rebind'[s] = NoRebind
    BY <1>10, <1>15 DEF b
  <2>4. /\ login[s].pc = "done" /\ restore[s].pc \in {"idle", "refreshing"}
        /\ ~suspended /\ s \notin purged /\ s \notin out /\ Owner[s] \notin deleted
    BY <1>1, <1>7, <1>18, LiveStands
  <2>5. Bound(s)' /\ (rebind'[s].pc # "idle" => rebind'[s].same)
    <3>1. UNCHANGED seen
      BY <1>3 DEF world_
    <3> QED
      BY <2>1, <2>2, <2>3, <3>1 DEF Bound, Rebinding, NoRebind
  <2>6. UNCHANGED <<login, suspended, deleted, purged, out>>
    BY <1>16 DEF flags, marks
  <2>7. (/\ login[s].pc = "done" /\ restore[s].pc \in {"idle", "refreshing"}
         /\ ~suspended /\ s \notin purged /\ s \notin out /\ Owner[s] \notin deleted)'
    BY <1>6, <2>4, <2>6
  <2> QED
    BY <2>1, <2>5, <2>7, StandingIsSafe
<1> QED
  BY <1>3, <1>13, <1>14, <1>17, <1>18, OneSession DEF marks

-----------------------------------------------------------------------------
(* Requests and restorations                                               *)

\* What an attempt r of a session that has logged in may hold.
MayHold(s, r) ==
    /\ r.pc \notin {"idle", "refreshing"} => ~Live(s)
    /\ r.fresh => ~suspended /\ s \notin purged
    /\ r.untouched => s \notin out
    /\ r.fresh /\ r.untouched /\ rebind[s].pc # "idle" /\ ~rebind[s].same => Owner[s] \in deleted

\* The attempt under way holds no more than it may.
LEMMA RestoreHolds ==
    ASSUME NEW s \in Sessions, Safe(s)
    PROVE  MayHold(s, restore[s])
BY DEF Safe, MayHold, Restoring, Orphaned, PurgeHolds, SuspendHolds, LogoutHolds, Current, Quiet

\* A restoration has begun only after the login has ended.
LEMMA RestoringLoggedIn ==
    ASSUME NEW s \in Sessions, Safe(s), restore[s].pc # "idle"
    PROVE  login[s].pc = "done"
BY DEF Safe, Unregistered, NoRestore

\* A restoration moves on to an attempt that holds no more than it may.
LEMMA ToKeeps ==
    ASSUME IInv, NEW s \in Sessions, NEW r \in Restores, To(s, r), MayHold(s, r), login[s].pc = "done",
           UNCHANGED <<world_, login, flags, marks>>
    PROVE  IInv'
<1>1. Shapes /\ Safe(s)
  BY DEF IInv
<1>2. restore' = [restore EXCEPT ![s] = r] /\ UNCHANGED <<conn, stored, rebind, clearing>>
  BY DEF To
<1>3. restore'[s] = r
  BY <1>1, <1>2 DEF Shapes
<1>4. Shapes'
  BY <1>1, <1>2 DEF Shapes, world_, flags, marks
<1>5. Safe(s)'
  BY <1>1, <1>2, <1>3 DEF Safe, Unregistered, Restoring, SameIsLive, Orphaned, PurgeHolds, SuspendHolds,
     DeleteHolds, LogoutHolds, Bound, Current, Quiet, Live, MayHold, world_, flags, marks
<1>6. \A t \in Sessions \ {s} : Kept(t)
  BY <1>1, <1>2 DEF Kept, Shapes
<1> QED
  BY <1>2, <1>4, <1>5, <1>6, OneSession DEF marks

\* An attempt that is put off, or given up, holds nothing.
LEMMA BlankKeeps ==
    ASSUME IInv, NEW s \in Sessions, NEW x, x.tries \in 0..Attempts - 1,
           To(s, Retryable(x)) \/ To(s, NoRestore), ~Live(s), login[s].pc = "done",
           UNCHANGED <<world_, login, flags, marks>>
    PROVE  IInv'
<1>1. CASE To(s, Retryable(x))
  <2>1. Retryable(x) \in Restores /\ MayHold(s, Retryable(x))
    BY RetryableIsBlank DEF MayHold
  <2> QED
    BY <1>1, <2>1, ToKeeps
<1>2. CASE To(s, NoRestore)
  <2>1. NoRestore \in Restores /\ MayHold(s, NoRestore)
    BY RecordTypes DEF MayHold, NoRestore
  <2> QED
    BY <1>2, <2>1, ToKeeps
<1> QED
  BY <1>1, <1>2

\* A purged session is down, with its record and its restoration.
LEMMA PurgeKeeps ==
    ASSUME IInv, NEW s \in Sessions, Purge(s), login[s].pc = "done",
           UNCHANGED <<world_, login, flags, marks>>
    PROVE  IInv'
<1> DEFINE b == [rebind[s] EXCEPT !.same = FALSE]
<1>1. Shapes /\ Safe(s)
  BY DEF IInv
<1>2. /\ stored' = [t \in Sessions |-> IF t = s THEN Absent ELSE stored[t]]
      /\ clearing' = clearing
  BY ClearOne DEF Purge
<1>3. /\ conn' = [conn EXCEPT ![s] = Null]
      /\ rebind' = [rebind EXCEPT ![s] = b]
      /\ restore' = [restore EXCEPT ![s] = NoRestore]
  BY DEF Purge
<1>4. b \in Rebinds /\ b.pc = rebind[s].pc /\ ~b.same
  BY <1>1 DEF Shapes, Rebinds
<1>5. NoRestore \in Restores /\ ~NoRestore.fresh /\ ~NoRestore.untouched
  BY RecordTypes DEF NoRestore
<1> HIDE DEF b
<1>6. Shapes'
  BY <1>1, <1>2, <1>3, <1>4, <1>5 DEF Shapes, Records, world_, flags, marks
<1>7. Down(s) /\ stored'[s] = Absent
  BY <1>1, <1>2, <1>3, <1>4, <1>5 DEF Down, Shapes
<1>8. Safe(s)'
  BY <1>1, <1>7, DownIsSafe DEF flags, marks
<1>9. \A t \in Sessions \ {s} : Kept(t)
  BY <1>1, <1>2, <1>3 DEF Kept, Shapes
<1> QED
  BY <1>2, <1>6, <1>8, <1>9, OneSession DEF marks

\* A record is judged against the world of now and the tombstones.
LEMMA JudgeKeeps ==
    ASSUME IInv, NEW s \in Sessions, NEW r \in Restores, Judge(s, r), MayHold(s, r), ~Live(s),
           login[s].pc = "done", UNCHANGED <<world_, login, flags, marks>>
    PROVE  IInv'
<1> DEFINE x == [r EXCEPT !.pc = "connecting", !.role = RoleOf(seen[Owner[s]])]
<1>1. CASE r.world # world \/ Owner[s] \in deleted
  BY <1>1, PurgeKeeps DEF Judge
<1>2. CASE ~(r.world # world \/ Owner[s] \in deleted)
  <2>1. To(s, x)
    BY <1>2 DEF Judge
  <2>2. RoleOf(seen[Owner[s]]) \in RoleNames
    BY OwnerType, RoleOfType DEF IInv, Shapes
  <2>3. x \in Restores /\ x.fresh = r.fresh /\ x.untouched = r.untouched
    BY <2>2 DEF Restores, RestorePcs, Attempts
  <2> HIDE DEF x
  <2>4. MayHold(s, x)
    BY <2>3 DEF MayHold
  <2> QED
    BY <2>1, <2>3, <2>4, ToKeeps
<1> QED
  BY <1>1, <1>2

\* An attempt captures the authority of now before it reads the record.
LEMMA AttemptKeeps ==
    ASSUME IInv, NEW s \in Sessions, NEW tries \in 0..Attempts - 1, Attempt(s, tries), ~Live(s),
           login[s].pc = "done", UNCHANGED <<world_, login, flags, marks>>
    PROVE  IInv'
<1> DEFINE r == [NoRestore EXCEPT !.tries = tries, !.fresh = TRUE, !.untouched = TRUE, !.world = stored[s]]
           w == [r EXCEPT !.pc = "waiting"]
<1>1. Safe(s) /\ stored[s] \in Records
  BY DEF IInv, Shapes
<1>2. r.tries = tries /\ r.fresh /\ r.untouched
  BY DEF NoRestore
<1>3. CASE suspended
  <2>1. To(s, Retryable(r))
    BY <1>3 DEF Attempt
  <2> HIDE DEF r
  <2> QED
    BY <1>2, <2>1, BlankKeeps
<1>4. CASE ~suspended /\ stored[s] = Absent
  <2>1. To(s, NoRestore)
    BY <1>4 DEF Attempt
  <2> HIDE DEF r
  <2> QED
    BY <1>2, <2>1, BlankKeeps
<1>5. CASE ~suspended /\ stored[s] # Absent
  <2>1. r \in Restores /\ w \in Restores /\ w.fresh /\ w.untouched
    BY <1>1, <1>5 DEF NoRestore, Restores, RestorePcs, Records, RoleNames, Attempts
  <2>2. \/ To(s, Retryable(r))
        \/ To(s, w)
        \/ Judge(s, r)
    BY <1>5 DEF Attempt
  <2> HIDE DEF r, w
  <2>3. MayHold(s, r) /\ MayHold(s, w)
    BY <1>1, <1>5 DEF MayHold, Safe, PurgeHolds, LogoutHolds, Orphaned
  <2> QED
    BY <1>2, <2>1, <2>2, <2>3, BlankKeeps, ToKeeps, JudgeKeeps
<1> QED
  BY <1>3, <1>4, <1>5

\* A request destroys a session of another world, or starts its restoration.
LEMMA RequestKeeps == ASSUME IInv, NEW s \in Sessions, Request(s) PROVE IInv'
<1>1. login[s].pc = "done" /\ UNCHANGED <<world_, login, flags, marks>>
  BY DEF Request, marks
<1>2. CASE Destroy(s)
  BY <1>1, <1>2, DestroyKeeps DEF marks
<1>3. CASE ~Live(s) /\ Attempt(s, 0)
  <2>1. 0 \in 0..Attempts - 1
    BY DEF Attempts
  <2> QED
    BY <1>1, <1>3, <2>1, AttemptKeeps
<1> QED
  BY <1>2, <1>3 DEF Request

\* A later attempt, as the first.
LEMMA RestoreRetriesKeeps == ASSUME IInv, NEW s \in Sessions, RestoreRetries(s) PROVE IInv'
<1>1. restore[s].pc = "backoff" /\ Attempt(s, restore[s].tries) /\ UNCHANGED <<world_, login, flags, marks>>
  BY DEF RestoreRetries, marks
<1>2. restore[s].tries \in 0..Attempts - 1
  BY DEF IInv, Shapes, Restores
<1>3. ~Live(s) /\ login[s].pc = "done"
  BY <1>1, RestoringLoggedIn DEF IInv, Safe, Restoring
<1> QED
  BY <1>1, <1>2, <1>3, AttemptKeeps

\* An expired record is purged.
LEMMA RestoreExpiresKeeps == ASSUME IInv, NEW s \in Sessions, RestoreExpires(s) PROVE IInv'
<1>1. restore[s].pc = "backoff" /\ Purge(s) /\ UNCHANGED <<world_, login, flags, marks>>
  BY DEF RestoreExpires
<1>2. login[s].pc = "done"
  BY <1>1, RestoringLoggedIn DEF IInv
<1> QED
  BY <1>1, <1>2, PurgeKeeps

\* A restoration that reached another user is purged.
LEMMA RestoreMisidentifiedKeeps == ASSUME IInv, NEW s \in Sessions, RestoreMisidentified(s) PROVE IInv'
<1>1. restore[s].pc = "connecting" /\ Purge(s) /\ UNCHANGED <<world_, login, flags, marks>>
  BY DEF RestoreMisidentified
<1>2. login[s].pc = "done"
  BY <1>1, RestoringLoggedIn DEF IInv
<1> QED
  BY <1>1, <1>2, PurgeKeeps

\* An attempt that waited for the world is judged, or put off.
LEMMA RestoreWaitedKeeps == ASSUME IInv, NEW s \in Sessions, RestoreWaited(s) PROVE IInv'
<1>1. restore[s].pc = "waiting" /\ UNCHANGED <<world_, login, flags, marks>>
  BY DEF RestoreWaited, marks
<1>2. restore[s] \in Restores /\ restore[s].tries \in 0..Attempts - 1 /\ MayHold(s, restore[s])
  BY RestoreHolds DEF IInv, Shapes, Restores
<1>3. ~Live(s) /\ login[s].pc = "done"
  BY <1>1, RestoringLoggedIn DEF IInv, Safe, Restoring
<1>4. To(s, Retryable(restore[s])) \/ Judge(s, restore[s])
  BY DEF RestoreWaited
<1> QED
  BY <1>1, <1>2, <1>3, <1>4, BlankKeeps, JudgeKeeps

\* A failed attempt is put off, or was the last.
LEMMA RestoreFailsKeeps == ASSUME IInv, NEW s \in Sessions, RestoreFails(s) PROVE IInv'
<1>1. restore[s].pc = "connecting" /\ To(s, Retryable(restore[s])) /\ UNCHANGED <<world_, login, flags, marks>>
  BY DEF RestoreFails, marks
<1>2. restore[s].tries \in 0..Attempts - 1
  BY DEF IInv, Shapes, Restores
<1>3. ~Live(s) /\ login[s].pc = "done"
  BY <1>1, RestoringLoggedIn DEF IInv, Safe, Restoring
<1> QED
  BY <1>1, <1>2, <1>3, BlankKeeps

\* A restoration registers its connection if what it captured still stands.
LEMMA RestoreConnectedKeeps == ASSUME IInv, NEW s \in Sessions, RestoreConnected(s) PROVE IInv'
<1> DEFINE r  == restore[s]
           ok == MayRegister(r, s) /\ r.untouched
           y  == [r EXCEPT !.pc = "refreshing"]
           v  == IF ok /\ conn'[s] # Null /\ rebind'[s].pc # "idle" THEN y ELSE NoRestore
<1>1. Shapes /\ Safe(s)
  BY DEF IInv
<1>2. r.pc = "connecting" /\ restore' = [restore EXCEPT ![s] = v]
  BY DEF RestoreConnected
<1>3. UNCHANGED <<world_, login, clearing, flags, events, marks>>
  BY DEF RestoreConnected
<1>4. ~Live(s) /\ login[s].pc = "done"
  BY <1>1, <1>2, RestoringLoggedIn DEF Safe, Restoring
<1>5. CASE ~ok
  <2>1. UNCHANGED <<conn, stored, rebind>>
    BY <1>5 DEF RestoreConnected
  <2>2. v = NoRestore
    BY <1>5
  <2> HIDE DEF v
  <2>3. To(s, NoRestore)
    BY <1>2, <1>3, <2>1, <2>2 DEF To
  <2>4. r.tries \in 0..Attempts - 1
    BY <1>1 DEF Shapes, Restores
  <2> QED
    BY <1>3, <1>4, <2>3, <2>4, BlankKeeps
<1>6. CASE ok
  <2>1. Register(s, r.role, r.world, stored[s])
    BY <1>6 DEF RestoreConnected
  <2>2. r.role \in RoleNames /\ r.world \in Worlds \cup {Null} /\ stored[s] \in Records
    BY <1>1 DEF Shapes, Restores
  <2>3. r.fresh /\ r.untouched /\ Owner[s] \notin deleted
    BY <1>6 DEF MayRegister
  <2>4. rebind[s].pc = "idle"
    <3>1. ~rebind[s].same
      BY <1>1, <1>4 DEF Safe, SameIsLive
    <3> QED
      BY <1>1, <2>3, <3>1 DEF Safe, Orphaned, Current
  <2>5. ~suspended /\ s \notin purged /\ s \notin out
    BY <1>1, <2>3 DEF Safe, PurgeHolds, SuspendHolds, LogoutHolds, Quiet
  <2>6. v \in Restores /\ v.pc \in {"idle", "refreshing"}
    <3>1. r \in Restores
      BY <1>1 DEF Shapes
    <3>2. y \in Restores /\ y.pc = "refreshing"
      BY <3>1 DEF Restores, RestorePcs, Attempts
    <3>3. NoRestore \in Restores /\ NoRestore.pc = "idle"
      BY RecordTypes DEF NoRestore
    <3> QED
      BY <3>2, <3>3
  <2> HIDE DEF v
  <2>7. restore'[s].pc \in {"idle", "refreshing"} /\ login'[s].pc = "done"
    BY <1>1, <1>2, <1>3, <1>4, <2>6 DEF Shapes
  <2>8. Safe(s)'
    BY <1>1, <1>3, <1>4, <2>1, <2>2, <2>3, <2>4, <2>5, <2>7, RegisteredIsSafe DEF marks
  <2>9. /\ conn' \in [Sessions -> {Null} \cup Connections]
        /\ stored' \in [Sessions -> Records]
        /\ rebind' \in [Sessions -> Rebinds]
        /\ \A t \in Sessions \ {s} :
              conn'[t] = conn[t] /\ stored'[t] = stored[t] /\ rebind'[t] = rebind[t]
    BY <1>1, <2>1, <2>2, RegisterTypes
  <2>10. Shapes'
    BY <1>1, <1>2, <1>3, <2>6, <2>9 DEF Shapes, world_, flags, marks
  <2>11. \A t \in Sessions \ {s} : Kept(t)
    BY <1>1, <1>2, <1>3, <2>9 DEF Kept, Shapes
  <2> QED
    BY <1>3, <2>8, <2>10, <2>11, OneSession DEF marks
<1> QED
  BY <1>5, <1>6

-----------------------------------------------------------------------------
(* The world, its users, maintenance and restarts                          *)

\* Foundry, the lifecycle or the mirror change, and no session does.
LEMMA WorldKeeps ==
    ASSUME IInv, UNCHANGED <<conn, stored, flows, clearing, flags, purged, out>>,
           life' \in {"offline", "setup", "startup", "active", "closed"},
           world' \in Worlds \cup {Null}, seen' \in [Users -> Roles],
           foundry' \in [world : Worlds, role : [Users -> Roles]],
           Mirrored', \A s \in Sessions : Bound(s)'
    PROVE  IInv'
<1>1. Shapes'
  BY DEF IInv, Shapes, flows, flags
<1>2. ASSUME NEW s \in Sessions
      PROVE  Safe(s)'
  <2>1. Safe(s) /\ Kept(s) /\ Bound(s)'
    BY DEF IInv, Kept, flows
  <2>2. UNCHANGED <<suspended, clearing, deleted, purged, out>>
    BY DEF flags
  <2> QED
    BY <2>1, <2>2, KeptIsSafe
<1> QED
  BY <1>1, <1>2 DEF IInv

\* The mirror of a world that is gone is a mirror.
LEMMA UnmirroredType == Unmirrored \in [Users -> Roles]
BY DEF Unmirrored, Roles

\* An offline world keeps its mirror.
LEMMA GoOfflineKeeps == ASSUME IInv, GoOffline PROVE IInv'
<1>1. \A s \in Sessions : Bound(s)'
  BY DEF GoOffline, IInv, Safe, Bound, Live, flows, marks
<1> QED
  BY <1>1, WorldKeeps DEF GoOffline, IInv, Shapes, Mirrored, marks

\* A world closed by its service account has no users.
LEMMA CloseWorldKeeps == ASSUME IInv, CloseWorld PROVE IInv'
<1>1. \A s \in Sessions : Bound(s)'
  BY DEF CloseWorld, Bound
<1> QED
  BY <1>1, UnmirroredType, WorldKeeps DEF CloseWorld, IInv, Shapes, Mirrored, marks

\* A world that starts up has no users yet.
LEMMA StartupKeeps == ASSUME IInv, Startup PROVE IInv'
<1>1. \A s \in Sessions : Bound(s)'
  BY DEF Startup, Bound
<1> QED
  BY <1>1, WorldKeeps DEF Startup, IInv, Shapes, Mirrored, marks

\* Foundry changes worlds only outside an active one.
LEMMA SwitchWorldKeeps == ASSUME IInv, NEW w \in Worlds, SwitchWorld(w) PROVE IInv'
<1>1. \A s \in Sessions : Bound(s)'
  BY DEF SwitchWorld, IInv, Safe, Bound, Live, flows, marks
<1>2. foundry' \in [world : Worlds, role : [Users -> Roles]] /\ life # "active"
  BY DEF SwitchWorld, IInv, Shapes
<1> QED
  BY <1>1, <1>2, WorldKeeps DEF SwitchWorld, IInv, Shapes, Mirrored, marks

\* A seed publishes no User events: who missed one is marked.
LEMMA BootstrappedKeeps == ASSUME IInv, Bootstrapped PROVE IInv'
<1>1. foundry.world \in Worlds /\ foundry.role \in [Users -> Roles]
  BY DEF IInv, Shapes
<1>2. ASSUME NEW s \in Sessions
      PROVE  Bound(s)'
  <2>1. missed' = missed \cup {u \in Users : \E t \in LiveOf(u) : conn[t].role # RoleOf(foundry.role[u])}
    BY DEF Bootstrapped
  <2>2. Live(s) /\ conn[s].role # RoleOf(foundry.role[Owner[s]]) => Owner[s] \in missed'
    BY <2>1, OwnerType DEF LiveOf
  <2> QED
    BY <2>2 DEF Bootstrapped, Bound, Live
<1>3. /\ life' = "active" /\ world' = foundry.world /\ seen' = foundry.role
      /\ UNCHANGED <<foundry, conn, stored, flows, clearing, flags, purged, out>>
  BY DEF Bootstrapped
<1>4. Mirrored' /\ foundry' \in [world : Worlds, role : [Users -> Roles]]
  BY <1>3 DEF IInv, Shapes, Mirrored
<1> QED
  BY <1>1, <1>2, <1>3, <1>4, WorldKeeps

\* Whatever is in flight has lost its epoch and its connection.
LEMMA EpochIsSafe ==
    ASSUME NEW s \in Sessions, Safe(s), conn'[s] = Null,
           login'[s].pc = login[s].pc, ~login'[s].fresh,
           rebind'[s].pc = rebind[s].pc, ~rebind'[s].same,
           restore'[s].pc = restore[s].pc, ~restore'[s].fresh,
           restore'[s].untouched = restore[s].untouched,
           \/ stored'[s] = Absent
           \/ suspended' /\ UNCHANGED <<stored, deleted, clearing, purged>>,
           s \in purged' => s \in purged \/ login[s].pc # "idle", out' = out
    PROVE  Safe(s)'
BY DEF Safe, Unregistered, Restoring, SameIsLive, Orphaned, PurgeHolds, SuspendHolds, DeleteHolds,
       LogoutHolds, Bound, Current, Quiet, Live

\* A new epoch leaves every session where it is, without connection or authority.
LEMMA NewEpochFacts ==
    ASSUME Shapes, NewEpoch
    PROVE  /\ conn' \in [Sessions -> {Null} \cup Connections]
           /\ login' \in [Sessions -> Logins]
           /\ restore' \in [Sessions -> Restores]
           /\ rebind' \in [Sessions -> Rebinds]
           /\ \A s \in Sessions :
                /\ conn'[s] = Null
                /\ login'[s].pc = login[s].pc /\ ~login'[s].fresh
                /\ rebind'[s].pc = rebind[s].pc /\ ~rebind'[s].same
                /\ restore'[s].pc = restore[s].pc /\ ~restore'[s].fresh
                /\ restore'[s].untouched = restore[s].untouched
<1>1. /\ login' = [s \in Sessions |-> [login[s] EXCEPT !.fresh = FALSE]]
      /\ restore' = [s \in Sessions |-> [restore[s] EXCEPT !.fresh = FALSE]]
      /\ rebind' = [s \in Sessions |-> [rebind[s] EXCEPT !.same = FALSE]]
      /\ conn' = [s \in Sessions |-> Null]
  BY DEF NewEpoch
<1>2. ASSUME NEW s \in Sessions
      PROVE  /\ login'[s] \in Logins /\ restore'[s] \in Restores /\ rebind'[s] \in Rebinds
             /\ login'[s].pc = login[s].pc /\ ~login'[s].fresh
             /\ rebind'[s].pc = rebind[s].pc /\ ~rebind'[s].same
             /\ restore'[s].pc = restore[s].pc /\ ~restore'[s].fresh
             /\ restore'[s].untouched = restore[s].untouched
  <2>1. login[s] \in Logins /\ restore[s] \in Restores /\ rebind[s] \in Rebinds
    BY DEF Shapes
  <2>2. [login[s] EXCEPT !.fresh = FALSE] \in Logins /\ login'[s].pc = login[s].pc /\ ~login'[s].fresh
    BY <1>1, <2>1 DEF Logins
  <2>3. [rebind[s] EXCEPT !.same = FALSE] \in Rebinds /\ rebind'[s].pc = rebind[s].pc /\ ~rebind'[s].same
    BY <1>1, <2>1 DEF Rebinds
  <2>4. /\ [restore[s] EXCEPT !.fresh = FALSE] \in Restores
        /\ restore'[s].pc = restore[s].pc /\ ~restore'[s].fresh
        /\ restore'[s].untouched = restore[s].untouched
    BY <1>1, <2>1 DEF Restores, Attempts
  <2> QED
    BY <1>1, <2>2, <2>3, <2>4
<1>3. /\ conn' \in [Sessions -> {Null} \cup Connections]
      /\ login' \in [Sessions -> Logins]
      /\ restore' \in [Sessions -> Restores]
      /\ rebind' \in [Sessions -> Rebinds]
  BY <1>1, <1>2
<1> QED
  BY <1>1, <1>2, <1>3

\* Maintenance suspends the service, and the records stay.
LEMMA SuspendKeeps == ASSUME IInv, Suspend PROVE IInv'
<1>1. NewEpoch /\ suspended' = TRUE /\ UNCHANGED <<world_, stored, clearing, deleted, marks>>
  BY DEF Suspend
<1>2. Shapes
  BY DEF IInv
<1>3. Shapes'
  BY <1>1, <1>2, NewEpochFacts DEF Shapes, world_, marks
<1>4. ASSUME NEW s \in Sessions
      PROVE  Safe(s)'
  <2>1. /\ conn'[s] = Null
        /\ login'[s].pc = login[s].pc /\ ~login'[s].fresh
        /\ rebind'[s].pc = rebind[s].pc /\ ~rebind'[s].same
        /\ restore'[s].pc = restore[s].pc /\ ~restore'[s].fresh
        /\ restore'[s].untouched = restore[s].untouched
    BY <1>1, <1>2, NewEpochFacts
  <2> QED
    BY <1>1, <2>1, EpochIsSafe DEF IInv, marks
<1>5. Mirrored'
  BY <1>1 DEF IInv, Mirrored, world_
<1> QED
  BY <1>3, <1>4, <1>5 DEF IInv

\* Setup purges the records too.
LEMMA EnterSetupKeeps == ASSUME IInv, EnterSetup PROVE IInv'
<1>1. /\ NewEpoch /\ stored' = [s \in Sessions |-> Absent] /\ deleted' = {}
      /\ purged' = purged \cup {s \in Sessions : login[s].pc # "idle"}
      /\ life' = "setup" /\ world' = Null /\ seen' = Unmirrored
      /\ UNCHANGED <<foundry, clearing, suspended, out, missed>>
  BY DEF EnterSetup, ClearAll
<1>2. Shapes
  BY DEF IInv
<1>3. Shapes'
  BY <1>1, <1>2, NewEpochFacts, UnmirroredType DEF Shapes, Records
<1>4. ASSUME NEW s \in Sessions
      PROVE  Safe(s)'
  <2>1. /\ conn'[s] = Null
        /\ login'[s].pc = login[s].pc /\ ~login'[s].fresh
        /\ rebind'[s].pc = rebind[s].pc /\ ~rebind'[s].same
        /\ restore'[s].pc = restore[s].pc /\ ~restore'[s].fresh
        /\ restore'[s].untouched = restore[s].untouched
    BY <1>1, <1>2, NewEpochFacts
  <2>2. Safe(s) /\ stored'[s] = Absent /\ (s \in purged' => s \in purged \/ login[s].pc # "idle")
    BY <1>1 DEF IInv
  <2> QED
    BY <1>1, <2>1, <2>2, EpochIsSafe
<1>5. Mirrored'
  BY <1>1 DEF Mirrored
<1> QED
  BY <1>3, <1>4, <1>5 DEF IInv

\* After a restart nothing is in flight.
LEMMA RestartKeeps == ASSUME IInv, Restart PROVE IInv'
<1>1. Shapes
  BY DEF IInv
<1>2. /\ life' = "offline" /\ world' = Null /\ seen' = Unmirrored
      /\ conn' = [s \in Sessions |-> Null]
      /\ login' = [s \in Sessions |-> IF login[s].pc = "idle" THEN NoLogin ELSE [NoLogin EXCEPT !.pc = "done"]]
      /\ restore' = [s \in Sessions |-> NoRestore]
      /\ rebind' = [s \in Sessions |-> NoRebind]
      /\ clearing' = {} /\ deleted' = {} /\ suspended' = FALSE
      /\ UNCHANGED <<foundry, stored, marks>>
  BY DEF Restart
<1> DEFINE x == [NoLogin EXCEPT !.pc = "done"]
<1>3. x \in Logins /\ x.pc = "done" /\ ~x.fresh
  BY EndedLogin
<1>4. NoLogin \in Logins /\ NoLogin.pc = "idle" /\ ~NoLogin.fresh
  BY RecordTypes DEF NoLogin
<1> HIDE DEF x
<1>5. Shapes'
  BY <1>1, <1>2, <1>3, <1>4, RecordTypes, UnmirroredType DEF Shapes, marks, x
<1>6. ASSUME NEW s \in Sessions
      PROVE  Safe(s)'
  <2>1. /\ conn'[s] = Null /\ restore'[s] = NoRestore /\ rebind'[s] = NoRebind
        /\ stored'[s] = stored[s] /\ ~suspended' /\ deleted' = {} /\ purged' = purged /\ out' = out
    BY <1>2 DEF marks
  <2>2. /\ ~login'[s].fresh
        /\ login'[s].pc = IF login[s].pc = "idle" THEN "idle" ELSE "done"
    BY <1>2, <1>3, <1>4 DEF x
  <2>3. Safe(s)
    BY DEF IInv
  <2> QED
    BY <2>1, <2>2, <2>3 DEF Safe, Unregistered, Restoring, SameIsLive, Orphaned, PurgeHolds, SuspendHolds,
       DeleteHolds, LogoutHolds, Bound, Current, Quiet, Live, NoRestore, NoRebind
<1>7. Mirrored'
  BY <1>2 DEF Mirrored
<1> QED
  BY <1>5, <1>6, <1>7 DEF IInv

-----------------------------------------------------------------------------
(* Authorization refreshes                                                 *)

\* The events of one turn reconcile every session of the users they are about.
LEMMA UserEventsKeep ==
    ASSUME IInv, NEW users \in SUBSET Users, NEW gone \in SUBSET users, NEW now \in [Users -> Roles],
           UserEvents(users, gone, now),
           life \in {"active", "offline"}, life' = "active", foundry'.role = now,
           foundry' \in [world : Worlds, role : [Users -> Roles]],
           \A u \in Users \ users : now[u] = seen[u],
           UNCHANGED <<world, login, suspended, purged, out>>
    PROVE  IInv'
<1> DEFINE due    == {s \in Sessions : /\ Owner[s] \in users \ gone /\ Live(s) /\ rebind[s].pc = "idle"
                                       /\ conn[s].role # RoleOf(now[Owner[s]])}
           kick   == {s \in due : RoleOf(now[Owner[s]]) = NONE}
           down   == kick \cup UNION {HeldBy(u) : u \in gone}
           chains == ({{s} : s \in kick} \cup {HeldBy(u) : u \in gone}) \ {{}}
           b(s)   == Rebinding(RoleOf(now[Owner[s]]))
           x(s)   == [rebind[s] EXCEPT !.same = FALSE]
           r(s)   == [restore[s] EXCEPT !.untouched = FALSE]
<1>1. Shapes /\ \A s \in Sessions : Safe(s)
  BY DEF IInv
<1>2. /\ conn' = [s \in Sessions |-> IF s \in down THEN Null ELSE conn[s]]
      /\ restore' = [s \in Sessions |-> IF s \in down THEN r(s) ELSE restore[s]]
      /\ rebind' = [s \in Sessions |-> CASE s \in due \ kick -> b(s) [] s \in down -> x(s) [] OTHER -> rebind[s]]
      /\ Clear(chains)
      /\ seen' = now
      /\ deleted' = deleted \cup gone
      /\ missed' = missed \ users
  BY DEF UserEvents
<1>3. /\ chains \in SUBSET SUBSET Sessions
      /\ UNION chains = down
      /\ \A s \in down : s \in kick \/ (Owner[s] \in gone /\ (Live(s) \/ stored[s] # Absent))
      /\ \A s \in Sessions \ down : Owner[s] \in gone => ~Live(s) /\ stored[s] = Absent
  <2>1. \A u \in gone : HeldBy(u) = {s \in Sessions : Owner[s] = u /\ (Live(s) \/ stored[s] # Absent)}
    BY DEF HeldBy, LiveOf
  <2>2. chains \in SUBSET SUBSET Sessions
    BY <2>1
  <2>3. ASSUME NEW s \in UNION chains
        PROVE  s \in down
    <3>1. PICK chain \in chains : s \in chain
      OBVIOUS
    <3>2. (\E t \in kick : chain = {t}) \/ \E u \in gone : chain = HeldBy(u)
      OBVIOUS
    <3> QED
      BY <3>1, <3>2
  <2>4. ASSUME NEW s \in down
        PROVE  s \in UNION chains
    <3>1. CASE s \in kick
      <4>1. {s} \in chains
        BY <3>1
      <4> QED
        BY <4>1
    <3>2. CASE \E u \in gone : s \in HeldBy(u)
      <4>1. PICK u \in gone : s \in HeldBy(u)
        BY <3>2
      <4>2. HeldBy(u) \in chains
        BY <4>1
      <4> QED
        BY <4>1, <4>2
    <3> QED
      BY <3>1, <3>2
  <2>5. UNION chains = down
    <3> HIDE DEF chains, down
    <3> QED
      BY <2>3, <2>4
  <2>6. ASSUME NEW s \in down
        PROVE  s \in kick \/ (Owner[s] \in gone /\ (Live(s) \/ stored[s] # Absent))
    BY <2>1
  <2>7. ASSUME NEW s \in Sessions, s \notin down, Owner[s] \in gone
        PROVE  ~Live(s) /\ stored[s] = Absent
    <3>1. s \notin HeldBy(Owner[s])
      BY <2>7
    <3> QED
      BY <2>1, <2>7, <3>1
  <2> HIDE DEF chains, down, kick
  <2> QED
    BY <2>2, <2>5, <2>6, <2>7
<1>4. /\ stored' \in [Sessions -> Records]
      /\ clearing' \subseteq Sessions
      /\ clearing \subseteq clearing'
      /\ \A s \in Sessions : stored'[s] \in {stored[s], Absent}
      /\ \A s \in down : stored'[s] = Absent \/ s \in clearing'
      /\ \A s \in Sessions \ down : stored'[s] = stored[s]
  <2> HIDE DEF chains, down
  <2> QED
    BY <1>1, <1>2, <1>3, ClearShrinks DEF Shapes
<1>5. \A s \in Sessions : b(s) \in Rebinds /\ b(s).pc = "connecting" /\ b(s).same
  BY OwnerType, RoleOfType, RecordTypes DEF Rebinding
<1>6. \A s \in Sessions : x(s) \in Rebinds /\ x(s).pc = rebind[s].pc /\ ~x(s).same
  <2>1. \A s \in Sessions : rebind[s] \in Rebinds
    BY <1>1 DEF Shapes
  <2> QED
    BY <2>1, ZenonT(60) DEF Rebinds
<1>7. \A s \in Sessions : r(s) \in Restores /\ r(s).fresh = restore[s].fresh /\ ~r(s).untouched
  <2>1. \A s \in Sessions : restore[s] \in Restores
    BY <1>1 DEF Shapes
  <2> QED
    BY <2>1 DEF Restores, Attempts
<1>8. \A s \in down : s \in Sessions /\ s \notin due \ kick
  BY <1>3
<1> HIDE DEF chains, down, b, x, r
<1>9. \A s \in Sessions :
        /\ conn'[s] = IF s \in down THEN Null ELSE conn[s]
        /\ restore'[s] = IF s \in down THEN r(s) ELSE restore[s]
        /\ s \in due \ kick => rebind'[s] = b(s)
        /\ s \in down => rebind'[s] = x(s)
        /\ s \notin due /\ s \notin down => rebind'[s] = rebind[s]
  BY <1>2, <1>8
<1>10. /\ conn' \in [Sessions -> {Null} \cup Connections]
       /\ restore' \in [Sessions -> Restores]
       /\ rebind' \in [Sessions -> Rebinds]
  <2>1. \A s \in Sessions : /\ conn'[s] \in {Null} \cup Connections
                            /\ restore'[s] \in Restores /\ rebind'[s] \in Rebinds
    <3>1. kick \subseteq down
      BY DEF down
    <3> QED
      BY <1>1, <1>5, <1>6, <1>7, <1>9, <3>1 DEF Shapes
  <2> QED
    BY <1>2, <2>1
<1>11. Shapes'
  BY <1>1, <1>2, <1>4, <1>10 DEF Shapes
<1>12. ASSUME NEW s \in down
       PROVE  Safe(s)'
  <2>1. s \in Sessions /\ Safe(s)
    BY <1>1, <1>8
  <2>2. login[s].pc = "done"
    BY <1>3, <2>1 DEF Safe, Unregistered
  <2>3. Down(s)
    BY <1>4, <1>6, <1>7, <1>8, <1>9, <2>1, <2>2 DEF Down
  <2>4. stored'[s] # Absent => /\ s \in clearing' /\ s \notin out'
                               /\ rebind[s].pc = "idle" \/ Owner[s] \in deleted'
    <3>1. stored'[s] # Absent => s \in clearing' /\ stored[s] # Absent
      BY <1>4, <2>1
    <3>2. s \in out => stored[s] = Absent
      BY <2>1 DEF Safe, LogoutHolds
    <3>3. rebind[s].pc = "idle" \/ Owner[s] \in deleted'
      BY <1>2, <1>3
    <3> QED
      BY <3>1, <3>2, <3>3
  <2> QED
    BY <2>1, <2>3, <2>4, DownIsSafe
<1>13. ASSUME NEW s \in due \ kick
       PROVE  Safe(s)'
  <2>1. s \in Sessions /\ Live(s) /\ s \notin down /\ Owner[s] \notin gone
    BY <1>8
  <2>2. /\ login[s].pc = "done" /\ restore[s].pc \in {"idle", "refreshing"}
        /\ ~suspended /\ s \notin purged /\ s \notin out /\ Owner[s] \notin deleted
    BY <1>1, <2>1, LiveStands
  <2>3. conn'[s] = conn[s] /\ restore'[s] = restore[s] /\ rebind'[s] = b(s)
    BY <1>9, <2>1
  <2>4. b(s).pc = "connecting" /\ b(s).same
    BY <1>5, <2>1
  <2>5. Live(s)' /\ Bound(s)'
    BY <2>1, <2>3, <2>4 DEF Live, Bound
  <2>6. (/\ login[s].pc = "done" /\ restore[s].pc \in {"idle", "refreshing"}
         /\ ~suspended /\ s \notin purged /\ s \notin out /\ Owner[s] \notin deleted)'
    BY <1>2, <2>1, <2>2, <2>3
  <2> QED
    BY <2>1, <2>3, <2>4, <2>5, <2>6, StandingIsSafe
<1>14. ASSUME NEW s \in Sessions, s \notin due, s \notin down
       PROVE  Safe(s)'
  <2>1. Kept(s)
    BY <1>4, <1>9, <1>14 DEF Kept
  <2>2. Owner[s] \in gone => ~Live(s) /\ stored[s] = Absent
    BY <1>3, <1>14
  <2>3. Bound(s)'
    <3>1. SUFFICES ASSUME Live(s), Owner[s] \notin missed', rebind[s].pc = "idle"
                   PROVE  conn[s].role = RoleOf(now[Owner[s]])
      BY <1>2, <2>1 DEF Bound, Live, Kept
    <3>2. CASE Owner[s] \in users
      BY <1>14, <2>2, <3>1, <3>2
    <3>3. CASE Owner[s] \notin users
      <4>1. Owner[s] \notin missed /\ now[Owner[s]] = seen[Owner[s]]
        BY <1>2, <3>1, <3>3, OwnerType
      <4> QED
        BY <1>1, <3>1, <4>1 DEF Safe, Bound
    <3> QED
      BY <3>2, <3>3
  <2> QED
    BY <1>1, <1>2, <1>4, <2>1, <2>2, <2>3, KeptIsSafe
<1>15. \A s \in kick : s \in down
  BY DEF down
<1>16. \A s \in Sessions : Safe(s)'
  BY <1>12, <1>13, <1>14, <1>15
<1>17. Mirrored'
  BY <1>2 DEF Mirrored
<1> QED
  BY <1>11, <1>16, <1>17 DEF IInv

\* A User event reconciles that user, while the world is active.
LEMMA UserChangesKeeps ==
    ASSUME IInv, NEW u \in Users, NEW x \in RoleNames \cup {"gone"}, UserChanges(u, x)
    PROVE  IInv'
<1> DEFINE now == [foundry.role EXCEPT ![u] = x]
<1>1. Shapes /\ foundry.role \in [Users -> Roles]
  BY DEF IInv, Shapes
<1>2. now \in [Users -> Roles]
  BY <1>1 DEF Roles
<1>3. foundry' = [foundry EXCEPT !.role = now]
  BY DEF UserChanges
<1>4. foundry' \in [world : Worlds, role : [Users -> Roles]] /\ foundry'.role = now
  BY <1>1, <1>2, <1>3 DEF Shapes
<1>5. UNCHANGED <<life, world, login, suspended, purged, out>>
  BY DEF UserChanges
<1>6. CASE life = "active"
  <2>1. UserEvents({u}, {u} \cap {v \in Users : x = "gone"}, now)
    BY <1>6 DEF UserChanges
  <2>2. \A v \in Users \ {u} : now[v] = seen[v]
    BY <1>1, <1>6 DEF IInv, Mirrored
  <2>3. {u} \in SUBSET Users /\ {u} \cap {v \in Users : x = "gone"} \in SUBSET {u}
    OBVIOUS
  <2> HIDE DEF now
  <2> QED
    BY <1>2, <1>4, <1>5, <1>6, <2>1, <2>2, <2>3, UserEventsKeep
<1>7. CASE life # "active"
  <2>1. UNCHANGED <<seen, conn, stored, restore, rebind, clearing, deleted, missed>>
    BY <1>7 DEF UserChanges
  <2>2. \A s \in Sessions : Bound(s)'
    BY <1>5, <2>1 DEF IInv, Safe, Bound, Live
  <2>3. Mirrored'
    BY <1>5, <1>7 DEF Mirrored
  <2> QED
    BY <1>1, <1>4, <1>5, <2>1, <2>2, <2>3, WorldKeeps DEF Shapes, flows, flags
<1> QED
  BY <1>6, <1>7

\* A recovery reconciles every user that changed meanwhile.
LEMMA RecoveredKeeps == ASSUME IInv, Recovered PROVE IInv'
<1> DEFINE changed == {u \in Users : seen[u] # foundry.role[u]}
           gone    == {u \in changed : foundry.role[u] = "gone"}
<1>1. Shapes /\ foundry.role \in [Users -> Roles]
  BY DEF IInv, Shapes
<1>2. /\ life = "offline" /\ life' = "active" /\ UserEvents(changed, gone, foundry.role)
      /\ UNCHANGED <<world, foundry, login, suspended, events, purged, out>>
  BY DEF Recovered
<1>3. changed \in SUBSET Users /\ gone \in SUBSET changed
  OBVIOUS
<1>4. \A u \in Users \ changed : foundry.role[u] = seen[u]
  OBVIOUS
<1>5. foundry' \in [world : Worlds, role : [Users -> Roles]] /\ foundry'.role = foundry.role
  BY <1>1, <1>2 DEF Shapes
<1> HIDE DEF changed, gone
<1> QED
  BY <1>1, <1>2, <1>3, <1>4, <1>5, UserEventsKeep

-----------------------------------------------------------------------------
(* The invariant                                                           *)

\* The invariant holds at first.
LEMMA InitIInv == Init => IInv
<1> SUFFICES ASSUME Init
             PROVE  IInv
  OBVIOUS
<1>1. foundry \in [world : Worlds, role : [Users -> Roles]] /\ seen = foundry.role /\ world = foundry.world
  BY DEF Init, Roles, RoleNames
<1>2. Shapes
  BY <1>1, RecordTypes DEF Init, Shapes, Records
<1>3. ASSUME NEW s \in Sessions
      PROVE  Safe(s)
  BY DEF Init, Safe, Unregistered, Restoring, SameIsLive, Orphaned, PurgeHolds, SuspendHolds,
     DeleteHolds, LogoutHolds, Bound, Live, NoLogin, NoRestore, NoRebind
<1> QED
  BY <1>1, <1>2, <1>3 DEF IInv, Mirrored

\* Every step keeps it.
LEMMA NextIInv == IInv /\ [Next]_vars => IInv'
<1> SUFFICES ASSUME IInv, [Next]_vars
             PROVE  IInv'
  OBVIOUS
<1>1. ASSUME NEW s \in Sessions,
             \/ LoginBegin(s) \/ LoginReplaces(s) \/ LoginResolves(s) \/ LoginConnects(s)
             \/ LoginConnected(s) \/ LoginFails(s) \/ Logout(s) \/ ClearWakes(s)
      PROVE  IInv'
  BY <1>1, LoginBeginKeeps, LoginReplacesKeeps, LoginResolvesKeeps, LoginConnectsKeeps,
     LoginConnectedKeeps, LoginFailsKeeps, LogoutKeeps, ClearWakesKeeps
<1>2. ASSUME NEW s \in Sessions, RebindConnected(s) \/ RebindFails(s)
      PROVE  IInv'
  BY <1>2, RebindConnectedKeeps, RebindFailsKeeps
<1>3. ASSUME NEW s \in Sessions,
             \/ Request(s) \/ RestoreRetries(s) \/ RestoreExpires(s) \/ RestoreWaited(s)
             \/ RestoreConnected(s) \/ RestoreMisidentified(s) \/ RestoreFails(s)
      PROVE  IInv'
  BY <1>3, RequestKeeps, RestoreRetriesKeeps, RestoreExpiresKeeps, RestoreWaitedKeeps,
     RestoreConnectedKeeps, RestoreMisidentifiedKeeps, RestoreFailsKeeps
<1>4. ASSUME NEW u \in Users, NEW x \in RoleNames \cup {"gone"}, UserChanges(u, x)
      PROVE  IInv'
  BY <1>4, UserChangesKeeps
<1>5. ASSUME GoOffline \/ Recovered \/ EnterSetup \/ CloseWorld \/ Startup \/ Bootstrapped
      PROVE  IInv'
  BY <1>5, GoOfflineKeeps, RecoveredKeeps, EnterSetupKeeps, CloseWorldKeeps, StartupKeeps, BootstrappedKeeps
<1>6. ASSUME NEW w \in Worlds, SwitchWorld(w)
      PROVE  IInv'
  BY <1>6, SwitchWorldKeeps
<1>7. ASSUME Suspend \/ Restart
      PROVE  IInv'
  BY <1>7, SuspendKeeps, RestartKeeps
<1>8. ASSUME UNCHANGED vars
      PROVE  IInv'
  <2>1. Shapes' /\ Mirrored'
    BY <1>8 DEF IInv, Shapes, Mirrored, vars
  <2>2. ASSUME NEW s \in Sessions
        PROVE  Safe(s)'
    BY <1>8 DEF IInv, Safe, Unregistered, Restoring, SameIsLive, Orphaned, PurgeHolds, SuspendHolds,
       DeleteHolds, LogoutHolds, Bound, Current, Quiet, Live, vars
  <2> QED
    BY <2>1, <2>2 DEF IInv
<1> QED
  BY <1>1, <1>2, <1>3, <1>4, <1>5, <1>6, <1>7, <1>8 DEF Next

\* So it always holds.
LEMMA Invariance == Spec => []IInv
BY InitIInv, NextIInv, PTL DEF Spec

-----------------------------------------------------------------------------
(* The theorems                                                            *)

\* The types of the session service's state: connections, records, calls and promises.
THEOREM SessionTypes == Spec => []TypeOK
<1>1. IInv => TypeOK
  <2> SUFFICES ASSUME IInv
               PROVE  TypeOK
    OBVIOUS
  <2>1. Shapes
    BY DEF IInv
  <2>2. ASSUME NEW s \in Sessions
        PROVE  /\ login[s].pc \in LoginPcs /\ restore[s].pc \in RestorePcs
               /\ restore[s].tries \in 0..Attempts - 1 /\ rebind[s].pc \in {"idle", "connecting"}
    BY <2>1 DEF Shapes, Logins, Restores, Rebinds
  <2> QED
    BY <2>1, <2>2 DEF TypeOK, Shapes, Records, Roles, LoginPcs, RestorePcs, Connections
<1> QED
  BY <1>1, Invariance, PTL

\* A purge is final: no login, restoration or rebind that was in flight at the entry to
\* setup brings a session back, live or as a record.
THEOREM PurgesAreFinal == Spec => []PurgeIsFinal
<1>1. IInv => PurgeIsFinal
  BY DEF IInv, Shapes, Safe, PurgeHolds, Quiet, PurgeIsFinal
<1> QED
  BY <1>1, Invariance, PTL

\* Maintenance finds no connection, and none comes up while it runs.
THEOREM SuspensionsAreQuiet == Spec => []SuspensionIsQuiet
<1>1. IInv => SuspensionIsQuiet
  BY DEF IInv, Safe, SuspendHolds, Quiet, SuspensionIsQuiet
<1> QED
  BY <1>1, Invariance, PTL

\* A user that Foundry deleted keeps no live session, and no record whose removal is not due.
THEOREM DeletionsHold == Spec => []DeletedUsersAreGone
<1>1. IInv => DeletedUsersAreGone
  BY DEF IInv, Safe, DeleteHolds, DeletedUsersAreGone
<1> QED
  BY <1>1, Invariance, PTL

\* A logout is final.
THEOREM LogoutsHold == Spec => []LoggedOutStaysOut
<1>1. IInv => LoggedOutStaysOut
  BY DEF IInv, Shapes, Safe, LogoutHolds, LoggedOutStaysOut
<1> QED
  BY <1>1, Invariance, PTL

\* In an active world each session has the role of its user, or is being rebound to it.
THEOREM RolesFollow == Spec => []RolesAreReconciled
<1>1. IInv => RolesAreReconciled
  BY DEF IInv, Safe, Bound, RolesAreReconciled
<1> QED
  BY <1>1, Invariance, PTL

==============================================================================
