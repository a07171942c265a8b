------------------------------ MODULE BrowserLink ------------------------------
(***************************************************************************)
(* One browser tab and Core: the socket between them with its room and its *)
(* subscriptions (AppSocketGateway.ts, SystemStatusBroadcaster.ts), the    *)
(* link and its session in the tab (RealtimeContext.tsx,                   *)
(* SessionContext.tsx) and the list of actors it shows                     *)
(* (ActorCombatContext.tsx, coalescedFetch.ts).                            *)
(*                                                                         *)
(* The tab is one record and its handlers are operators from a state of it *)
(* to the next; React renders and runs its effects (Commit) before the tab *)
(* handles anything else.  Core's part is what the other modules show of   *)
(* it: whether the world is served, and which sessions live.               *)
(***************************************************************************)
EXTENDS Integers, Sequences

CONSTANTS
    MaxLogins,  \* bound on sessions, the one of an earlier visit included
    MaxEvents   \* bound on what users, administrators, Foundry and the network do

ASSUME MaxLoginsNat == MaxLogins \in Nat \ {0}
ASSUME MaxEventsNat == MaxEvents \in Nat

VARIABLES
    core,    \* the world, the content of its list of actors, the sessions
    sock,    \* Core's end of the tab's socket
    wire,    \* from Core to the tab, in order
    tab,     \* the tab, see Opened
    unheard, \* history: a change reached no subscription of a connected browser
    events   \* events so far

vars == <<core, sock, wire, tab, unheard, events>>

Sessions == 1..MaxLogins
Nobody   == 0

\* down: offline, starting, in setup or closed.  refresh: the gate is closed by a context refresh.
Worlds == {"ready", "refresh", "down"}
Links  == {"connecting", "checking", "ready", "guest", "disconnected", "unavailable"}
Asked  == {"none", "sent", "done"}

NoCheck == [pc |-> "none", by |-> Nobody, answer |-> "none"]

\* late: history, a read began after the clean-up of a logout.  gap: history, the last read failed.
NoList  == [by |-> Nobody, shown |-> -1, late |-> FALSE, gap |-> FALSE,
            pc |-> "none", asker |-> Nobody, answer |-> -1, queued |-> FALSE]

NoSock  == [phase |-> "none", by |-> Nobody, auth |-> FALSE,
            attached |-> FALSE, deferred |-> FALSE, behind |-> FALSE]

\* The page as it is loaded, with the cookie the browser holds.
Opened(cookie) ==
    [ cookie |-> cookie, token |-> FALSE, logout |-> "none",
      conn |-> "dialing",      \* the socket: idle, dialing (connecting or reconnecting), up
      link |-> "connecting",   \* linkState
      validated |-> FALSE, worldReady |-> FALSE, audience |-> "unknown",
      guest |-> FALSE,         \* guestConfirmed
      rehandshake |-> FALSE,   \* deliberateRehandshake
      unavailable |-> FALSE,
      cool |-> TRUE,           \* five seconds have passed since lastCheckAt
      check |-> NoCheck,       \* the verification of this connection in flight
      list |-> NoList ]

\* A page is opened with the cookie of an earlier visit, or with none.
Init ==
    /\ core \in [world : {"ready"}, truth : {0}, sess : {[s \in Sessions |-> IF s = 1 THEN "live" ELSE "none"]}]
    /\ sock = NoSock /\ wire = <<>>
    /\ tab \in {Opened(Nobody), Opened(1)}
    /\ unheard = FALSE /\ events = 0

-----------------------------------------------------------------------------
(* The tab                                                                 *)

\* socket.disconnect: the disconnect handler runs if it was connected.
Hang(t) ==
    IF t.conn = "up" /\ ~t.unavailable
    THEN [t EXCEPT !.conn = "idle", !.validated = FALSE, !.worldReady = FALSE, !.link = "disconnected"]
    ELSE [t EXCEPT !.conn = "idle"]

Redial(t) == [Hang(t) EXCEPT !.conn = "redial"]   \* socket.disconnect().connect()

GiveUp(t) ==
    IF t.unavailable THEN t
    ELSE [t EXCEPT !.unavailable = TRUE, !.link = "unavailable", !.conn = "idle"]

\* verifyCurrentCookie
Verify(t) ==
    IF t.unavailable \/ t.logout # "none" \/ t.guest \/ t.conn # "up" \/ t.check.pc # "none" THEN t
    ELSE [t EXCEPT !.check = [pc |-> "sent", by |-> t.cookie, answer |-> "none"], !.cool = FALSE]

\* finishAuthorization: a cookie restored after the handshake needs one new handshake.
Finish(t) ==
    IF t.unavailable \/ t.logout # "none" \/ ~t.validated \/ ~t.worldReady \/ t.conn # "up" THEN t
    ELSE CASE t.audience = "authenticated" -> [t EXCEPT !.link = "ready", !.rehandshake = FALSE]
           [] t.audience = "public" /\ t.rehandshake -> GiveUp(t)
           [] t.audience = "public" /\ ~t.rehandshake -> Redial([t EXCEPT !.rehandshake = TRUE])
           [] OTHER -> t

ForgetTokenOnly(t) == [t EXCEPT !.token = FALSE]   \* Fault: the reads of the session are not retired

\* invalidateLocalSession with its clean-up: the epoch of reads moves, so those in flight end unseen.
Forget(t) == [t EXCEPT !.token = FALSE, !.list = NoList]

SendRead(t) ==
    [t EXCEPT !.list.pc = "sent", !.list.asker = t.cookie,
              !.list.late = @ \/ t.logout # "none"]

FetchShared(t) ==   \* Fault: a request during a read shares its answer
    IF ~t.token \/ t.link # "ready" \/ t.list.pc # "none" THEN t ELSE SendRead(t)

\* fetchActors: a request during a read queues one more.
Fetch(t) ==
    CASE ~t.token \/ t.link # "ready" -> t
      [] t.token /\ t.link = "ready" /\ t.list.pc # "none" -> [t EXCEPT !.list.queued = TRUE]
      [] OTHER -> SendRead(t)

Dashboard(t) == t.token /\ t.link = "ready" /\ t.logout = "none"

SessionChangedByLogin(t) ==   \* Fault: a marker that goes away leaves the socket as it is
    IF ~t.token \/ t.validated THEN t
    ELSE Verify([t EXCEPT !.guest = FALSE, !.unavailable = FALSE, !.conn = IF @ = "idle" THEN "dialing" ELSE @])

\* sessionChangedRef
SessionChanged(t) ==
    LET u == [t EXCEPT !.guest = FALSE, !.unavailable = FALSE]
    IN CASE t.token /\ t.validated -> t
         [] ~t.token -> Redial([u EXCEPT !.validated = FALSE, !.rehandshake = FALSE])
         [] OTHER -> Verify([u EXCEPT !.conn = IF @ = "idle" THEN "dialing" ELSE @])

\* The effects of a change from tab to t: on the marker, and on a dashboard that becomes ready.
Commit(t) ==
    LET u == IF t.token # tab.token THEN SessionChanged(t) ELSE t
    IN IF Dashboard(u) /\ ~Dashboard(tab) THEN Fetch(u) ELSE u

\* The tab becomes t; the socket that it closes is gone at Core.  rest is what is left on the wire.
Become(t, rest) ==
    \E v \in {t} : \E u \in {Commit(v)} :
       /\ tab' = [u EXCEPT !.conn = IF @ = "redial" THEN "dialing" ELSE @]
       /\ IF u.conn \in {"redial", "idle"}
          THEN sock' = NoSock /\ wire' = <<>>
          ELSE UNCHANGED sock /\ wire' = rest

-----------------------------------------------------------------------------
(* Messages to the tab                                                     *)

Status(s, world) == [kind |-> "status", auth |-> s.auth, ready |-> world = "ready"]
Signal(kind)     == [kind |-> kind, auth |-> FALSE, ready |-> FALSE]

Connected(t) ==
    Verify([t EXCEPT !.conn = "up", !.check = NoCheck, !.audience = "unknown", !.validated = FALSE,
                     !.worldReady = FALSE, !.guest = FALSE, !.link = "checking"])

StatusHeard(t, m) ==
    LET a == [t EXCEPT !.audience = IF m.auth THEN "authenticated" ELSE "public", !.worldReady = m.ready]
        b == IF a.token /\ ~a.worldReady THEN [a EXCEPT !.validated = FALSE, !.link = "checking"] ELSE a
        c == IF b.validated THEN Finish(b) ELSE b
    IN IF ~c.validated /\ c.worldReady /\ c.cool THEN Verify(c) ELSE c

Invalidated(t) ==
    IF t.logout # "none" THEN [t EXCEPT !.validated = FALSE]
    ELSE [Forget(Hang(t)) EXCEPT !.link = "guest"]

Handled(t, m) ==
    CASE m.kind = "connect"     -> Connected(t)
      [] m.kind = "status"      -> StatusHeard(t, m)
      [] m.kind = "changed"     -> Fetch(t)
      [] m.kind = "invalidated" -> Invalidated(t)

Receive ==
    /\ wire # <<>> /\ ~tab.unavailable
    /\ Become(Handled(tab, Head(wire)), Tail(wire))
    /\ UNCHANGED <<core, unheard, events>>

-----------------------------------------------------------------------------
(* Answers of Core to the tab's requests                                   *)

Alive(s) == s # Nobody /\ core.sess[s] \in {"live", "asleep"}

\* authenticateSession restores a session that has no connection.
Awake(s) == [core EXCEPT !.sess[s] = "live"]

CheckServed ==
    /\ tab.check.pc = "sent"
    /\ LET by == tab.check.by
       IN \/ /\ core.world = "ready" /\ Alive(by)
             /\ tab' = [tab EXCEPT !.check.pc = "done", !.check.answer = "valid"]
             /\ core' = Awake(by)
          \/ /\ core.world = "ready" /\ ~Alive(by)
             /\ tab' = [tab EXCEPT !.check.pc = "done", !.check.answer = "401"]
             /\ UNCHANGED core
          \/ /\ core.world # "ready"
             /\ tab' = [tab EXCEPT !.check.pc = "done", !.check.answer = "503"]
             /\ UNCHANGED core
    /\ UNCHANGED <<sock, wire, unheard, events>>

Checked(t) ==
    LET answer == t.check.answer
        u      == [t EXCEPT !.check = NoCheck]
    IN CASE u.unavailable -> u
         [] ~u.unavailable /\ answer = "valid" ->
                IF u.conn # "up" THEN u ELSE Finish([u EXCEPT !.validated = TRUE, !.token = TRUE])
         [] ~u.unavailable /\ answer = "401" ->
                LET h == IF u.token \/ u.audience = "authenticated" THEN Hang(u) ELSE u
                    f == IF h.token THEN Forget(h) ELSE [h EXCEPT !.guest = TRUE]
                IN [f EXCEPT !.link = "guest"]
         [] OTHER -> [u EXCEPT !.link = "checking"]

CheckArrives ==
    /\ tab.check.pc = "done"
    /\ Become(Checked(tab), wire)
    /\ UNCHANGED <<core, unheard, events>>

ListServed ==
    /\ tab.list.pc = "sent"
    /\ LET by == tab.list.asker
       IN \/ /\ core.world = "ready" /\ Alive(by)
             /\ tab' = [tab EXCEPT !.list.pc = "done", !.list.answer = core.truth]
             /\ core' = Awake(by)
          \/ /\ core.world = "ready" /\ ~Alive(by)
             /\ tab' = [tab EXCEPT !.list.pc = "done", !.list.answer = -2]    \* 401
             /\ UNCHANGED core
          \/ /\ core.world # "ready"
             /\ tab' = [tab EXCEPT !.list.pc = "done", !.list.answer = -1]    \* 503
             /\ UNCHANGED core
    /\ UNCHANGED <<sock, wire, unheard, events>>

\* One pass of the coalesced read ends: with content, unauthorized, or with an error that is logged.
Read(t) ==
    LET l == t.list
        u == CASE l.answer >= 0 -> [t EXCEPT !.list.by = l.asker, !.list.shown = l.answer, !.list.gap = FALSE]
               [] l.answer = -2 -> Forget(t)
               [] OTHER -> t
        v == [u EXCEPT !.list.pc = "none", !.list.queued = FALSE]
    IN IF u.list.queued THEN SendRead(v) ELSE v

ListArrives ==
    /\ tab.list.pc = "done"
    /\ Become(Read(tab), wire)
    /\ unheard' = (unheard /\ tab.list.answer # core.truth)
    /\ UNCHANGED <<core, events>>

-----------------------------------------------------------------------------
(* Core's end of the socket                                                *)

\* The middleware: who the cookie belongs to when the handshake is made.
Admit ==
    /\ tab.conn = "dialing" /\ sock.phase = "none"
    /\ LET by == tab.cookie
       IN \/ /\ Alive(by) /\ (core.sess[by] = "live" \/ core.world # "down")
             /\ core' = Awake(by)
             /\ sock' = [NoSock EXCEPT !.phase = "admitted", !.by = by, !.auth = TRUE]
          \/ /\ Alive(by) => core.world = "down" \/ core.sess[by] = "asleep"
             /\ sock' = [NoSock EXCEPT !.phase = "admitted"]
             /\ UNCHANGED core
    /\ UNCHANGED <<wire, tab, unheard, events>>

\* retireSocketAuthority
Retired(s) == [NoSock EXCEPT !.phase = s.phase]

\* The connection handler up to its await: subscribed, then reconciled.
Welcomed(s) ==
    IF s.auth /\ core.sess[s.by] # "live" THEN Retired([s EXCEPT !.phase = "status"])
    ELSE [s EXCEPT !.phase = "status"]

Welcome ==
    /\ sock.phase = "admitted"
    /\ sock' = Welcomed(sock)
    /\ wire' = wire \o <<Signal("connect")>>
                    \o IF sock.auth /\ ~sock'.auth THEN <<Signal("invalidated")>> ELSE <<>>
    /\ UNCHANGED <<core, tab, unheard, events>>

\* The rest of it: attachWorldBackedListeners, at once or at world:ready.
Greeted(s) ==
    [s EXCEPT !.phase = "open",
              !.attached = s.auth /\ core.world = "ready",
              !.deferred = s.auth /\ core.world # "ready",
              !.behind   = s.auth /\ core.world = "refresh"]

Greet ==
    /\ sock.phase = "status"
    /\ sock' = Greeted(sock)
    /\ wire' = Append(wire, Status(sock, core.world))
    /\ UNCHANGED <<core, tab, unheard, events>>

Listening == sock.phase \in {"status", "open"}

\* broadcastSystemStatus
Broadcast(s, world) == IF Listening THEN Append(wire, Status(s, world)) ELSE wire

Poll ==
    /\ Listening /\ wire = <<>>
    /\ wire' = Broadcast(sock, core.world)
    /\ UNCHANGED <<core, sock, tab, unheard, events>>

FiveSeconds ==
    /\ ~tab.cool
    /\ tab' = [tab EXCEPT !.cool = TRUE]
    /\ UNCHANGED <<core, sock, wire, unheard, events>>

-----------------------------------------------------------------------------
(* The world                                                               *)

Event == events < MaxEvents /\ events' = events + 1

WorldIs(world, s) ==
    /\ core' = [core EXCEPT !.world = world]
    /\ sock' = s
    /\ wire' = Broadcast(s, world)
    /\ UNCHANGED <<tab, unheard>>

\* The handlers of world:ready.
AttachedAtReady(s) ==
    [s EXCEPT !.attached = @ \/ s.deferred, !.deferred = FALSE, !.behind = FALSE]

\* A bootstrap or a recovery completes: world:ready.
WorldReady ==
    /\ core.world = "down"
    /\ WorldIs("ready", AttachedAtReady(sock))
    /\ UNCHANGED events

WorldDown ==
    /\ core.world # "down" /\ Event
    /\ WorldIs("down", sock)

RefreshBegins ==
    /\ core.world = "ready" /\ Event
    /\ WorldIs("refresh", sock)

\* The gate reopens without world:ready.
RefreshEnds ==
    /\ core.world = "refresh"
    /\ WorldIs("ready", sock)
    /\ UNCHANGED events

\* emitWorldBackedEvent: forwarded by a subscription, while the world is served.
Change ==
    /\ Event
    /\ core' = [core EXCEPT !.truth = @ + 1]
    /\ wire' = IF sock.attached /\ core.world = "ready" THEN Append(wire, Signal("changed")) ELSE wire
    /\ unheard' = (unheard \/ (sock.auth /\ core.world = "ready" /\ (sock.phase = "status" \/ sock.behind)))
    /\ UNCHANGED <<sock, tab>>

-----------------------------------------------------------------------------
(* Sessions and the network                                                *)

\* emitSessionInvalidated reaches the sockets whose connection handler has subscribed.
Invalidate(s) ==
    /\ core' = [core EXCEPT !.sess[s] = "gone"]
    /\ IF Listening /\ sock.auth /\ sock.by = s
       THEN sock' = Retired(sock) /\ wire' = Append(wire, Signal("invalidated"))
       ELSE UNCHANGED <<sock, wire>>

Revoke ==
    /\ Event
    /\ \E s \in Sessions : Alive(s) /\ Invalidate(s)
    /\ UNCHANGED <<tab, unheard>>

\* handleLogin: a new session, its cookie and the marker.
Login ==
    /\ Event
    /\ ~tab.token /\ tab.link = "guest" /\ tab.logout = "none" /\ core.world = "ready"
    /\ \E s \in Sessions :
          /\ core.sess[s] = "none" /\ \A r \in 1..(s - 1) : core.sess[r] # "none"
          /\ core' = [core EXCEPT !.sess[s] = "live"]
          /\ Become([tab EXCEPT !.cookie = s, !.token = TRUE], wire)
    /\ UNCHANGED unheard

\* handleLogout up to its request: the caches go, the marker stays.
Logout ==
    /\ Event
    /\ Dashboard(tab)
    /\ tab' = [tab EXCEPT !.logout = "sent", !.list = NoList]
    /\ UNCHANGED <<core, sock, wire, unheard>>

LogoutServed ==
    /\ tab.logout = "sent"
    /\ tab' = [tab EXCEPT !.logout = "served"]
    /\ Invalidate(tab.cookie)
    /\ UNCHANGED <<unheard, events>>

LogoutEnds(cookie) == Become([tab EXCEPT !.logout = "none", !.token = FALSE, !.cookie = cookie], wire)

LogoutAnswered ==
    /\ tab.logout = "served"
    /\ LogoutEnds(Nobody)
    /\ UNCHANGED <<core, unheard, events>>

\* The request or its answer is lost.
LogoutLost ==
    /\ Event
    /\ tab.logout # "none"
    /\ LogoutEnds(tab.cookie)
    /\ UNCHANGED <<core, unheard>>

\* A request for the identity or the list fails in the network.
RequestFails ==
    /\ Event
    /\ \/ tab.check.pc # "none" /\ Become(Checked([tab EXCEPT !.check.answer = "503"]), wire)
       \/ tab.list.pc # "none" /\ Become(Read([tab EXCEPT !.list.answer = -1, !.list.gap = TRUE]), wire)
    /\ UNCHANGED <<core, unheard>>

\* The transport closes under the tab, which reconnects by itself.
Dropped(t) == [Hang(t) EXCEPT !.conn = "dialing"]

Drop ==
    /\ Event
    /\ sock.phase # "none"
    /\ tab' = Dropped(tab)
    /\ sock' = NoSock /\ wire' = <<>>
    /\ UNCHANGED <<core, unheard>>

\* Core restarts: what was connected is restored from the session store.
Restart ==
    /\ Event
    /\ core' = [core EXCEPT !.world = "down", !.sess = [s \in Sessions |-> IF @[s] = "live" THEN "asleep" ELSE @[s]]]
    /\ tab' = IF tab.conn = "idle" THEN tab ELSE Dropped(tab)
    /\ sock' = NoSock /\ wire' = <<>>
    /\ UNCHANGED unheard

\* reconnect_failed: the budget of attempts is spent.
BudgetSpent ==
    /\ Event
    /\ tab.conn = "dialing" /\ sock.phase = "none"
    /\ Become(GiveUp(tab), wire)
    /\ UNCHANGED <<core, unheard>>

Reload ==
    /\ Event
    /\ tab.logout = "none"
    /\ tab' = Opened(tab.cookie)
    /\ sock' = NoSock /\ wire' = <<>>
    /\ UNCHANGED <<core, unheard>>

-----------------------------------------------------------------------------
Answers == CheckServed \/ CheckArrives \/ ListServed \/ ListArrives \/ LogoutServed \/ LogoutAnswered

Next ==
    \/ Receive \/ Answers
    \/ Admit \/ Welcome \/ Greet \/ Poll \/ FiveSeconds
    \/ WorldReady \/ WorldDown \/ RefreshBegins \/ RefreshEnds \/ Change
    \/ Revoke \/ Login \/ Logout \/ LogoutLost
    \/ RequestFails \/ Drop \/ Restart \/ BudgetSpent \/ Reload

Spec == Init /\ [][Next]_vars

\* What goes on by itself: requests are answered, handshakes are made, timers fire, and Core
\* finishes what it does to the world.
Progress == Answers \/ Admit \/ Welcome \/ Greet \/ FiveSeconds \/ WorldReady \/ RefreshEnds

\* Statuses are sent every four seconds and arrive.
FairSpec ==
    /\ Spec
    /\ WF_vars(Receive \/ Poll)
    /\ WF_vars(Progress)

-----------------------------------------------------------------------------
TypeOK ==
    /\ core \in [world : Worlds, truth : 0..MaxEvents, sess : [Sessions -> {"none", "live", "asleep", "gone"}]]
    /\ sock \in [phase : {"none", "admitted", "status", "open"}, by : 0..MaxLogins, auth : BOOLEAN,
                 attached : BOOLEAN, deferred : BOOLEAN, behind : BOOLEAN]
    /\ wire \in Seq([kind : {"connect", "status", "changed", "invalidated"}, auth : BOOLEAN, ready : BOOLEAN])
    /\ tab.cookie \in 0..MaxLogins /\ tab.link \in Links /\ tab.conn \in {"idle", "dialing", "up"}
    /\ tab.check.pc \in Asked /\ tab.list.pc \in Asked
    /\ unheard \in BOOLEAN /\ events \in 0..MaxEvents

\* Nothing is on its way to a dashboard of a served world.
Settled ==
    /\ Dashboard(tab) /\ core.world = "ready"
    /\ wire = <<>> /\ tab.list.pc = "none" /\ tab.check.pc = "none"

\* A settled dashboard shows the list of actors as Core has it: after closings of the gate that drop
\* events, lost sockets, restarts and reads that overlap changes.  Excepted are reads that failed
\* (gap) and changes that no subscription heard because the socket was being greeted or waits behind
\* a refresh (unheard).  (RealtimeContext, FoundryContext, createCoalescedFetch.)
ReadyShowsTheWorld ==
    Settled /\ ~unheard /\ ~tab.list.gap => tab.list.shown = core.truth

SocketsAreLive ==
    /\ Listening /\ sock.auth => core.sess[sock.by] = "live"
    /\ sock.attached \/ sock.deferred => sock.auth /\ Listening

ListsAreOwn ==
    Dashboard(tab) /\ tab.list.shown >= 0 /\ ~tab.list.late => tab.list.by = tab.cookie

\* Nothing outlives its session.  A socket is in the authenticated room, subscribed or waiting for
\* world:ready only while its session lives, whatever falls between the middleware, the connection
\* handler and its await (retireSocketAuthority).  A dashboard never shows what was read for another
\* session: no answer that is late by a logout, a revocation or a login is let in (requestEpochRef);
\* excepted are reads that an event starts while a logout is pending, after its clean-up (late).
NothingOutlivesItsSession == SocketsAreLive /\ ListsAreOwn

GoodCookie == core.world = "ready" /\ Alive(tab.cookie) /\ tab.logout = "none"

\* A tab whose cookie is good and whose Core serves comes to a ready link, or says that it is
\* unavailable, whatever happened before: it is never left checking, disconnected or a guest
\* (verifyCurrentCookie, finishAuthorization, sessionChangedRef).
LinkSettles == <>[]GoodCookie => <>[](tab.link \in {"ready", "unavailable"})
================================================================================
