--------------------------- MODULE BrowserLinkProofs ---------------------------
(***************************************************************************)
(* Proofs about BrowserLink.                                               *)
(*                                                                         *)
(* The tab's handlers are operators from a state of the tab to the next,   *)
(* so the proof has two layers.  The first is about the handlers alone:    *)
(* each keeps Tidy, what a tab may look like between two of its events,    *)
(* but for the token, whose change only Commit settles.  The second is     *)
(* about the steps: what the socket, the wire and Core add to it.          *)
(***************************************************************************)
EXTENDS BrowserLink, TLAPS

-----------------------------------------------------------------------------
(* What a tab may look like                                                *)

Checks == [pc : Asked, by : 0..MaxLogins, answer : {"none", "valid", "401", "503"}]

Lists  == [by : 0..MaxLogins, shown : Int, late : BOOLEAN, gap : BOOLEAN,
           pc : Asked, asker : 0..MaxLogins, answer : {-2, -1} \cup Nat, queued : BOOLEAN]

Tabs   == [cookie : 0..MaxLogins, token : BOOLEAN, logout : {"none", "sent", "served"},
           conn : {"idle", "dialing", "up", "redial"}, link : Links,
           validated : BOOLEAN, worldReady : BOOLEAN, audience : {"unknown", "public", "authenticated"},
           guest : BOOLEAN, rehandshake : BOOLEAN, unavailable : BOOLEAN, cool : BOOLEAN,
           check : Checks, list : Lists]

Sockets  == [phase : {"none", "admitted", "status", "open"}, by : 0..MaxLogins, auth : BOOLEAN,
             attached : BOOLEAN, deferred : BOOLEAN, behind : BOOLEAN]

Cores    == [world : Worlds, truth : Nat, sess : [Sessions -> {"none", "live", "asleep", "gone"}]]

Messages == [kind : {"connect", "status", "changed", "invalidated"}, auth : BOOLEAN, ready : BOOLEAN]

\* The link.
Joined(t) ==
    /\ t.link = "ready" => t.conn = "up" /\ t.token /\ ~t.unavailable
    /\ t.unavailable => t.conn # "up"
    /\ ~t.token => ~t.validated

\* What a ready link has heard, while no logout is pending.
Heard(t) ==
    t.link = "ready" /\ t.logout = "none" => t.validated /\ t.worldReady /\ t.audience = "authenticated"

\* A verification in flight asks about the cookie.
Asks(t) ==
    /\ t.check.pc # "none" /\ (t.conn = "up" \/ t.logout # "none") => t.check.by = t.cookie
    /\ t.conn = "up" /\ t.link = "guest" /\ ~t.token => t.guest /\ t.check.pc = "none"
    /\ t.conn = "up" /\ t.logout # "none" /\ ~t.token => t.check.pc = "none" /\ t.audience # "authenticated"

\* A list, unless it is late, is that of the cookie.
Owns(t) ==
    /\ t.logout # "none" /\ t.list.pc # "none" => t.list.asker = t.cookie
    /\ ~t.list.late =>
          /\ t.list.pc # "none" => t.token /\ t.logout = "none" /\ t.list.asker = t.cookie
          /\ t.list.shown >= 0  => t.token /\ t.logout = "none" /\ t.list.by = t.cookie

Steady(t) == Joined(t) /\ Asks(t) /\ Owns(t)
Tidy(t)   == Steady(t) /\ Heard(t)

-----------------------------------------------------------------------------
(* What is on the wire                                                     *)

Closing(m) == m.kind = "status" /\ ~m.ready

Downs(w) == \E i \in 1..Len(w) : Closing(w[i])
Outs(w)  == \E i \in 1..Len(w) : w[i].kind = "invalidated"
Calls(w) == \E i \in 1..Len(w) : w[i].kind = "changed"

\* A status that says the world is ready is true, or followed by one that says it is not.
Vouched(w, world) ==
    \A i \in 1..Len(w) : w[i].kind = "status" /\ w[i].ready =>
        world = "ready" \/ \E j \in 1..Len(w) : j > i /\ Closing(w[j])

\* A status of an authenticated socket is followed by its revocation, if there was one.
Trusted(w, auth) ==
    \A i \in 1..Len(w) : w[i].kind = "status" /\ w[i].auth =>
        auth \/ \E j \in 1..Len(w) : j > i /\ w[j].kind = "invalidated"

Public(w) == \A i \in 1..Len(w) : ~w[i].auth

-----------------------------------------------------------------------------
(* The invariant                                                           *)

Types ==
    /\ core \in Cores
    /\ core.truth <= events
    /\ sock \in Sockets
    /\ wire \in Seq(Messages)
    /\ tab \in Tabs /\ tab.conn # "redial"
    /\ unheard \in BOOLEAN /\ events \in 0..MaxEvents

Used(c, s) == s = Nobody \/ c.sess[s] # "none"
Dead(c, s) == s = Nobody \/ c.sess[s] = "gone"

\* Whom a tab speaks for, and what it was answered.
Knows(c, t) ==
    /\ Used(c, t.cookie)
    /\ t.check.pc # "none" => Used(c, t.check.by)
    /\ t.list.pc # "none" => Used(c, t.list.asker)
    /\ t.check.pc = "done" /\ t.check.answer = "401" => Dead(c, t.check.by)
    /\ t.list.pc = "done" /\ t.list.answer = -2 => Dead(c, t.list.asker)

\* A marker that goes away during a logout goes away with its session.
Leaves(c, s, w, t) ==
    t.logout # "none" /\ ~t.token => Dead(c, t.cookie) /\ ~s.auth /\ Public(w)

\* What a tab believes of its socket is true, or what corrects it is on its way.
Believes(c, s, w, t) ==
    /\ t.conn = "up" /\ t.worldReady => c.world = "ready" \/ Downs(w)
    /\ t.conn = "up" /\ t.logout = "none" /\ t.audience = "authenticated" => s.auth \/ Outs(w)

Wired ==
    /\ tab.conn = "up" => Listening
    /\ wire # <<>> => Listening
    /\ sock.auth => sock.by # Nobody
    /\ SocketsAreLive

\* A socket that is greeted hears what changes, or is known not to.
Subscribed ==
    sock.auth /\ sock.phase = "open" /\ ~sock.attached =>
        sock.deferred /\ (sock.behind \/ core.world = "down")

\* A list shows what Core has, or will once the reads that are asked for end.
Fresh(l, truth) ==
    CASE l.pc = "none" -> l.shown = truth \/ l.gap
      [] l.pc = "done" -> \/ l.queued \/ l.answer = truth \/ l.answer = -2
                          \/ l.answer = -1 /\ (l.shown = truth \/ l.gap)
      [] OTHER -> TRUE

Informed ==
    Dashboard(tab) /\ ~unheard =>
        Fresh(tab.list, core.truth) \/ Downs(wire) \/ Outs(wire) \/ Calls(wire)

IInv ==
    /\ Types /\ Tidy(tab) /\ Wired /\ Subscribed
    /\ Vouched(wire, core.world) /\ Trusted(wire, sock.auth)
    /\ Knows(core, tab) /\ Leaves(core, sock, wire, tab) /\ Believes(core, sock, wire, tab)
    /\ Informed

-----------------------------------------------------------------------------
(* The handlers of the link                                                *)

\* A tab without requests is one.
LEMMA Blank ==
    /\ NoCheck \in Checks /\ NoCheck.pc = "none"
    /\ NoList \in Lists /\ NoList.pc = "none" /\ NoList.shown = -1 /\ ~NoList.late
<1>1. 0 \in 0..MaxLogins
  BY MaxLoginsNat
<1>2. NoCheck \in Checks /\ NoCheck.pc = "none"
  BY <1>1 DEF NoCheck, Checks, Asked, Nobody
<1>3. NoList \in Lists /\ NoList.pc = "none" /\ NoList.shown = -1 /\ ~NoList.late
  BY <1>1 DEF NoList, Lists, Asked, Nobody
<1> QED
  BY <1>2, <1>3

\* u is t after something happened to its link only.
Linked(t, u) ==
    /\ u.cookie = t.cookie /\ u.token = t.token /\ u.logout = t.logout
    /\ u.check = t.check \/ (u.check.pc = "sent" /\ u.check.by = t.cookie)
    /\ u.conn = "up" => t.conn = "up" /\ u.worldReady = t.worldReady /\ u.audience = t.audience

Via(t, u) == Linked(t, u) /\ u.list = t.list

\* u is t, after its socket was closed.
Shut(t, u) ==
    /\ u.cookie = t.cookie /\ u.token = t.token /\ u.logout = t.logout /\ u.list = t.list
    /\ u.check = t.check /\ u.conn # "up" /\ u.audience = t.audience
    /\ u.validated => t.validated
    /\ u.link = t.link \/ u.link # "ready"
    /\ t.conn = "up" => u.link # "ready"

\* A closed socket leaves a tidy tab tidy.
LEMMA ShutIsTidy ==
    ASSUME NEW t, NEW u, Steady(t), Shut(t, u)
    PROVE  Tidy(u) /\ Via(t, u) /\ u.link # "ready"
<1>1. u.link # "ready"
  BY DEF Tidy, Steady, Joined, Shut
<1>2. Joined(u) /\ Heard(u)
  BY <1>1 DEF Tidy, Steady, Joined, Heard, Shut
<1>3. Asks(u)
  BY DEF Steady, Asks, Shut
<1>4. Owns(u)
  BY DEF Steady, Owns, Shut
<1> QED
  BY <1>1, <1>2, <1>3, <1>4 DEF Tidy, Steady, Via, Linked, Shut

\* Hang closes the socket; an unavailable tab has none.
LEMMA HangShuts ==
    ASSUME NEW t \in Tabs
    PROVE  /\ Hang(t) \in Tabs
           /\ Hang(t).conn = "idle"
           /\ (t.unavailable => t.conn # "up") => Shut(t, Hang(t))
           /\ Hang(t).unavailable = t.unavailable
           /\ ~t.validated => ~Hang(t).validated
<1>1. CASE t.conn = "up" /\ ~t.unavailable
  <2>1. Hang(t) = [t EXCEPT !.conn = "idle", !.validated = FALSE, !.worldReady = FALSE, !.link = "disconnected"]
    BY <1>1 DEF Hang
  <2>2. Hang(t) \in Tabs
    BY <2>1, ZenonT(60) DEF Tabs, Links
  <2> QED
    BY <1>1, <2>1, <2>2 DEF Tabs, Shut
<1>2. CASE ~(t.conn = "up" /\ ~t.unavailable)
  <2>1. Hang(t) = [t EXCEPT !.conn = "idle"]
    BY <1>2 DEF Hang
  <2>2. Hang(t) \in Tabs
    BY <2>1, ZenonT(60) DEF Tabs
  <2> QED
    BY <1>2, <2>1, <2>2 DEF Tabs, Shut
<1> QED
  BY <1>1, <1>2

\* So does Redial, which opens another.
LEMMA RedialShuts ==
    ASSUME NEW t \in Tabs
    PROVE  /\ Redial(t) \in Tabs
           /\ Redial(t).conn = "redial"
           /\ (t.unavailable => t.conn # "up") => Shut(t, Redial(t))
           /\ Redial(t).unavailable = t.unavailable
           /\ ~t.validated => ~Redial(t).validated
<1> DEFINE h == Hang(t)
<1>1. /\ h \in Tabs
      /\ (t.unavailable => t.conn # "up") => Shut(t, h)
      /\ h.unavailable = t.unavailable
      /\ ~t.validated => ~h.validated
  BY HangShuts
<1>2. Redial(t) = [h EXCEPT !.conn = "redial"]
  BY DEF Redial
<1> HIDE DEF h
<1>3. Redial(t) \in Tabs
  BY <1>1, <1>2, ZenonT(60) DEF Tabs
<1> QED
  BY <1>1, <1>2, <1>3 DEF Tabs, Shut

\* So does GiveUp.
LEMMA GiveUpShuts ==
    ASSUME NEW t \in Tabs, Joined(t)
    PROVE  GiveUp(t) \in Tabs /\ Shut(t, GiveUp(t))
<1>1. CASE t.unavailable
  BY <1>1 DEF GiveUp, Shut, Joined
<1>2. CASE ~t.unavailable
  <2>1. GiveUp(t) = [t EXCEPT !.unavailable = TRUE, !.link = "unavailable", !.conn = "idle"]
    BY <1>2 DEF GiveUp
  <2>2. GiveUp(t) \in Tabs
    BY <2>1, ZenonT(60) DEF Tabs, Links
  <2> QED
    BY <2>1, <2>2 DEF Tabs, Shut
<1> QED
  BY <1>1, <1>2

\* A verification asks about the cookie, and not of a guest nor during a logout.
LEMMA VerifyKeeps ==
    ASSUME NEW t \in Tabs
    PROVE  /\ Verify(t) \in Tabs /\ Via(t, Verify(t))
           /\ Tidy(t) => Tidy(Verify(t))
           /\ Verify(t).link = t.link /\ Verify(t).conn = t.conn
<1> DEFINE still == t.unavailable \/ t.logout # "none" \/ t.guest \/ t.conn # "up" \/ t.check.pc # "none"
<1>1. CASE still
  BY <1>1 DEF Verify, Via, Linked
<1>2. CASE ~still
  <2>1. Verify(t) = [t EXCEPT !.check = [pc |-> "sent", by |-> t.cookie, answer |-> "none"], !.cool = FALSE]
    BY <1>2 DEF Verify
  <2>2. [pc |-> "sent", by |-> t.cookie, answer |-> "none"] \in Checks
    BY DEF Checks, Asked, Tabs
  <2>3. Verify(t) \in Tabs
    BY <2>1, <2>2, ZenonT(60) DEF Tabs
  <2>4. /\ Verify(t).cookie = t.cookie /\ Verify(t).token = t.token /\ Verify(t).logout = t.logout
        /\ Verify(t).list = t.list /\ Verify(t).conn = t.conn /\ Verify(t).link = t.link
        /\ Verify(t).worldReady = t.worldReady /\ Verify(t).audience = t.audience
        /\ Verify(t).validated = t.validated /\ Verify(t).guest = t.guest
        /\ Verify(t).unavailable = t.unavailable
        /\ Verify(t).check.pc = "sent" /\ Verify(t).check.by = t.cookie
    BY <2>1, <2>2 DEF Tabs
  <2>5. Via(t, Verify(t))
    BY <2>4 DEF Via, Linked
  <2>6. Tidy(t) => Tidy(Verify(t))
    BY <1>2, <2>4 DEF Tidy, Steady, Joined, Heard, Asks, Owns
  <2> QED
    BY <2>3, <2>4, <2>5, <2>6
<1> QED
  BY <1>1, <1>2

\* A link that is finished is ready with an authenticated audience, or its socket is closed.
LEMMA FinishTidies ==
    ASSUME NEW t \in Tabs, Steady(t),
           t.link = "ready" /\ t.logout = "none" => t.validated /\ t.worldReady /\ t.audience # "unknown"
    PROVE  Finish(t) \in Tabs /\ Tidy(Finish(t)) /\ Via(t, Finish(t))
<1> DEFINE still == t.unavailable \/ t.logout # "none" \/ ~t.validated \/ ~t.worldReady \/ t.conn # "up"
<1>a. t.link = "ready" => t.conn = "up" /\ t.token /\ ~t.unavailable
  BY DEF Steady, Joined
<1>1. CASE still
  <2>1. Finish(t) = t
    BY <1>1 DEF Finish
  <2>2. Heard(t)
    BY <1>1, <1>a DEF Heard
  <2> QED
    BY <2>1, <2>2 DEF Tidy, Via, Linked
<1>2. CASE ~still /\ t.audience = "authenticated"
  <2>1. Finish(t) = [t EXCEPT !.link = "ready", !.rehandshake = FALSE]
    BY <1>2 DEF Finish
  <2>2. Finish(t) \in Tabs
    BY <2>1, ZenonT(60) DEF Tabs, Links
  <2>3. /\ Finish(t).link = "ready" /\ Finish(t).conn = t.conn /\ Finish(t).token = t.token
        /\ Finish(t).cookie = t.cookie /\ Finish(t).logout = t.logout /\ Finish(t).list = t.list
        /\ Finish(t).check = t.check /\ Finish(t).worldReady = t.worldReady
        /\ Finish(t).audience = t.audience /\ Finish(t).validated = t.validated
        /\ Finish(t).unavailable = t.unavailable /\ Finish(t).guest = t.guest
    BY <2>1 DEF Tabs
  <2> QED
    BY <1>2, <2>2, <2>3 DEF Tidy, Steady, Joined, Heard, Asks, Owns, Via, Linked
<1>3. CASE ~still /\ t.audience = "public" /\ t.rehandshake
  <2>1. Finish(t) = GiveUp(t)
    BY <1>3 DEF Finish
  <2> QED
    BY <2>1, GiveUpShuts, ShutIsTidy DEF Steady
<1>4. CASE ~still /\ t.audience = "public" /\ ~t.rehandshake
  <2> DEFINE w == [t EXCEPT !.rehandshake = TRUE]
  <2>1. Finish(t) = Redial(w)
    BY <1>4 DEF Finish
  <2>2. w \in Tabs
    BY ZenonT(60) DEF Tabs
  <2>3. /\ w.cookie = t.cookie /\ w.token = t.token /\ w.logout = t.logout /\ w.list = t.list
        /\ w.check = t.check /\ w.audience = t.audience /\ w.validated = t.validated
        /\ w.link = t.link /\ w.conn = t.conn /\ w.unavailable = t.unavailable
    BY DEF Tabs
  <2> HIDE DEF w
  <2>4. Redial(w) \in Tabs /\ Shut(w, Redial(w))
    BY <1>4, <2>2, <2>3, RedialShuts
  <2>5. Shut(t, Redial(w))
    BY <2>3, <2>4 DEF Shut
  <2> QED
    BY <2>1, <2>4, <2>5, ShutIsTidy
<1>5. CASE ~still /\ t.audience \notin {"authenticated", "public"}
  <2>1. Finish(t) = t
    BY <1>5 DEF Finish
  <2>2. Heard(t)
    BY <1>5 DEF Heard, Tabs
  <2> QED
    BY <2>1, <2>2 DEF Tidy, Via, Linked
<1> QED
  BY <1>1, <1>2, <1>3, <1>4, <1>5

-----------------------------------------------------------------------------
(* The reads of the list                                                   *)

\* A read is on its way that will see what Core has.
Owed(l) == l.pc = "sent" \/ (l.pc # "none" /\ l.queued)

\* The read in flight is still the same, or asks for the cookie.
Listed(t, u) ==
    \/ u.list.pc = "sent" /\ u.list.asker = t.cookie
    \/ u.list.pc = t.list.pc /\ u.list.asker = t.list.asker /\ u.list.answer = t.list.answer

\* All of u but the list is t's.
Around(t, u) ==
    /\ u.cookie = t.cookie /\ u.token = t.token /\ u.logout = t.logout
    /\ u.check = t.check /\ u.conn = t.conn /\ u.link = t.link
    /\ u.worldReady = t.worldReady /\ u.audience = t.audience /\ u.validated = t.validated
    /\ u.guest = t.guest /\ u.unavailable = t.unavailable

\* A tab is tidy, whatever its list, if the list is one it may own.
LEMMA AroundIsTidy ==
    ASSUME NEW t, NEW u, Around(t, u), Owns(u)
    PROVE  /\ Tidy(t) => Tidy(u)
           /\ Steady(t) => Steady(u)
           /\ Linked(t, u)
<1>1. (Joined(t) => Joined(u)) /\ (Heard(t) => Heard(u)) /\ (Asks(t) => Asks(u))
  BY DEF Around, Joined, Heard, Asks
<1> QED
  BY <1>1 DEF Tidy, Steady, Linked, Around

\* A read that is sent asks for the cookie, and is late during a logout.
LEMMA SendReadOwns ==
    ASSUME NEW t \in Tabs, Owns(t), t.list.late \/ t.token
    PROVE  /\ SendRead(t) \in Tabs /\ Around(t, SendRead(t)) /\ Owns(SendRead(t))
           /\ SendRead(t).list.pc = "sent" /\ SendRead(t).list.asker = t.cookie
           /\ SendRead(t).list.by = t.list.by /\ SendRead(t).list.shown = t.list.shown
           /\ SendRead(t).list.gap = t.list.gap
<1> DEFINE l == [t.list EXCEPT !.pc = "sent", !.asker = t.cookie, !.late = @ \/ t.logout # "none"]
<1>1. SendRead(t) = [t EXCEPT !.list = l]
  BY DEF SendRead, Tabs, Lists
<1>2. l \in Lists
  BY DEF Tabs, Lists, Asked
<1>3. /\ l.pc = "sent" /\ l.asker = t.cookie /\ l.by = t.list.by /\ l.shown = t.list.shown
      /\ l.late = (t.list.late \/ t.logout # "none") /\ l.gap = t.list.gap
  BY DEF Tabs, Lists
<1> HIDE DEF l
<1>4. SendRead(t) \in Tabs
  BY <1>1, <1>2, ZenonT(60) DEF Tabs
<1>5. Around(t, SendRead(t)) /\ SendRead(t).list = l
  BY <1>1 DEF Tabs, Around
<1>6. Owns(SendRead(t))
  BY <1>3, <1>5 DEF Owns, Around
<1> QED
  BY <1>3, <1>4, <1>5, <1>6

\* A request is sent, or follows the read in flight.
LEMMA FetchReads ==
    ASSUME NEW t \in Tabs, Owns(t)
    PROVE  /\ Fetch(t) \in Tabs /\ Around(t, Fetch(t)) /\ Owns(Fetch(t)) /\ Listed(t, Fetch(t))
           /\ t.token /\ t.link = "ready" => Owed(Fetch(t).list)
<1>1. CASE ~(t.token /\ t.link = "ready")
  <2>1. Fetch(t) = t
    BY <1>1 DEF Fetch
  <2> QED
    BY <1>1, <2>1 DEF Around, Listed
<1>2. CASE t.token /\ t.link = "ready" /\ t.list.pc # "none"
  <2> DEFINE l == [t.list EXCEPT !.queued = TRUE]
  <2>1. Fetch(t) = [t EXCEPT !.list = l]
    BY <1>2 DEF Fetch, Tabs, Lists
  <2>2. l \in Lists
    BY DEF Tabs, Lists
  <2>3. /\ l.pc = t.list.pc /\ l.asker = t.list.asker /\ l.by = t.list.by /\ l.shown = t.list.shown
        /\ l.late = t.list.late /\ l.answer = t.list.answer /\ l.queued
    BY DEF Tabs, Lists
  <2> HIDE DEF l
  <2>4. Fetch(t) \in Tabs
    BY <2>1, <2>2, ZenonT(60) DEF Tabs
  <2>5. Around(t, Fetch(t)) /\ Fetch(t).list = l
    BY <2>1 DEF Tabs, Around
  <2>6. Owns(Fetch(t))
    BY <2>3, <2>5 DEF Owns, Around
  <2> QED
    BY <1>2, <2>3, <2>4, <2>5, <2>6 DEF Listed, Owed
<1>3. CASE t.token /\ t.link = "ready" /\ t.list.pc = "none"
  <2>1. Fetch(t) = SendRead(t)
    BY <1>3 DEF Fetch
  <2> QED
    BY <1>3, <2>1, SendReadOwns DEF Listed, Owed
<1> QED
  BY <1>1, <1>2, <1>3

-----------------------------------------------------------------------------
(* The marker                                                              *)

\* What a handler must leave of a tab that loses its marker.
Fallen(t) ==
    /\ ~t.token
    /\ t.link = "ready" => t.conn = "up"
    /\ t.check.pc # "none" /\ t.logout # "none" => t.check.by = t.cookie
    /\ Owns(t)

\* A marker that goes away closes the socket and opens another.
LEMMA SessionEnds ==
    ASSUME NEW t \in Tabs, Fallen(t)
    PROVE  /\ SessionChanged(t) \in Tabs /\ Tidy(SessionChanged(t)) /\ Via(t, SessionChanged(t))
           /\ SessionChanged(t).conn = "redial"
           /\ SessionChanged(t).check = t.check
<1> DEFINE w == [t EXCEPT !.guest = FALSE, !.unavailable = FALSE, !.validated = FALSE, !.rehandshake = FALSE]
<1>1. SessionChanged(t) = Redial(w)
  BY DEF SessionChanged, Fallen, Tabs
<1>2. w \in Tabs
  BY ZenonT(60) DEF Tabs
<1>3. /\ w.cookie = t.cookie /\ w.token = t.token /\ w.logout = t.logout /\ w.list = t.list
      /\ w.check = t.check /\ w.audience = t.audience /\ ~w.validated
      /\ w.link = t.link /\ w.conn = t.conn /\ ~w.unavailable
  BY DEF Tabs
<1> HIDE DEF w
<1> DEFINE r == Redial(w)
<1>4. r \in Tabs /\ r.conn = "redial" /\ Shut(w, r) /\ ~r.unavailable /\ ~r.validated
  BY <1>2, <1>3, RedialShuts
<1> HIDE DEF r
<1>5. /\ r.cookie = t.cookie /\ r.token = t.token /\ r.logout = t.logout /\ r.list = t.list /\ r.check = t.check
      /\ r.link # "ready"
  BY <1>3, <1>4 DEF Shut, Fallen
<1>6. Joined(r) /\ Heard(r) /\ Asks(r) /\ Owns(r)
  BY <1>4, <1>5 DEF Joined, Heard, Asks, Owns, Fallen
<1>7. Via(t, r)
  BY <1>4, <1>5 DEF Via, Linked
<1> QED
  BY <1>1, <1>4, <1>5, <1>6, <1>7 DEF Tidy, Steady, r

\* A marker that comes up is verified, on a socket that is opened if there is none.
LEMMA SessionBegins ==
    ASSUME NEW t \in Tabs, Tidy(t), t.token
    PROVE  SessionChanged(t) \in Tabs /\ Tidy(SessionChanged(t)) /\ Via(t, SessionChanged(t))
<1>1. CASE t.validated
  <2>1. SessionChanged(t) = t
    BY <1>1 DEF SessionChanged
  <2> QED
    BY <2>1 DEF Via, Linked
<1>2. CASE ~t.validated
  <2> DEFINE conn == IF t.conn = "idle" THEN "dialing" ELSE t.conn
             w == [t EXCEPT !.guest = FALSE, !.unavailable = FALSE, !.conn = conn]
  <2>1. SessionChanged(t) = Verify(w)
    BY <1>2 DEF SessionChanged, Tabs
  <2>2. w \in Tabs
    BY ZenonT(60) DEF Tabs
  <2>3. /\ w.cookie = t.cookie /\ w.token = t.token /\ w.logout = t.logout /\ w.list = t.list
        /\ w.check = t.check /\ w.audience = t.audience /\ w.validated = t.validated
        /\ w.worldReady = t.worldReady /\ w.link = t.link /\ ~w.unavailable /\ (w.conn = "up" <=> t.conn = "up")
    BY DEF Tabs
  <2> HIDE DEF w, conn
  <2>4. Tidy(w)
    BY <2>3 DEF Tidy, Steady, Joined, Heard, Asks, Owns
  <2>5. Verify(w) \in Tabs /\ Tidy(Verify(w)) /\ Via(w, Verify(w))
    BY <2>2, <2>4, VerifyKeeps
  <2>6. Via(t, Verify(w))
    BY <2>3, <2>5 DEF Via, Linked
  <2> QED
    BY <2>1, <2>5, <2>6
<1> QED
  BY <1>1, <1>2

\* A dashboard that becomes ready reads its list.
Shows(t, u) == Dashboard(u) => Owed(u.list) \/ (Dashboard(tab) /\ u.list = t.list)

\* What Commit does to a tidy tab that keeps its marker, or gets one.
LEMMA CommitKeeps ==
    ASSUME NEW t \in Tabs, Tidy(t), t.token \/ t.token = tab.token
    PROVE  /\ Commit(t) \in Tabs /\ Tidy(Commit(t))
           /\ Linked(t, Commit(t)) /\ Listed(t, Commit(t)) /\ Shows(t, Commit(t))
<1> DEFINE u == IF t.token # tab.token THEN SessionChanged(t) ELSE t
<1>1. u \in Tabs /\ Tidy(u) /\ Via(t, u)
  <2>1. CASE t.token = tab.token
    BY <2>1 DEF Via, Linked
  <2>2. CASE t.token # tab.token
    BY <2>2, SessionBegins
  <2> QED
    BY <2>1, <2>2
<1>2. Commit(t) = IF Dashboard(u) /\ ~Dashboard(tab) THEN Fetch(u) ELSE u
  BY DEF Commit
<1> HIDE DEF u
<1>3. CASE Dashboard(u) /\ ~Dashboard(tab)
  <2>1. Commit(t) = Fetch(u)
    BY <1>2, <1>3
  <2>2. /\ Fetch(u) \in Tabs /\ Around(u, Fetch(u)) /\ Owns(Fetch(u)) /\ Listed(u, Fetch(u))
        /\ Owed(Fetch(u).list)
    BY <1>1, <1>3, FetchReads DEF Tidy, Steady, Dashboard
  <2>3. Tidy(Fetch(u)) /\ Linked(u, Fetch(u))
    BY <1>1, <2>2, AroundIsTidy
  <2>4. Linked(t, Fetch(u)) /\ Listed(t, Fetch(u))
    BY <1>1, <2>2, <2>3 DEF Via, Linked, Listed, Around
  <2> QED
    BY <2>1, <2>2, <2>3, <2>4 DEF Shows
<1>4. CASE ~(Dashboard(u) /\ ~Dashboard(tab))
  <2>1. Commit(t) = u
    BY <1>2, <1>4
  <2> QED
    BY <1>1, <1>4, <2>1 DEF Via, Listed, Shows
<1> QED
  BY <1>3, <1>4

\* What it does to one that loses its marker.
LEMMA CommitEnds ==
    ASSUME NEW t \in Tabs, Fallen(t), tab.token
    PROVE  /\ Commit(t) \in Tabs /\ Tidy(Commit(t)) /\ Via(t, Commit(t))
           /\ Commit(t).conn = "redial" /\ Commit(t).check = t.check
<1> DEFINE u == SessionChanged(t)
<1>1. u \in Tabs /\ Tidy(u) /\ Via(t, u) /\ u.conn = "redial" /\ u.check = t.check
  BY SessionEnds
<1>2. ~Dashboard(u)
  BY <1>1 DEF Via, Linked, Dashboard, Fallen
<1>3. Commit(t) = u
  BY <1>2 DEF Commit, Fallen, Tabs
<1> QED
  BY <1>1, <1>3

\* What a step of the tab leaves of its socket.
Closes(u, rest) ==
    \/ sock' = sock /\ wire' = rest
    \/ sock' = NoSock /\ wire' = <<>> /\ u.conn # "up"

\* The tab that is committed; a socket that is redialed is being dialed.
LEMMA BecomeIs ==
    ASSUME NEW t, NEW rest, Become(t, rest), Commit(t) \in Tabs, Tidy(Commit(t))
    PROVE  /\ tab' \in Tabs /\ tab'.conn # "redial" /\ Tidy(tab')
           /\ tab'.list = Commit(t).list /\ tab'.check = Commit(t).check
           /\ Linked(Commit(t), tab')
           /\ Dashboard(tab') <=> Dashboard(Commit(t))
           /\ Closes(tab', rest)
           /\ Commit(t).conn = "redial" => sock' = NoSock /\ wire' = <<>> /\ tab'.conn = "dialing"
<1> DEFINE u == Commit(t)
           conn == IF u.conn = "redial" THEN "dialing" ELSE u.conn
<1>1. /\ tab' = [u EXCEPT !.conn = conn]
      /\ IF u.conn \in {"redial", "idle"}
         THEN sock' = NoSock /\ wire' = <<>>
         ELSE UNCHANGED sock /\ wire' = rest
  BY DEF Become, Tabs
<1>2. u \in Tabs /\ Tidy(u)
  OBVIOUS
<1> HIDE DEF u
<1>3. tab' \in Tabs
  BY <1>1, <1>2, ZenonT(60) DEF Tabs
<1>4. /\ tab'.conn # "redial" /\ (tab'.conn = "up" <=> u.conn = "up")
      /\ tab'.cookie = u.cookie /\ tab'.token = u.token /\ tab'.logout = u.logout
      /\ tab'.check = u.check /\ tab'.link = u.link /\ tab'.list = u.list
      /\ tab'.worldReady = u.worldReady /\ tab'.audience = u.audience /\ tab'.validated = u.validated
      /\ tab'.guest = u.guest /\ tab'.unavailable = u.unavailable
  BY <1>1, <1>2 DEF Tabs
<1>5. Tidy(tab')
  BY <1>2, <1>4 DEF Tidy, Steady, Joined, Heard, Asks, Owns
<1>6. Linked(u, tab') /\ (Dashboard(tab') <=> Dashboard(u))
  BY <1>4 DEF Linked, Dashboard
<1>7. Closes(tab', rest)
  BY <1>1, <1>4 DEF Closes
<1>8. u.conn = "redial" => sock' = NoSock /\ wire' = <<>> /\ tab'.conn = "dialing"
  BY <1>1, <1>2 DEF Tabs
<1> QED
  BY <1>3, <1>4, <1>5, <1>6, <1>7, <1>8 DEF u

\* A step of the tab that keeps its marker, or gets one.
LEMMA BecomeKeeps ==
    ASSUME NEW t \in Tabs, NEW rest, Become(t, rest), Tidy(t), t.token \/ t.token = tab.token
    PROVE  /\ tab' \in Tabs /\ tab'.conn # "redial" /\ Tidy(tab')
           /\ Linked(t, tab') /\ Listed(t, tab') /\ Closes(tab', rest)
           /\ Dashboard(tab') => Owed(tab'.list) \/ (Dashboard(tab) /\ tab'.list = t.list)
<1> DEFINE u == Commit(t)
<1>1. u \in Tabs /\ Tidy(u) /\ Linked(t, u) /\ Listed(t, u) /\ Shows(t, u)
  BY CommitKeeps
<1>2. /\ tab' \in Tabs /\ tab'.conn # "redial" /\ Tidy(tab')
      /\ tab'.list = u.list /\ tab'.check = u.check
      /\ Linked(u, tab') /\ (Dashboard(tab') <=> Dashboard(u)) /\ Closes(tab', rest)
  BY <1>1, BecomeIs
<1> HIDE DEF u
<1>3. Linked(t, tab')
  BY <1>1, <1>2 DEF Linked
<1> QED
  BY <1>1, <1>2, <1>3 DEF Listed, Shows

\* A step of the tab that loses its marker.
LEMMA BecomeEnds ==
    ASSUME NEW t \in Tabs, NEW rest, Become(t, rest), Fallen(t), tab.token
    PROVE  /\ tab' \in Tabs /\ Tidy(tab') /\ ~tab'.token
           /\ tab'.conn = "dialing" /\ sock' = NoSock /\ wire' = <<>>
           /\ tab'.cookie = t.cookie /\ tab'.logout = t.logout
           /\ tab'.list = t.list /\ tab'.check = t.check
<1> DEFINE u == Commit(t)
<1>1. u \in Tabs /\ Tidy(u) /\ Via(t, u) /\ u.conn = "redial" /\ u.check = t.check
  BY CommitEnds
<1>2. /\ tab' \in Tabs /\ Tidy(tab')
      /\ tab'.list = u.list /\ tab'.check = u.check
      /\ Linked(u, tab')
      /\ sock' = NoSock /\ wire' = <<>> /\ tab'.conn = "dialing"
  BY <1>1, BecomeIs
<1> HIDE DEF u
<1> QED
  BY <1>1, <1>2 DEF Via, Linked, Fallen

-----------------------------------------------------------------------------
(* The handlers of messages and answers                                    *)

\* u is t after a message: its list is the same, and it verifies t's check, a new one or none.
Told(t, u) ==
    /\ u.cookie = t.cookie /\ u.token = t.token /\ u.logout = t.logout /\ u.list = t.list
    /\ u.check.pc = "none" \/ u.check = t.check \/ (u.check.pc = "sent" /\ u.check.by = t.cookie)

\* A connection begins with a verification, and knows nothing yet.
LEMMA ConnectedIsTidy ==
    ASSUME NEW t \in Tabs, Tidy(t), ~t.unavailable
    PROVE  /\ Connected(t) \in Tabs /\ Tidy(Connected(t)) /\ Told(t, Connected(t))
           /\ Connected(t).conn = "up" => ~Connected(t).worldReady /\ Connected(t).audience = "unknown"
<1> DEFINE w == [t EXCEPT !.conn = "up", !.check = NoCheck, !.audience = "unknown", !.validated = FALSE,
                          !.worldReady = FALSE, !.guest = FALSE, !.link = "checking"]
<1>1. Connected(t) = Verify(w)
  BY DEF Connected
<1>2. NoCheck \in Checks /\ NoCheck.pc = "none"
  BY Blank
<1>3. w \in Tabs
  BY <1>2, ZenonT(60) DEF Tabs, Links
<1>4. /\ w.cookie = t.cookie /\ w.token = t.token /\ w.logout = t.logout /\ w.list = t.list
      /\ w.conn = "up" /\ w.check = NoCheck /\ w.audience = "unknown" /\ ~w.validated
      /\ ~w.worldReady /\ ~w.guest /\ w.link = "checking" /\ w.unavailable = t.unavailable
  BY DEF Tabs
<1> HIDE DEF w
<1>5. Tidy(w)
  BY <1>2, <1>4 DEF Tidy, Steady, Joined, Heard, Asks, Owns
<1>6. Verify(w) \in Tabs /\ Tidy(Verify(w)) /\ Via(w, Verify(w))
  BY <1>3, <1>5, VerifyKeeps
<1> QED
  BY <1>1, <1>2, <1>4, <1>6 DEF Told, Via, Linked

\* A status is taken over; a world that is not ready ends the verification of a marker.
LEMMA StatusIsTidy ==
    ASSUME NEW t \in Tabs, Tidy(t), NEW m \in Messages,
           m.auth => t.logout = "none" \/ t.token
    PROVE  /\ StatusHeard(t, m) \in Tabs /\ Tidy(StatusHeard(t, m)) /\ Told(t, StatusHeard(t, m))
           /\ StatusHeard(t, m).conn = "up" =>
                 /\ t.conn = "up" /\ StatusHeard(t, m).worldReady = m.ready
                 /\ StatusHeard(t, m).audience = IF m.auth THEN "authenticated" ELSE "public"
<1> DEFINE aud == IF m.auth THEN "authenticated" ELSE "public"
           a == [t EXCEPT !.audience = aud, !.worldReady = m.ready]
           b == IF a.token /\ ~a.worldReady THEN [a EXCEPT !.validated = FALSE, !.link = "checking"] ELSE a
           c == IF b.validated THEN Finish(b) ELSE b
           s == StatusHeard(t, m)
<1>1. s = IF ~c.validated /\ c.worldReady /\ c.cool THEN Verify(c) ELSE c
  BY DEF StatusHeard
<1>2. a \in Tabs
  BY ZenonT(60) DEF Tabs, Messages
<1>3. /\ a.cookie = t.cookie /\ a.token = t.token /\ a.logout = t.logout /\ a.list = t.list
      /\ a.check = t.check /\ a.conn = t.conn /\ a.link = t.link /\ a.validated = t.validated
      /\ a.guest = t.guest /\ a.unavailable = t.unavailable
      /\ a.audience = aud /\ a.worldReady = m.ready
  BY DEF Tabs
<1>4. Steady(a)
  BY <1>3 DEF Tidy, Steady, Joined, Asks, Owns
<1>5. /\ b \in Tabs /\ Steady(b) /\ Via(a, b)
      /\ b.link = "ready" /\ b.logout = "none" => b.validated /\ b.worldReady
      /\ b.audience = aud
  <2>1. CASE a.token /\ ~a.worldReady
    <3>1. b = [a EXCEPT !.validated = FALSE, !.link = "checking"]
      BY <2>1
    <3> HIDE DEF a, b
    <3>2. b \in Tabs
      BY <1>2, <3>1, ZenonT(60) DEF Tabs, Links
    <3>3. /\ b.cookie = a.cookie /\ b.token = a.token /\ b.logout = a.logout /\ b.list = a.list
          /\ b.check = a.check /\ b.conn = a.conn /\ b.link = "checking" /\ ~b.validated
          /\ b.guest = a.guest /\ b.unavailable = a.unavailable
          /\ b.audience = a.audience /\ b.worldReady = a.worldReady
      BY <1>2, <3>1 DEF Tabs
    <3>4. Steady(b)
      BY <1>4, <3>3 DEF Steady, Joined, Asks, Owns
    <3> QED
      BY <1>3, <3>2, <3>3, <3>4 DEF Via, Linked
  <2>2. CASE ~(a.token /\ ~a.worldReady)
    <3>1. b = a
      BY <2>2
    <3> HIDE DEF a, b
    <3> QED
      BY <1>2, <1>3, <1>4, <2>2, <3>1 DEF Tidy, Steady, Joined, Heard, Via, Linked
  <2> QED
    BY <2>1, <2>2
<1> HIDE DEF a, b
<1>6. c \in Tabs /\ Tidy(c) /\ Via(b, c)
  <2>1. CASE b.validated
    BY <1>5, <2>1, FinishTidies
  <2>2. CASE ~b.validated
    BY <1>5, <2>2 DEF Tidy, Heard, Via, Linked
  <2> QED
    BY <2>1, <2>2
<1> HIDE DEF c
<1>7. s \in Tabs /\ Tidy(s) /\ Via(c, s)
  <2>1. CASE ~c.validated /\ c.worldReady /\ c.cool
    BY <1>1, <1>6, <2>1, VerifyKeeps
  <2>2. CASE ~(~c.validated /\ c.worldReady /\ c.cool)
    BY <1>1, <1>6, <2>2 DEF Via, Linked
  <2> QED
    BY <2>1, <2>2
<1> HIDE DEF s
<1>8. Told(t, s)
  BY <1>3, <1>5, <1>6, <1>7 DEF Told, Via, Linked
<1>9. s.conn = "up" => t.conn = "up" /\ s.worldReady = m.ready /\ s.audience = aud
  BY <1>3, <1>5, <1>6, <1>7 DEF Via, Linked
<1> QED
  BY <1>7, <1>8, <1>9 DEF s

\* The clean-up takes the marker and the list.
LEMMA ForgetFalls ==
    ASSUME NEW t \in Tabs, t.link = "ready" => t.conn = "up",
           t.check.pc # "none" /\ t.logout # "none" => t.check.by = t.cookie
    PROVE  /\ Forget(t) \in Tabs /\ Fallen(Forget(t)) /\ Forget(t).list = NoList
           /\ Forget(t).cookie = t.cookie /\ Forget(t).logout = t.logout /\ Forget(t).check = t.check
           /\ Forget(t).conn = t.conn /\ Forget(t).link = t.link /\ Forget(t).validated = t.validated
           /\ Forget(t).unavailable = t.unavailable
<1>1. NoList \in Lists /\ NoList.pc = "none" /\ NoList.shown = -1
  BY Blank
<1>2. Forget(t) = [t EXCEPT !.token = FALSE, !.list = NoList]
  BY DEF Forget
<1>3. Forget(t) \in Tabs
  BY <1>1, <1>2, ZenonT(60) DEF Tabs
<1>4. /\ Forget(t).list = NoList /\ ~Forget(t).token
      /\ Forget(t).cookie = t.cookie /\ Forget(t).logout = t.logout /\ Forget(t).check = t.check
      /\ Forget(t).conn = t.conn /\ Forget(t).link = t.link /\ Forget(t).validated = t.validated
      /\ Forget(t).unavailable = t.unavailable
  BY <1>2 DEF Tabs
<1> QED
  BY <1>1, <1>3, <1>4 DEF Fallen, Owns

\* A change of the link's name leaves what a fallen tab must be.
LEMMA GuestFalls ==
    ASSUME NEW t \in Tabs, Fallen(t)
    PROVE  LET g == [t EXCEPT !.link = "guest"]
           IN /\ g \in Tabs /\ Fallen(g) /\ g.list = t.list /\ g.check = t.check
              /\ g.cookie = t.cookie /\ g.logout = t.logout
              /\ g.conn = t.conn /\ g.validated = t.validated /\ g.link = "guest" /\ ~g.token
<1> DEFINE g == [t EXCEPT !.link = "guest"]
<1>1. g \in Tabs
  BY ZenonT(60) DEF Tabs, Links
<1>2. /\ g.list = t.list /\ g.check = t.check /\ g.cookie = t.cookie /\ g.logout = t.logout
      /\ g.conn = t.conn /\ g.validated = t.validated /\ g.link = "guest" /\ g.token = t.token
  BY DEF Tabs
<1> HIDE DEF g
<1>3. Fallen(g)
  BY <1>2 DEF Fallen, Owns
<1> QED
  BY <1>1, <1>2, <1>3 DEF Fallen, g

\* An invalidation ends a session; during a logout it only ends the verification.
LEMMA InvalidatedFalls ==
    ASSUME NEW t \in Tabs, Tidy(t)
    PROVE  /\ Invalidated(t) \in Tabs
           /\ Invalidated(t).cookie = t.cookie /\ Invalidated(t).logout = t.logout
           /\ Invalidated(t).check = t.check
           /\ t.logout # "none" => Tidy(Invalidated(t)) /\ Told(t, Invalidated(t))
                                   /\ Invalidated(t).worldReady = t.worldReady
                                   /\ Invalidated(t).conn = t.conn
           /\ t.logout = "none" => /\ Fallen(Invalidated(t)) /\ Invalidated(t).list = NoList
                                   /\ Invalidated(t).conn # "up"
                                   /\ ~t.token => Tidy(Invalidated(t))
<1>1. CASE t.logout # "none"
  <2>1. Invalidated(t) = [t EXCEPT !.validated = FALSE]
    BY <1>1 DEF Invalidated
  <2>2. Invalidated(t) \in Tabs
    BY <2>1, ZenonT(60) DEF Tabs
  <2>3. /\ Invalidated(t).cookie = t.cookie /\ Invalidated(t).token = t.token
        /\ Invalidated(t).logout = t.logout /\ Invalidated(t).list = t.list
        /\ Invalidated(t).check = t.check /\ Invalidated(t).conn = t.conn /\ Invalidated(t).link = t.link
        /\ Invalidated(t).worldReady = t.worldReady /\ Invalidated(t).audience = t.audience
        /\ ~Invalidated(t).validated /\ Invalidated(t).guest = t.guest
        /\ Invalidated(t).unavailable = t.unavailable
    BY <2>1 DEF Tabs
  <2>4. Tidy(Invalidated(t))
    BY <1>1, <2>3 DEF Tidy, Steady, Joined, Heard, Asks, Owns
  <2> QED
    BY <1>1, <2>2, <2>3, <2>4 DEF Told
<1>2. CASE t.logout = "none"
  <2> DEFINE h == Hang(t)
             f == Forget(h)
             g == [f EXCEPT !.link = "guest"]
  <2>1. Invalidated(t) = g
    BY <1>2 DEF Invalidated
  <2>2. h \in Tabs /\ h.conn = "idle" /\ Shut(t, h) /\ (~t.validated => ~h.validated) /\ h.link # "ready"
    BY HangShuts, ShutIsTidy DEF Tidy, Steady, Joined
  <2>3. /\ f \in Tabs /\ Fallen(f) /\ f.list = NoList /\ f.cookie = h.cookie /\ f.logout = h.logout
        /\ f.check = h.check /\ f.conn = h.conn /\ f.validated = h.validated
    <3>1. h.check = t.check /\ h.logout = t.logout
      BY <2>2 DEF Shut
    <3> HIDE DEF h
    <3> QED
      BY <1>2, <2>2, <3>1, ForgetFalls
  <2> HIDE DEF f
  <2>4. /\ g \in Tabs /\ Fallen(g) /\ g.list = f.list /\ g.check = f.check
        /\ g.cookie = f.cookie /\ g.logout = f.logout
        /\ g.conn = f.conn /\ g.validated = f.validated /\ g.link = "guest" /\ ~g.token
    BY <2>3, GuestFalls
  <2> HIDE DEF g, h
  <2>5. ~t.token => Tidy(g)
    BY <2>2, <2>3, <2>4 DEF Tidy, Steady, Joined, Heard, Asks, Fallen
  <2> QED
    BY <1>2, <2>1, <2>2, <2>3, <2>4, <2>5 DEF Shut
<1> QED
  BY <1>1, <1>2

\* u is t after the answer to its verification, which is over; at most a new one has begun.
Answered(t, u) ==
    /\ u.cookie = t.cookie /\ u.logout = t.logout /\ u.list = t.list
    /\ u.check.pc = "none" \/ (u.check.pc = "sent" /\ u.check.by = t.cookie)
    /\ u.conn = "up" => t.conn = "up" /\ u.worldReady = t.worldReady /\ u.audience = t.audience

\* An answer that does not end the session.
LEMMA CheckedKeeps ==
    ASSUME NEW t \in Tabs, Tidy(t),
           ~(t.token /\ ~t.unavailable /\ t.check.answer = "401")
    PROVE  /\ Checked(t) \in Tabs /\ Tidy(Checked(t)) /\ Answered(t, Checked(t))
           /\ Checked(t).token \/ Checked(t).token = t.token
<1> DEFINE u == [t EXCEPT !.check = NoCheck]
<1>1. u \in Tabs
  BY Blank, ZenonT(60) DEF Tabs
<1>2. /\ u.cookie = t.cookie /\ u.token = t.token /\ u.logout = t.logout /\ u.list = t.list
      /\ u.conn = t.conn /\ u.link = t.link /\ u.validated = t.validated /\ u.worldReady = t.worldReady
      /\ u.audience = t.audience /\ u.guest = t.guest /\ u.unavailable = t.unavailable
      /\ u.check = NoCheck
  BY DEF Tabs
<1>3. Tidy(u) /\ Answered(t, u)
  BY <1>2, Blank DEF Tidy, Steady, Joined, Heard, Asks, Owns, Answered
<1>4. CASE u.unavailable
  <2>1. Checked(t) = u
    BY <1>4 DEF Checked
  <2> HIDE DEF u
  <2> QED
    BY <1>1, <1>2, <1>3, <2>1
<1>5. CASE ~u.unavailable /\ t.check.answer = "valid" /\ u.conn # "up"
  <2>1. Checked(t) = u
    BY <1>5 DEF Checked
  <2> HIDE DEF u
  <2> QED
    BY <1>1, <1>2, <1>3, <2>1
<1>6. CASE ~u.unavailable /\ t.check.answer = "valid" /\ u.conn = "up"
  <2> DEFINE w == [u EXCEPT !.validated = TRUE, !.token = TRUE]
  <2>1. Checked(t) = Finish(w)
    BY <1>6 DEF Checked
  <2> HIDE DEF u
  <2>2. w \in Tabs
    BY <1>1, ZenonT(60) DEF Tabs
  <2>3. /\ w.cookie = t.cookie /\ w.token /\ w.logout = t.logout /\ w.list = t.list
        /\ w.conn = t.conn /\ w.link = t.link /\ w.validated /\ w.worldReady = t.worldReady
        /\ w.audience = t.audience /\ w.guest = t.guest /\ w.unavailable = t.unavailable
        /\ w.check = NoCheck
    BY <1>1, <1>2 DEF Tabs
  <2> HIDE DEF w
  <2>4. Steady(w) /\ (w.link = "ready" /\ w.logout = "none" =>
                         w.validated /\ w.worldReady /\ w.audience # "unknown")
    BY <2>3, Blank DEF Tidy, Steady, Joined, Heard, Asks, Owns
  <2>5. Finish(w) \in Tabs /\ Tidy(Finish(w)) /\ Via(w, Finish(w))
    BY <2>2, <2>4, FinishTidies
  <2> QED
    BY <2>1, <2>3, <2>5, Blank DEF Via, Linked, Answered
<1>7. CASE ~u.unavailable /\ t.check.answer = "401"
  <2>1. ~t.token /\ t.token = FALSE
    BY <1>2, <1>7 DEF Tabs
  <2> DEFINE h == IF u.token \/ u.audience = "authenticated" THEN Hang(u) ELSE u
             f == [h EXCEPT !.guest = TRUE]
             g == [f EXCEPT !.link = "guest"]
  <2>2. /\ h \in Tabs /\ Answered(t, h) /\ ~h.token /\ ~h.validated /\ Owns(h)
        /\ h.check.pc = "none" /\ (h.conn = "up" => h.audience # "authenticated")
        /\ h.unavailable = u.unavailable
    <3>1. CASE u.audience = "authenticated"
      <4> HIDE DEF u
      <4>1. h = Hang(u)
        BY <3>1
      <4>2. /\ Hang(u) \in Tabs /\ Hang(u).conn = "idle" /\ Shut(u, Hang(u)) /\ ~Hang(u).validated
            /\ Hang(u).unavailable = u.unavailable
        BY <1>1, <1>2, <1>3, <2>1, HangShuts DEF Tidy, Steady, Joined
      <4>3. Tidy(Hang(u))
        BY <1>3, <4>2, ShutIsTidy DEF Tidy
      <4> HIDE DEF h
      <4> QED
        BY <1>2, <2>1, <4>1, <4>2, <4>3, Blank DEF Shut, Answered, Tidy, Steady
    <3>2. CASE u.audience # "authenticated"
      <4> HIDE DEF u
      <4>1. h = u
        BY <1>2, <2>1, <3>2
      <4> HIDE DEF h
      <4> QED
        BY <1>1, <1>2, <1>3, <2>1, <3>2, <4>1, Blank DEF Tidy, Steady, Joined
    <3> QED
      BY <3>1, <3>2
  <2>3. Checked(t) = g
    <3>1. ~h.token
      BY <2>2
    <3> QED
      BY <1>7, <3>1 DEF Checked
  <2> HIDE DEF h
  <2>4. f \in Tabs
    BY <2>2, ZenonT(60) DEF Tabs
  <2>5. g \in Tabs
    <3> HIDE DEF f
    <3> QED
      BY <2>4, ZenonT(60) DEF Tabs, Links
  <2>6. /\ g.cookie = h.cookie /\ ~g.token /\ g.token = FALSE /\ g.logout = h.logout /\ g.list = h.list /\ g.check = h.check
        /\ g.conn = h.conn /\ g.link = "guest" /\ g.guest /\ ~g.validated
        /\ g.worldReady = h.worldReady /\ g.audience = h.audience /\ g.unavailable = u.unavailable
    BY <2>2 DEF Tabs
  <2> HIDE DEF f, g, u
  <2>7. Tidy(g) /\ Answered(t, g)
    BY <1>7, <2>2, <2>6 DEF Tidy, Steady, Joined, Heard, Asks, Owns, Answered
  <2> QED
    BY <2>1, <2>3, <2>5, <2>6, <2>7
<1>8. CASE ~u.unavailable /\ t.check.answer \notin {"valid", "401"}
  <2> DEFINE w == [u EXCEPT !.link = "checking"]
  <2>1. Checked(t) = w
    BY <1>8 DEF Checked
  <2> HIDE DEF u
  <2>2. w \in Tabs
    BY <1>1, ZenonT(60) DEF Tabs, Links
  <2>3. /\ w.cookie = u.cookie /\ w.token = u.token /\ w.logout = u.logout /\ w.list = u.list
        /\ w.conn = u.conn /\ w.link = "checking" /\ w.validated = u.validated
        /\ w.worldReady = u.worldReady /\ w.audience = u.audience
        /\ w.unavailable = u.unavailable /\ w.check = u.check
    BY <1>1 DEF Tabs
  <2> HIDE DEF w
  <2>4. Tidy(w) /\ Answered(t, w)
    BY <1>2, <1>3, <2>3, Blank DEF Tidy, Steady, Joined, Heard, Asks, Owns, Answered
  <2> QED
    BY <1>2, <2>1, <2>2, <2>3, <2>4
<1> HIDE DEF u
<1> QED
  BY <1>4, <1>5, <1>6, <1>7, <1>8

\* The answer that ends it.
LEMMA CheckedFalls ==
    ASSUME NEW t \in Tabs, Tidy(t), t.token, ~t.unavailable, t.check.answer = "401"
    PROVE  /\ Checked(t) \in Tabs /\ Fallen(Checked(t)) /\ Checked(t).list = NoList
           /\ Checked(t).cookie = t.cookie /\ Checked(t).logout = t.logout
           /\ Checked(t).check = NoCheck
<1> DEFINE u == [t EXCEPT !.check = NoCheck]
           h == Hang(u)
           f == Forget(h)
           g == [f EXCEPT !.link = "guest"]
<1>1. u \in Tabs
  BY Blank, ZenonT(60) DEF Tabs
<1>2. /\ u.cookie = t.cookie /\ u.token /\ u.logout = t.logout
      /\ u.conn = t.conn /\ u.link = t.link /\ ~u.unavailable /\ u.check = NoCheck
  BY DEF Tabs
<1> HIDE DEF u
<1>3. h \in Tabs /\ Shut(u, h)
  BY <1>1, <1>2, HangShuts
<1>4. h.token /\ h.check = NoCheck /\ (h.link = "ready" => h.conn = "up")
  BY <1>2, <1>3 DEF Shut, Tidy, Steady, Joined
<1>5. Checked(t) = g
  BY <1>2, <1>4 DEF Checked, u
<1> HIDE DEF h
<1>6. f \in Tabs /\ Fallen(f) /\ f.list = NoList /\ f.cookie = h.cookie /\ f.logout = h.logout /\ f.check = h.check
  BY <1>3, <1>4, Blank, ForgetFalls
<1> HIDE DEF f
<1>7. /\ g \in Tabs /\ Fallen(g) /\ g.list = f.list /\ g.check = f.check
      /\ g.cookie = f.cookie /\ g.logout = f.logout
  BY <1>6, GuestFalls
<1> HIDE DEF g
<1> QED
  BY <1>2, <1>3, <1>4, <1>5, <1>6, <1>7 DEF Shut

\* A read that ends shows what it was answered, unless it failed, and sends the one that waits.
LEMMA ReadKeeps ==
    ASSUME NEW t \in Tabs, Owns(t), t.list.pc # "none", t.list.answer # -2
    PROVE  /\ Read(t) \in Tabs /\ Around(t, Read(t)) /\ Owns(Read(t))
           /\ \/ Read(t).list.pc = "sent" /\ Read(t).list.asker = t.cookie
              \/ /\ Read(t).list.pc = "none" /\ ~t.list.queued
                 /\ t.list.answer >= 0 => Read(t).list.shown = t.list.answer
                 /\ t.list.answer < 0 => Read(t).list.shown = t.list.shown /\ Read(t).list.gap = t.list.gap
<1>1. t.list \in Lists
  BY DEF Tabs
<1> DEFINE k == IF t.list.answer >= 0
                THEN [t.list EXCEPT !.by = t.list.asker, !.shown = t.list.answer, !.gap = FALSE]
                ELSE t.list
           l == [k EXCEPT !.pc = "none", !.queued = FALSE]
           v == [t EXCEPT !.list = l]
<1>2. /\ k \in Lists /\ k.queued = t.list.queued /\ k.late = t.list.late
      /\ t.list.answer >= 0 => k.by = t.list.asker /\ k.shown = t.list.answer
      /\ t.list.answer < 0 => k.by = t.list.by /\ k.shown = t.list.shown /\ k.gap = t.list.gap
  <2>1. CASE t.list.answer >= 0
    <3>1. k = [t.list EXCEPT !.by = t.list.asker, !.shown = t.list.answer, !.gap = FALSE]
      BY <2>1
    <3> HIDE DEF k
    <3>2. t.list.answer \in Int /\ t.list.asker \in 0..MaxLogins
      BY <1>1 DEF Lists
    <3>3. k \in Lists
      BY <1>1, <3>1, <3>2, ZenonT(60) DEF Lists
    <3>4. /\ k.queued = t.list.queued /\ k.late = t.list.late
          /\ k.by = t.list.asker /\ k.shown = t.list.answer
      BY <1>1, <3>1 DEF Lists
    <3> QED
      BY <2>1, <3>2, <3>3, <3>4
  <2>2. CASE ~(t.list.answer >= 0)
    <3>1. k = t.list
      BY <2>2
    <3> QED
      BY <1>1, <2>2, <3>1 DEF Lists
  <2> QED
    BY <2>1, <2>2
<1>3. Read(t) = IF k.queued THEN SendRead(v) ELSE v
  <2> DEFINE u == [t EXCEPT !.list = k]
  <2>1. CASE t.list.answer >= 0
    BY <1>1, <2>1 DEF Read, Tabs
  <2>2. CASE ~(t.list.answer >= 0)
    BY <1>1, <2>2 DEF Read, Tabs
  <2> QED
    BY <2>1, <2>2
<1> HIDE DEF k
<1>4. /\ l \in Lists /\ l.pc = "none" /\ l.late = k.late /\ l.by = k.by /\ l.shown = k.shown /\ l.gap = k.gap
  BY <1>2 DEF Lists, Asked
<1> HIDE DEF l
<1>5. v \in Tabs
  BY <1>4, ZenonT(60) DEF Tabs
<1>6. Around(t, v) /\ v.list = l
  BY DEF Tabs, Around
<1> HIDE DEF v
<1>7. Owns(v) /\ (v.list.late \/ v.token)
  BY <1>1, <1>2, <1>4, <1>6 DEF Owns, Around, Lists
<1>8. CASE k.queued
  <2>1. /\ SendRead(v) \in Tabs /\ Around(v, SendRead(v)) /\ Owns(SendRead(v))
        /\ SendRead(v).list.pc = "sent" /\ SendRead(v).list.asker = v.cookie
    BY <1>5, <1>7, SendReadOwns
  <2>2. Read(t) = SendRead(v)
    BY <1>3, <1>8
  <2> QED
    BY <1>6, <2>1, <2>2 DEF Around
<1>9. CASE ~k.queued
  <2>1. Read(t) = v
    BY <1>3, <1>9
  <2> QED
    BY <1>2, <1>4, <1>5, <1>6, <1>7, <1>9, <2>1
<1> QED
  BY <1>8, <1>9

\* A read that was refused ends the session.
LEMMA ReadFalls ==
    ASSUME NEW t \in Tabs, Tidy(t), t.list.answer = -2
    PROVE  /\ Read(t) \in Tabs /\ Fallen(Read(t)) /\ Read(t).list = NoList
           /\ Read(t).cookie = t.cookie /\ Read(t).logout = t.logout /\ Read(t).check = t.check
           /\ ~t.token => Tidy(Read(t)) /\ Linked(t, Read(t))
<1> DEFINE f == Forget(t)
<1>1. f = [t EXCEPT !.token = FALSE, !.list = NoList]
  BY DEF Forget
<1>2. /\ f \in Tabs /\ Fallen(f) /\ f.list = NoList /\ f.cookie = t.cookie /\ f.logout = t.logout
      /\ f.check = t.check
  BY ForgetFalls DEF Tidy, Steady, Joined, Asks
<1>3. Read(t) = f
  <2>1. [f EXCEPT !.list.pc = "none", !.list.queued = FALSE] = f
    <3>1. [NoList EXCEPT !.pc = "none", !.queued = FALSE] = NoList
      <4>1. NoList.queued = FALSE
        BY DEF NoList
      <4> QED
        BY <4>1, Blank DEF Lists
    <3>2. f = [f EXCEPT !.list = NoList]
      BY <1>1 DEF Tabs
    <3> HIDE DEF f
    <3> QED
      BY <1>2, <3>1, <3>2 DEF Tabs
  <2>2. ~f.list.queued
    BY <1>2 DEF NoList
  <2> HIDE DEF f
  <2> QED
    BY <2>1, <2>2 DEF Read, f
<1>4. ASSUME ~t.token PROVE Around(t, f)
  BY <1>1, <1>4 DEF Around, Tabs
<1> HIDE DEF f
<1> QED
  BY <1>2, <1>3, <1>4, AroundIsTidy DEF Fallen

-----------------------------------------------------------------------------
(* The wire                                                                *)

\* What is known of a wire is known of what is left of it, or is about its first message.
LEMMA WireTail ==
    ASSUME NEW w \in Seq(Messages), w # <<>>, NEW world, NEW auth
    PROVE  /\ Tail(w) \in Seq(Messages) /\ Head(w) \in Messages
           /\ Vouched(w, world) =>
                 /\ Vouched(Tail(w), world)
                 /\ Head(w).kind = "status" /\ Head(w).ready => world = "ready" \/ Downs(Tail(w))
           /\ Trusted(w, auth) =>
                 /\ Trusted(Tail(w), auth)
                 /\ Head(w).kind = "status" /\ Head(w).auth => auth \/ Outs(Tail(w))
           /\ Public(w) => Public(Tail(w)) /\ ~Head(w).auth
           /\ Downs(w) => Closing(Head(w)) \/ Downs(Tail(w))
           /\ Outs(w) => Head(w).kind = "invalidated" \/ Outs(Tail(w))
           /\ Calls(w) => Head(w).kind = "changed" \/ Calls(Tail(w))
<1> DEFINE t == Tail(w)
<1>1. /\ t \in Seq(Messages) /\ Head(w) \in Messages /\ Head(w) = w[1]
      /\ Len(w) \in Nat \ {0} /\ Len(t) = Len(w) - 1
      /\ \A i \in 1..Len(t) : t[i] = w[i + 1]
  OBVIOUS
<1> HIDE DEF t
<1>2. \A i \in 1..Len(w) : i = 1 \/ (i - 1 \in 1..Len(t) /\ t[i - 1] = w[i])
  BY <1>1
<1>3. \A i \in 1..Len(t) : i + 1 \in 1..Len(w) /\ t[i] = w[i + 1]
  BY <1>1
<1>4. \A i \in 1..Len(w) : i > 1 => \E j \in 1..Len(t) : j = i - 1 /\ t[j] = w[i]
  BY <1>1, <1>2
<1>5. Vouched(w, world) =>
         /\ Vouched(t, world)
         /\ w[1].kind = "status" /\ w[1].ready => world = "ready" \/ Downs(t)
  <2>1. ASSUME Vouched(w, world), NEW i \in 1..Len(w), w[i].kind = "status", w[i].ready, world # "ready"
        PROVE  \E j \in 1..Len(t) : j > i - 1 /\ Closing(t[j])
    <3>1. PICK j \in 1..Len(w) : j > i /\ Closing(w[j])
      BY <2>1 DEF Vouched
    <3> QED
      BY <1>2, <3>1
  <2>2. Vouched(w, world) => Vouched(t, world)
    BY <1>3, <2>1 DEF Vouched
  <2> QED
    BY <1>1, <2>1, <2>2 DEF Downs
<1>6. Trusted(w, auth) =>
         /\ Trusted(t, auth)
         /\ w[1].kind = "status" /\ w[1].auth => auth \/ Outs(t)
  <2>1. ASSUME Trusted(w, auth), NEW i \in 1..Len(w), w[i].kind = "status", w[i].auth, ~auth
        PROVE  \E j \in 1..Len(t) : j > i - 1 /\ t[j].kind = "invalidated"
    <3>1. PICK j \in 1..Len(w) : j > i /\ w[j].kind = "invalidated"
      BY <2>1 DEF Trusted
    <3> QED
      BY <1>2, <3>1
  <2>2. Trusted(w, auth) => Trusted(t, auth)
    BY <1>3, <2>1 DEF Trusted
  <2> QED
    BY <1>1, <2>1, <2>2 DEF Outs
<1>7. Public(w) => Public(t) /\ ~w[1].auth
  BY <1>1, <1>3 DEF Public
<1>8. /\ Downs(w) => Closing(w[1]) \/ Downs(t)
      /\ Outs(w) => w[1].kind = "invalidated" \/ Outs(t)
      /\ Calls(w) => w[1].kind = "changed" \/ Calls(t)
  BY <1>2 DEF Downs, Outs, Calls
<1> QED
  BY <1>1, <1>5, <1>6, <1>7, <1>8 DEF t

\* What a message adds to a wire.
LEMMA WireAppend ==
    ASSUME NEW w \in Seq(Messages), NEW m \in Messages, NEW world, NEW auth
    PROVE  /\ Append(w, m) \in Seq(Messages) /\ Append(w, m) # <<>>
           /\ Downs(Append(w, m)) <=> Downs(w) \/ Closing(m)
           /\ Outs(Append(w, m)) <=> Outs(w) \/ m.kind = "invalidated"
           /\ Calls(Append(w, m)) <=> Calls(w) \/ m.kind = "changed"
           /\ Vouched(w, world) /\ (m.kind = "status" /\ m.ready => world = "ready") => Vouched(Append(w, m), world)
           /\ Closing(m) => Vouched(Append(w, m), world)
           /\ Trusted(w, auth) /\ (m.kind = "status" /\ m.auth => auth) => Trusted(Append(w, m), auth)
           /\ m.kind = "invalidated" => Trusted(Append(w, m), auth)
           /\ Public(w) /\ ~m.auth => Public(Append(w, m))
<1> DEFINE v == Append(w, m)
           n == Len(w) + 1
<1>1. /\ v \in Seq(Messages) /\ v # <<>> /\ Len(w) \in Nat /\ Len(v) = n
      /\ v[n] = m
      /\ \A i \in 1..Len(w) : v[i] = w[i]
  OBVIOUS
<1> HIDE DEF v
<1>2. /\ n \in 1..Len(v)
      /\ \A i \in 1..Len(w) : i \in 1..Len(v) /\ v[i] = w[i] /\ n > i
      /\ \A i \in 1..Len(v) : i = n \/ (i \in 1..Len(w) /\ v[i] = w[i])
  BY <1>1
<1> HIDE DEF n
<1>3. /\ Downs(v) <=> Downs(w) \/ Closing(m)
      /\ Outs(v) <=> Outs(w) \/ m.kind = "invalidated"
      /\ Calls(v) <=> Calls(w) \/ m.kind = "changed"
  BY <1>1, <1>2 DEF Downs, Outs, Calls
<1>4. /\ Vouched(w, world) /\ (m.kind = "status" /\ m.ready => world = "ready") => Vouched(v, world)
      /\ Closing(m) => Vouched(v, world)
  BY <1>1, <1>2 DEF Vouched, Closing
<1>5. /\ Trusted(w, auth) /\ (m.kind = "status" /\ m.auth => auth) => Trusted(v, auth)
      /\ m.kind = "invalidated" => Trusted(v, auth)
  BY <1>1, <1>2 DEF Trusted
<1>6. Public(w) /\ ~m.auth => Public(v)
  BY <1>1, <1>2 DEF Public
<1> QED
  BY <1>1, <1>3, <1>4, <1>5, <1>6 DEF v

\* A wire stays vouched for when its last message is true or closes.
LEMMA VouchedAppend ==
    ASSUME NEW w \in Seq(Messages), NEW m \in Messages, NEW world,
           Closing(m) \/ (Vouched(w, world) /\ (m.kind = "status" /\ m.ready => world = "ready"))
    PROVE  Vouched(Append(w, m), world)
BY WireAppend

\* Nothing is wrong about an empty wire.
LEMMA WireEmpty ==
    ASSUME NEW world, NEW auth
    PROVE  /\ <<>> \in Seq(Messages) /\ Vouched(<<>>, world) /\ Trusted(<<>>, auth) /\ Public(<<>>)
           /\ ~Downs(<<>>) /\ ~Outs(<<>>) /\ ~Calls(<<>>)
BY DEF Vouched, Trusted, Public, Downs, Outs, Calls

\* A read that is owed will show what Core has.
LEMMA OwedIsFresh ==
    ASSUME NEW l \in Lists, Owed(l), NEW truth
    PROVE  Fresh(l, truth)
BY DEF Owed, Fresh, Lists, Asked

-----------------------------------------------------------------------------
(* Steps of the tab                                                        *)

\* Nothing of Core changes but that sessions begin.
Grows ==
    /\ core' \in Cores
    /\ core'.world = core.world /\ core'.truth = core.truth
    /\ \A s \in Sessions : core.sess[s] = "live" => core'.sess[s] = "live"
    /\ \A s \in 0..MaxLogins : /\ Used(core, s) => Used(core', s)
                               /\ Dead(core, s) => Dead(core', s)

\* A socket that is open or closed in a step of the tab is as good as before.
LEMMA SocketStays ==
    ASSUME IInv, Grows, NEW rest, Closes(tab', rest),
           rest = wire \/ (wire # <<>> /\ rest = Tail(wire)),
           tab'.conn = "up" => Listening
    PROVE  /\ sock' \in Sockets
           /\ wire' \in Seq(Messages)
           /\ Wired' /\ Subscribed'
           /\ Vouched(wire', core'.world) /\ Trusted(wire', sock'.auth)
<1>1. CASE sock' = sock /\ wire' = rest
  <2>1. rest \in Seq(Messages) /\ Vouched(rest, core.world) /\ Trusted(rest, sock.auth)
    <3>1. CASE rest = wire
      BY <3>1 DEF IInv, Types
    <3>2. CASE wire # <<>> /\ rest = Tail(wire)
      BY <3>2, WireTail DEF IInv, Types
    <3> QED
      BY <3>1, <3>2
  <2>2. rest # <<>> => Listening
    BY DEF IInv, Wired
  <2>3. Listening' <=> Listening
    BY <1>1 DEF Listening
  <2>4. Wired'
    <3>1. sock.auth => sock.by \in Sessions
      BY DEF IInv, Wired, Types, Sessions, Nobody, Sockets
    <3> QED
      BY <1>1, <2>2, <2>3, <3>1 DEF IInv, Wired, Grows, SocketsAreLive
  <2>5. Subscribed'
    BY <1>1 DEF IInv, Subscribed, Grows
  <2> QED
    BY <1>1, <2>1, <2>4, <2>5 DEF IInv, Types, Grows
<1>2. CASE sock' = NoSock /\ wire' = <<>> /\ tab'.conn # "up"
  <2>1. /\ sock'.phase = "none" /\ ~sock'.auth /\ ~sock'.attached /\ ~sock'.deferred
        /\ sock' \in Sockets
    <3>1. 0 \in 0..MaxLogins
      BY MaxLoginsNat
    <3> QED
      BY <1>2, <3>1 DEF NoSock, Nobody, Sockets
  <2>2. ~Listening'
    BY <2>1 DEF Listening
  <2> QED
    BY <1>2, <2>1, <2>2, WireEmpty DEF Wired, Subscribed, SocketsAreLive
<1> QED
  BY <1>1, <1>2 DEF Closes

\* A step of the tab that keeps its marker, or gets one.
LEMMA TabKeeps ==
    ASSUME IInv, Grows, NEW t \in Tabs, NEW rest, Become(t, rest), Tidy(t),
           t.token \/ t.token = tab.token,
           events' \in 0..MaxEvents, events' >= events, unheard' \in BOOLEAN,
           rest = wire \/ (wire # <<>> /\ rest = Tail(wire)),
           t.conn = "up" => Listening,
           Knows(core', t), Believes(core, sock, rest, t),
           t.logout # "none" /\ ~t.token => Dead(core', t.cookie) /\ ~sock.auth /\ Public(rest),
           Dashboard(tab) /\ t.token /\ t.logout = "none" /\ t.conn = "up" /\ t.worldReady /\ ~unheard' =>
               Fresh(t.list, core.truth) \/ Downs(rest) \/ Outs(rest) \/ Calls(rest)
    PROVE  IInv'
<1>1. /\ tab' \in Tabs /\ tab'.conn # "redial" /\ Tidy(tab')
      /\ Linked(t, tab') /\ Listed(t, tab') /\ Closes(tab', rest)
      /\ Dashboard(tab') => Owed(tab'.list) \/ (Dashboard(tab) /\ tab'.list = t.list)
  BY BecomeKeeps
<1>2. tab'.conn = "up" => t.conn = "up" /\ sock' = sock /\ wire' = rest
  BY <1>1 DEF Linked, Closes
<1>3. /\ sock' \in Sockets
      /\ wire' \in Seq(Messages)
      /\ Wired' /\ Subscribed'
      /\ Vouched(wire', core'.world) /\ Trusted(wire', sock'.auth)
  BY <1>1, <1>2, SocketStays
<1>4. Types'
  BY <1>1, <1>3 DEF IInv, Types, Grows, Cores
<1>5. Knows(core', tab')
  BY <1>1 DEF Knows, Linked, Listed
<1>6. Leaves(core', sock', wire', tab')
  <2>1. t.logout # "none" /\ ~t.token => ~sock'.auth /\ Public(wire')
    BY <1>1, WireEmpty DEF Closes, NoSock
  <2> QED
    BY <1>1, <2>1 DEF Leaves, Linked
<1>7. Believes(core', sock', wire', tab')
  BY <1>1, <1>2 DEF Believes, Linked, Grows
<1>8. Informed'
  <2>1. SUFFICES ASSUME Dashboard(tab'), ~unheard'
                 PROVE  Fresh(tab'.list, core'.truth) \/ Downs(wire') \/ Outs(wire') \/ Calls(wire')
    BY DEF Informed
  <2>2. CASE Owed(tab'.list)
    BY <1>1, <2>2, OwedIsFresh DEF Tabs
  <2>3. CASE Dashboard(tab) /\ tab'.list = t.list
    <3>1. tab'.conn = "up" /\ tab'.worldReady /\ tab'.token /\ tab'.logout = "none"
      BY <1>1, <2>1 DEF Dashboard, Tidy, Steady, Joined, Heard
    <3>2. t.conn = "up" /\ t.worldReady /\ t.token /\ t.logout = "none"
      BY <1>1, <3>1 DEF Linked
    <3> QED
      BY <1>2, <2>1, <2>3, <3>1, <3>2 DEF Grows
  <2> QED
    BY <1>1, <2>1, <2>2, <2>3
<1> QED
  BY <1>1, <1>3, <1>4, <1>5, <1>6, <1>7, <1>8 DEF IInv

\* A step of the tab that loses its marker.
LEMMA TabEnds ==
    ASSUME IInv, UNCHANGED core, NEW t \in Tabs, NEW rest, Become(t, rest), Fallen(t), tab.token,
           events' \in 0..MaxEvents, events' >= events, unheard' \in BOOLEAN,
           Knows(core, t), t.logout # "none" => Dead(core, t.cookie)
    PROVE  IInv'
<1>1. /\ tab' \in Tabs /\ Tidy(tab') /\ ~tab'.token
      /\ tab'.conn = "dialing" /\ sock' = NoSock /\ wire' = <<>>
      /\ tab'.cookie = t.cookie /\ tab'.logout = t.logout
      /\ tab'.list = t.list /\ tab'.check = t.check
  BY BecomeEnds
<1>2. /\ ~sock'.auth /\ ~sock'.attached /\ ~sock'.deferred
      /\ sock' \in Sockets
  <2>1. 0 \in 0..MaxLogins
    BY MaxLoginsNat
  <2> QED
    BY <1>1, <2>1 DEF NoSock, Nobody, Sockets
<1>3. Types'
  BY <1>1, <1>2, WireEmpty DEF IInv, Types, Cores, Sockets
<1>4. Wired' /\ Subscribed'
  BY <1>1, <1>2 DEF Wired, Subscribed, SocketsAreLive
<1>5. Vouched(wire', core'.world) /\ Trusted(wire', sock'.auth)
  BY <1>1, WireEmpty
<1>6. Knows(core', tab') /\ Leaves(core', sock', wire', tab') /\ Believes(core', sock', wire', tab')
  BY <1>1, <1>2, WireEmpty DEF Knows, Leaves, Believes
<1>7. Informed'
  BY <1>1 DEF Informed, Dashboard
<1> QED
  BY <1>1, <1>3, <1>4, <1>5, <1>6, <1>7 DEF IInv

\* A Core that is left alone has grown.
LEMMA StillGrows ==
    ASSUME IInv, UNCHANGED core
    PROVE  Grows
BY DEF IInv, Types, Grows

\* A message of the wire is handled.
LEMMA ReceiveStep ==
    ASSUME IInv, Receive
    PROVE  IInv'
<1> DEFINE m == Head(wire)
           rest == Tail(wire)
           t == Handled(tab, m)
<1>1. /\ wire # <<>> /\ ~tab.unavailable /\ Become(t, rest)
      /\ UNCHANGED <<core, unheard, events>>
  BY DEF Receive
<1>2. /\ m \in Messages
      /\ Vouched(rest, core.world)
      /\ m.kind = "status" /\ m.ready => core.world = "ready" \/ Downs(rest)
      /\ m.kind = "status" /\ m.auth => sock.auth \/ Outs(rest)
      /\ Public(wire) => Public(rest) /\ ~m.auth
      /\ Downs(wire) => Closing(m) \/ Downs(rest)
      /\ Outs(wire) => m.kind = "invalidated" \/ Outs(rest)
      /\ Calls(wire) => m.kind = "changed" \/ Calls(rest)
  BY <1>1, WireTail DEF IInv, Types
<1>3. /\ tab \in Tabs /\ Tidy(tab) /\ Listening
      /\ Grows /\ events' \in 0..MaxEvents /\ events' >= events /\ unheard' \in BOOLEAN
  BY <1>1, StillGrows DEF IInv, Types, Wired
<1>4. tab.logout # "none" /\ ~tab.token => Dead(core, tab.cookie) /\ ~sock.auth /\ Public(rest) /\ ~m.auth
  BY <1>2 DEF IInv, Leaves
<1>5. Knows(core, tab) /\ core' = core
  BY <1>1 DEF IInv
<1>6. Dashboard(tab) /\ ~unheard' => Fresh(tab.list, core.truth) \/ Downs(wire) \/ Outs(wire) \/ Calls(wire)
  BY <1>1 DEF IInv, Informed
<1>7. CASE m.kind = "connect"
  <2>1. t = Connected(tab)
    BY <1>7 DEF Handled
  <2>2. /\ t \in Tabs /\ Tidy(t) /\ Told(tab, t)
        /\ t.conn = "up" => ~t.worldReady /\ t.audience = "unknown"
    BY <1>1, <1>3, <2>1, ConnectedIsTidy
  <2> HIDE DEF t, m, rest
  <2>3. Knows(core', t)
    BY <1>5, <2>2 DEF Knows, Told
  <2>4. Believes(core, sock, rest, t)
    BY <2>2 DEF Believes
  <2>5. t.logout # "none" /\ ~t.token => Dead(core', t.cookie) /\ ~sock.auth /\ Public(rest)
    BY <1>4, <1>5, <2>2 DEF Told
  <2>6. t.token = tab.token
    BY <2>2 DEF Told
  <2> QED
    BY <1>1, <1>3, <2>2, <2>3, <2>4, <2>5, <2>6, TabKeeps DEF rest
<1>8. CASE m.kind = "status"
  <2>1. t = StatusHeard(tab, m)
    BY <1>8 DEF Handled
  <2>2. /\ t \in Tabs /\ Tidy(t) /\ Told(tab, t)
        /\ t.conn = "up" => /\ tab.conn = "up" /\ t.worldReady = m.ready
                            /\ t.audience = IF m.auth THEN "authenticated" ELSE "public"
    <3>1. m.auth => tab.logout = "none" \/ tab.token
      BY <1>4
    <3> QED
      BY <1>2, <1>3, <2>1, <3>1, StatusIsTidy
  <2> HIDE DEF t, m, rest
  <2>3. Knows(core', t)
    BY <1>5, <2>2 DEF Knows, Told
  <2>4. Believes(core, sock, rest, t)
    BY <1>2, <1>8, <2>2 DEF Believes
  <2>5. t.logout # "none" /\ ~t.token => Dead(core', t.cookie) /\ ~sock.auth /\ Public(rest)
    BY <1>4, <1>5, <2>2 DEF Told
  <2>6. t.token = tab.token
    BY <2>2 DEF Told
  <2>7. ASSUME Dashboard(tab), t.conn = "up", t.worldReady, ~unheard'
        PROVE  Fresh(t.list, core.truth) \/ Downs(rest) \/ Outs(rest) \/ Calls(rest)
    BY <1>2, <1>6, <1>8, <2>2, <2>7 DEF Told, Closing
  <2> QED
    BY <1>1, <1>3, <2>2, <2>3, <2>4, <2>5, <2>6, <2>7, TabKeeps DEF rest
<1>9. CASE m.kind = "changed"
  <2>1. t = Fetch(tab)
    BY <1>9 DEF Handled
  <2>2. /\ t \in Tabs /\ Around(tab, t) /\ Owns(t) /\ Listed(tab, t)
        /\ Dashboard(tab) => Owed(t.list)
    BY <1>3, <2>1, FetchReads DEF Tidy, Steady, Dashboard
  <2> HIDE DEF t, m, rest
  <2>3. Tidy(t) /\ t.token = tab.token
    BY <1>3, <2>2, AroundIsTidy DEF Around
  <2>4. Knows(core', t)
    BY <1>5, <2>2 DEF Knows, Around, Listed
  <2>5. Believes(core, sock, rest, t)
    BY <1>2, <1>9, <2>2 DEF IInv, Believes, Around, Closing
  <2>6. t.logout # "none" /\ ~t.token => Dead(core', t.cookie) /\ ~sock.auth /\ Public(rest)
    BY <1>4, <1>5, <2>2 DEF Around
  <2>7. Dashboard(tab) => Fresh(t.list, core.truth)
    BY <2>2, OwedIsFresh DEF Tabs
  <2> QED
    BY <1>1, <1>3, <2>2, <2>3, <2>4, <2>5, <2>6, <2>7, TabKeeps DEF rest
<1>10. CASE m.kind = "invalidated"
  <2>1. t = Invalidated(tab)
    BY <1>10 DEF Handled
  <2>2. /\ t \in Tabs
        /\ t.cookie = tab.cookie /\ t.logout = tab.logout
        /\ t.check = tab.check
        /\ tab.logout # "none" => Tidy(t) /\ Told(tab, t) /\ t.worldReady = tab.worldReady /\ t.conn = tab.conn
        /\ tab.logout = "none" => /\ Fallen(t) /\ t.list = NoList /\ t.conn # "up"
                                  /\ ~tab.token => Tidy(t)
    BY <1>3, <2>1, InvalidatedFalls
  <2> HIDE DEF t, m, rest
  <2>3. Knows(core', t)
    BY <1>5, <2>2, Blank DEF Knows, Told
  <2>4. CASE tab.logout = "none" /\ tab.token
    BY <1>1, <1>3, <1>5, <2>2, <2>3, <2>4, TabEnds
  <2>5. CASE tab.logout # "none"
    <3>1. Tidy(t) /\ t.token = tab.token /\ t.logout # "none"
      BY <2>2, <2>5 DEF Told
    <3>2. Believes(core, sock, rest, t)
      BY <1>2, <1>10, <2>2, <2>5 DEF IInv, Believes, Told, Closing
    <3>3. t.logout # "none" /\ ~t.token => Dead(core', t.cookie) /\ ~sock.auth /\ Public(rest)
      BY <1>4, <1>5, <2>2, <3>1
    <3> QED
      BY <1>1, <1>3, <2>2, <2>3, <3>1, <3>2, <3>3, TabKeeps DEF rest
  <2>6. CASE tab.logout = "none" /\ ~tab.token
    <3>1. Tidy(t) /\ t.token = tab.token
      BY <1>3, <2>2, <2>6 DEF Fallen, Tabs
    <3>2. Believes(core, sock, rest, t)
      BY <2>2, <2>6 DEF Believes
    <3> QED
      BY <1>1, <1>3, <2>2, <2>3, <2>6, <3>1, <3>2, TabKeeps DEF rest
  <2> QED
    BY <2>4, <2>5, <2>6
<1> QED
  BY <1>2, <1>7, <1>8, <1>9, <1>10 DEF Messages

\* A step on an answer: the conditions of TabKeeps that do not depend on it.
LEMMA AnswerFacts ==
    ASSUME IInv, UNCHANGED core
    PROVE  /\ tab \in Tabs /\ Tidy(tab) /\ Grows /\ Knows(core', tab)
           /\ tab.conn = "up" => Listening
           /\ tab.logout # "none" /\ ~tab.token => Dead(core', tab.cookie) /\ ~sock.auth /\ Public(wire)
           /\ Believes(core, sock, wire, tab)
BY StillGrows DEF IInv, Types, Wired, Leaves

\* The verification of a tab ends, with the answer that t holds.
LEMMA CheckedStep ==
    ASSUME IInv, NEW t \in Tabs, Tidy(t),
           t.list = tab.list, t.token = tab.token, t.cookie = tab.cookie, t.logout = tab.logout,
           t.check.by = tab.check.by, t.check.pc = tab.check.pc, t.check.pc # "none",
           t.check.answer = "401" => Dead(core, t.check.by),
           t.conn = tab.conn, t.worldReady = tab.worldReady, t.audience = tab.audience,
           Become(Checked(t), wire), UNCHANGED <<core, unheard>>,
           events' \in 0..MaxEvents, events' >= events
    PROVE  IInv'
<1> DEFINE u == Checked(t)
<1>1. /\ tab \in Tabs /\ Tidy(tab) /\ Grows /\ Knows(core', tab)
      /\ tab.conn = "up" => Listening
      /\ tab.logout # "none" /\ ~tab.token => Dead(core', tab.cookie) /\ ~sock.auth /\ Public(wire)
      /\ Believes(core, sock, wire, tab)
  BY AnswerFacts
<1>2. unheard' \in BOOLEAN /\ core' = core
  BY DEF IInv, Types
<1>3. CASE t.token /\ ~t.unavailable /\ t.check.answer = "401"
  <2>1. /\ u \in Tabs /\ Fallen(u) /\ u.list = NoList
        /\ u.cookie = t.cookie /\ u.logout = t.logout /\ u.check = NoCheck
    BY <1>3, CheckedFalls
  <2>2. u.logout # "none" => Dead(core, u.cookie)
    BY <1>3, <2>1 DEF Tidy, Steady, Asks
  <2> HIDE DEF u
  <2>3. Knows(core, u)
    BY <1>1, <1>2, <2>1, Blank DEF Knows
  <2> QED
    BY <1>2, <1>3, <2>1, <2>2, <2>3, TabEnds DEF u
<1>4. CASE ~(t.token /\ ~t.unavailable /\ t.check.answer = "401")
  <2>1. /\ u \in Tabs /\ Tidy(u) /\ Answered(t, u)
        /\ u.token \/ u.token = t.token
    BY <1>4, CheckedKeeps
  <2> HIDE DEF u
  <2>2. Knows(core', u)
    BY <1>1, <2>1 DEF Knows, Answered
  <2>3. Believes(core, sock, wire, u)
    BY <1>1, <2>1 DEF Believes, Answered
  <2>4. u.logout # "none" /\ ~u.token => Dead(core', u.cookie) /\ ~sock.auth /\ Public(wire)
    BY <1>1, <2>1 DEF Answered
  <2>5. u.conn = "up" => Listening
    BY <1>1, <2>1 DEF Answered
  <2>6. Dashboard(tab) /\ ~unheard' => Fresh(u.list, core.truth) \/ Downs(wire) \/ Outs(wire) \/ Calls(wire)
    BY <2>1 DEF IInv, Informed, Answered
  <2> QED
    BY <1>1, <1>2, <2>1, <2>2, <2>3, <2>4, <2>5, <2>6, TabKeeps DEF u
<1> QED
  BY <1>3, <1>4

\* The answer to a verification arrives.
LEMMA CheckArrivesStep ==
    ASSUME IInv, CheckArrives
    PROVE  IInv'
<1>1. /\ tab.check.pc = "done" /\ Become(Checked(tab), wire)
      /\ UNCHANGED <<core, unheard, events>>
  BY DEF CheckArrives
<1>2. tab \in Tabs /\ Tidy(tab) /\ events' \in 0..MaxEvents /\ events' >= events
  BY <1>1 DEF IInv, Types
<1>3. tab.check.answer = "401" => Dead(core, tab.check.by)
  BY <1>1 DEF IInv, Knows
<1> QED
  BY <1>1, <1>2, <1>3, CheckedStep

\* The bound on events.
LEMMA EventBound ==
    ASSUME IInv, Event
    PROVE  events' \in 0..MaxEvents /\ events' = events + 1 /\ events' >= events
BY MaxEventsNat DEF IInv, Types, Event

\* A read of the list that t holds ends.
LEMMA ReadStep ==
    ASSUME IInv, NEW t \in Tabs, Tidy(t), Around(tab, t),
           t.list.pc # "none", t.list.pc = tab.list.pc, t.list.asker = tab.list.asker,
           t.list.answer = -2 => tab.list.answer = -2 /\ tab.list.pc = "done",
           Become(Read(t), wire), UNCHANGED core,
           events' \in 0..MaxEvents, events' >= events, unheard' \in BOOLEAN,
           Dashboard(tab) /\ ~unheard' /\ ~t.list.queued =>
               \/ t.list.answer = core.truth
               \/ t.list.answer = -1 /\ (t.list.shown = core.truth \/ t.list.gap)
               \/ t.list.answer = -2 \/ Downs(wire) \/ Outs(wire) \/ Calls(wire)
    PROVE  IInv'
<1> DEFINE u == Read(t)
<1>1. /\ tab \in Tabs /\ Tidy(tab) /\ Grows /\ Knows(core', tab) /\ core' = core
      /\ tab.conn = "up" => Listening
      /\ tab.logout # "none" /\ ~tab.token => Dead(core', tab.cookie) /\ ~sock.auth /\ Public(wire)
      /\ Believes(core, sock, wire, tab)
  BY AnswerFacts
<1>2. CASE t.list.answer = -2
  <2>1. /\ u \in Tabs /\ Fallen(u) /\ u.list = NoList
        /\ u.cookie = t.cookie /\ u.logout = t.logout /\ u.check = t.check
        /\ ~t.token => Tidy(u) /\ Linked(t, u)
    BY <1>2, ReadFalls
  <2> HIDE DEF u
  <2>2. Knows(core, u)
    BY <1>1, <2>1, Blank DEF Knows, Around
  <2>3. CASE tab.token
    <3>1. u.logout # "none" => Dead(core, u.cookie)
      BY <1>1, <1>2, <2>1 DEF Tidy, Steady, Owns, Around, Knows
    <3> QED
      BY <1>1, <2>1, <2>2, <2>3, <3>1, TabEnds DEF u
  <2>4. CASE ~tab.token
    <3>1. Tidy(u) /\ Linked(t, u) /\ u.token = tab.token
      BY <2>1, <2>4 DEF Around, Linked
    <3>2. Believes(core, sock, wire, u)
      BY <1>1, <3>1 DEF Believes, Linked, Around
    <3>3. u.logout # "none" /\ ~u.token => Dead(core', u.cookie) /\ ~sock.auth /\ Public(wire)
      BY <1>1, <2>4, <3>1 DEF Linked, Around
    <3>4. u.conn = "up" => Listening
      BY <1>1, <3>1 DEF Linked, Around
    <3>5. ~Dashboard(tab)
      BY <2>4 DEF Dashboard
    <3> QED
      BY <1>1, <2>1, <2>2, <3>1, <3>2, <3>3, <3>4, <3>5, TabKeeps DEF u
  <2> QED
    BY <2>3, <2>4
<1>3. CASE t.list.answer # -2
  <2>1. /\ u \in Tabs /\ Around(t, u) /\ Owns(u)
        /\ \/ u.list.pc = "sent" /\ u.list.asker = t.cookie
           \/ /\ u.list.pc = "none" /\ ~t.list.queued
              /\ t.list.answer >= 0 => u.list.shown = t.list.answer
              /\ t.list.answer < 0 => u.list.shown = t.list.shown /\ u.list.gap = t.list.gap
    BY <1>3, ReadKeeps DEF Tidy, Steady
  <2> HIDE DEF u
  <2>2. Tidy(u)
    BY <2>1, AroundIsTidy
  <2>3. Knows(core', u)
    BY <1>1, <2>1 DEF Knows, Around
  <2>4. Believes(core, sock, wire, u)
    BY <1>1, <2>1 DEF Believes, Around
  <2>5. u.logout # "none" /\ ~u.token => Dead(core', u.cookie) /\ ~sock.auth /\ Public(wire)
    BY <1>1, <2>1 DEF Around
  <2>6. (u.conn = "up" => Listening) /\ u.token = tab.token
    BY <1>1, <2>1 DEF Around
  <2>7. Dashboard(tab) /\ ~unheard' => Fresh(u.list, core.truth) \/ Downs(wire) \/ Outs(wire) \/ Calls(wire)
    <3>1. CASE u.list.pc = "sent"
      BY <3>1 DEF Fresh
    <3>2. CASE u.list.pc = "none" /\ ~t.list.queued
      <4>1. core.truth >= 0
        BY DEF IInv, Types, Cores
      <4>2. (t.list.answer >= 0 => u.list.shown = t.list.answer)
            /\ (t.list.answer = -1 => u.list.shown = t.list.shown /\ u.list.gap = t.list.gap)
        BY <2>1, <3>2
      <4> QED
        BY <1>3, <3>2, <4>1, <4>2 DEF Fresh
    <3> QED
      BY <2>1, <3>1, <3>2
  <2> QED
    BY <1>1, <2>1, <2>2, <2>3, <2>4, <2>5, <2>6, <2>7, TabKeeps DEF u
<1> QED
  BY <1>2, <1>3

\* The answer to a read arrives.
LEMMA ListArrivesStep ==
    ASSUME IInv, ListArrives
    PROVE  IInv'
<1>1. /\ tab.list.pc = "done" /\ Become(Read(tab), wire)
      /\ unheard' = (unheard /\ tab.list.answer # core.truth)
      /\ UNCHANGED <<core, events>>
  BY DEF ListArrives
<1>2. /\ tab \in Tabs /\ Tidy(tab) /\ events' \in 0..MaxEvents /\ events' >= events /\ unheard' \in BOOLEAN
  BY <1>1 DEF IInv, Types
<1>3. Around(tab, tab)
  BY DEF Around
<1>4. Dashboard(tab) /\ ~unheard' /\ ~tab.list.queued =>
         \/ tab.list.answer = core.truth
         \/ tab.list.answer = -1 /\ (tab.list.shown = core.truth \/ tab.list.gap)
         \/ tab.list.answer = -2 \/ Downs(wire) \/ Outs(wire) \/ Calls(wire)
  <2>1. CASE unheard
    BY <1>1, <2>1
  <2>2. CASE ~unheard
    BY <1>1, <2>2 DEF IInv, Informed, Fresh
  <2> QED
    BY <2>1, <2>2
<1> QED
  BY <1>1, <1>2, <1>3, <1>4, ReadStep

\* A request fails in the network.
LEMMA RequestFailsStep ==
    ASSUME IInv, RequestFails
    PROVE  IInv'
<1>1. UNCHANGED <<core, unheard>> /\ events' \in 0..MaxEvents /\ events' >= events
  BY EventBound DEF RequestFails
<1>2. tab \in Tabs /\ Tidy(tab) /\ unheard' \in BOOLEAN
  BY <1>1 DEF IInv, Types
<1>3. CASE tab.check.pc # "none" /\ Become(Checked([tab EXCEPT !.check.answer = "503"]), wire)
  <2> DEFINE k == [tab.check EXCEPT !.answer = "503"]
             t == [tab EXCEPT !.check = k]
  <2>1. Become(Checked(t), wire)
    BY <1>2, <1>3 DEF Tabs
  <2>2. k \in Checks /\ k.by = tab.check.by /\ k.pc = tab.check.pc /\ k.answer = "503"
    BY <1>2 DEF Tabs, Checks
  <2> HIDE DEF k
  <2>3. t \in Tabs
    BY <1>2, <2>2, ZenonT(60) DEF Tabs
  <2>4. /\ t.list = tab.list /\ t.token = tab.token /\ t.cookie = tab.cookie /\ t.logout = tab.logout
        /\ t.conn = tab.conn /\ t.worldReady = tab.worldReady /\ t.audience = tab.audience
        /\ t.link = tab.link /\ t.validated = tab.validated /\ t.guest = tab.guest
        /\ t.unavailable = tab.unavailable
        /\ t.check.by = tab.check.by /\ t.check.pc = tab.check.pc /\ t.check.answer = "503"
    BY <1>2, <2>2 DEF Tabs
  <2> HIDE DEF t
  <2>5. Tidy(t)
    BY <1>2, <2>4 DEF Tidy, Steady, Joined, Heard, Asks, Owns
  <2> QED
    BY <1>1, <1>3, <2>1, <2>3, <2>4, <2>5, CheckedStep
<1>4. CASE tab.list.pc # "none" /\ Become(Read([tab EXCEPT !.list.answer = -1, !.list.gap = TRUE]), wire)
  <2> DEFINE l == [tab.list EXCEPT !.answer = -1, !.gap = TRUE]
             t == [tab EXCEPT !.list = l]
  <2>1. Become(Read(t), wire)
    <3>1. t = [tab EXCEPT !.list.answer = -1, !.list.gap = TRUE]
      BY <1>2 DEF Tabs, Lists
    <3> QED
      BY <1>4, <3>1
  <2>2. /\ l \in Lists /\ l.pc = tab.list.pc /\ l.asker = tab.list.asker /\ l.answer = -1 /\ l.gap
        /\ l.by = tab.list.by /\ l.shown = tab.list.shown /\ l.late = tab.list.late
    BY <1>2 DEF Tabs, Lists
  <2> HIDE DEF l
  <2>3. t \in Tabs
    BY <1>2, <2>2, ZenonT(60) DEF Tabs
  <2>4. Around(tab, t) /\ t.list = l
    BY <1>2 DEF Tabs, Around
  <2> HIDE DEF t
  <2>5. Owns(t)
    BY <1>2, <2>2, <2>4 DEF Tidy, Steady, Owns, Around
  <2>6. Tidy(t)
    BY <1>2, <2>4, <2>5, AroundIsTidy
  <2> QED
    BY <1>1, <1>2, <1>4, <2>1, <2>2, <2>3, <2>4, <2>6, ReadStep
<1> QED
  BY <1>3, <1>4 DEF RequestFails

\* The budget of attempts is spent.
LEMMA BudgetSpentStep ==
    ASSUME IInv, BudgetSpent
    PROVE  IInv'
<1> DEFINE t == GiveUp(tab)
<1>1. /\ Become(t, wire) /\ UNCHANGED <<core, unheard>> /\ events' \in 0..MaxEvents /\ events' >= events
  BY EventBound DEF BudgetSpent
<1>2. /\ tab \in Tabs /\ Tidy(tab) /\ Grows /\ Knows(core', tab) /\ core' = core
      /\ tab.logout # "none" /\ ~tab.token => Dead(core', tab.cookie) /\ ~sock.auth /\ Public(wire)
  BY <1>1, AnswerFacts
<1>3. t \in Tabs /\ Shut(tab, t)
  BY <1>2, GiveUpShuts DEF Tidy, Steady
<1>4. Tidy(t)
  BY <1>2, <1>3, ShutIsTidy DEF Tidy
<1> HIDE DEF t
<1>5. /\ Knows(core', t) /\ Believes(core, sock, wire, t) /\ t.conn # "up" /\ t.token = tab.token
      /\ t.logout # "none" /\ ~t.token => Dead(core', t.cookie) /\ ~sock.auth /\ Public(wire)
  BY <1>2, <1>3 DEF Shut, Knows, Believes
<1>6. unheard' \in BOOLEAN
  BY <1>1 DEF IInv, Types
<1> QED
  BY <1>1, <1>2, <1>3, <1>4, <1>5, <1>6, TabKeeps

\* A session begins.
LEMMA LoginStep ==
    ASSUME IInv, Login
    PROVE  IInv'
<1>1. /\ events' \in 0..MaxEvents /\ events' >= events /\ UNCHANGED unheard
      /\ ~tab.token /\ tab.link = "guest" /\ tab.logout = "none"
  BY EventBound DEF Login
<1>2. PICK s \in Sessions : /\ core.sess[s] = "none"
                            /\ core' = [core EXCEPT !.sess[s] = "live"]
                            /\ Become([tab EXCEPT !.cookie = s, !.token = TRUE], wire)
  BY DEF Login
<1>3. s \in 0..MaxLogins /\ s # 0
  BY MaxLoginsNat DEF Sessions
<1>4. /\ tab \in Tabs /\ Tidy(tab) /\ Knows(core, tab) /\ Believes(core, sock, wire, tab)
      /\ tab.conn = "up" => Listening
      /\ unheard' \in BOOLEAN
  BY <1>1 DEF IInv, Types, Wired
<1>5. Grows /\ core'.sess[s] = "live"
  <2>1. core \in Cores
    BY DEF IInv, Types
  <2> DEFINE sess == [core.sess EXCEPT ![s] = "live"]
  <2>2. core' = [core EXCEPT !.sess = sess]
    BY <1>2, <2>1
  <2>3. /\ sess \in [Sessions -> {"none", "live", "asleep", "gone"}] /\ sess[s] = "live"
        /\ \A r \in Sessions : r # s => sess[r] = core.sess[r]
    BY <2>1 DEF Cores
  <2> HIDE DEF sess
  <2>4. /\ core' \in Cores
        /\ core'.world = core.world /\ core'.truth = core.truth /\ core'.sess = sess
    BY <2>1, <2>2, <2>3 DEF Cores
  <2>5. \A r \in 0..MaxLogins : r = 0 \/ r \in Sessions
    BY DEF Sessions
  <2> QED
    BY <1>2, <2>3, <2>4, <2>5 DEF Grows, Used, Dead, Nobody
<1> DEFINE t == [tab EXCEPT !.cookie = s, !.token = TRUE]
<1>6. t \in Tabs
  BY <1>3, <1>4, ZenonT(60) DEF Tabs
<1>7. /\ t.cookie = s /\ t.token /\ t.logout = tab.logout /\ t.list = tab.list /\ t.check = tab.check
      /\ t.conn = tab.conn /\ t.link = tab.link /\ t.validated = tab.validated
      /\ t.worldReady = tab.worldReady /\ t.audience = tab.audience
      /\ t.guest = tab.guest /\ t.unavailable = tab.unavailable
  BY <1>4 DEF Tabs
<1> HIDE DEF t
<1>8. Tidy(t)
  BY <1>1, <1>4, <1>7 DEF Tidy, Steady, Joined, Heard, Asks, Owns
<1>9. Knows(core', t)
  <2>1. tab.check.by \in 0..MaxLogins /\ tab.list.asker \in 0..MaxLogins
    BY <1>4 DEF Tabs, Checks, Lists
  <2> QED
    BY <1>4, <1>5, <1>7, <2>1 DEF Knows, Used, Grows
<1>10. Believes(core, sock, wire, t)
  BY <1>4, <1>7 DEF Believes
<1>11. ~Dashboard(tab)
  BY <1>1 DEF Dashboard
<1>12. Become(t, wire)
  BY <1>2 DEF t
<1> QED
  BY <1>1, <1>4, <1>5, <1>6, <1>7, <1>8, <1>9, <1>10, <1>11, <1>12, TabKeeps

\* A logout ends: with its answer, or without.
LEMMA LogoutEndsStep ==
    ASSUME IInv, NEW cookie \in {Nobody, tab.cookie}, tab.logout # "none",
           LogoutEnds(cookie), UNCHANGED <<core, unheard>>,
           events' \in 0..MaxEvents, events' >= events
    PROVE  IInv'
<1> DEFINE t == [tab EXCEPT !.logout = "none", !.token = FALSE, !.cookie = cookie]
<1>1. /\ tab \in Tabs /\ Tidy(tab) /\ Grows /\ Knows(core', tab) /\ core' = core
      /\ tab.conn = "up" => Listening
      /\ Believes(core, sock, wire, tab) /\ unheard' \in BOOLEAN
  BY AnswerFacts DEF IInv, Types
<1>2. cookie \in 0..MaxLogins
  BY <1>1, MaxLoginsNat DEF Tabs, Nobody
<1>3. Become(t, wire)
  BY DEF LogoutEnds
<1>4. t \in Tabs
  BY <1>1, <1>2, ZenonT(60) DEF Tabs
<1>5. /\ t.cookie = cookie /\ ~t.token /\ t.token = FALSE /\ t.logout = "none" /\ t.list = tab.list
      /\ t.check = tab.check
      /\ t.conn = tab.conn /\ t.link = tab.link /\ t.validated = tab.validated
      /\ t.worldReady = tab.worldReady /\ t.audience = tab.audience
      /\ t.guest = tab.guest /\ t.unavailable = tab.unavailable
  BY <1>1 DEF Tabs
<1> HIDE DEF t
<1>6. Knows(core, t)
  BY <1>1, <1>5 DEF Knows, Used, Nobody
<1>7. CASE tab.token
  <2>1. Fallen(t)
    BY <1>1, <1>5 DEF Fallen, Tidy, Steady, Joined, Owns
  <2> QED
    BY <1>1, <1>3, <1>4, <1>5, <1>6, <1>7, <2>1, TabEnds
<1>8. CASE ~tab.token
  <2>1. Tidy(t)
    BY <1>1, <1>5, <1>8 DEF Tidy, Steady, Joined, Heard, Asks, Owns
  <2>2. Believes(core, sock, wire, t)
    BY <1>1, <1>5, <1>8 DEF Tidy, Steady, Asks, Believes
  <2>3. t.token = tab.token
    BY <1>1, <1>5, <1>8 DEF Tabs
  <2>4. ~Dashboard(tab)
    BY <1>8 DEF Dashboard
  <2> QED
    BY <1>1, <1>3, <1>4, <1>5, <1>6, <2>1, <2>2, <2>3, <2>4, TabKeeps
<1> QED
  BY <1>7, <1>8

\* A session that answers a request is awake.
LEMMA AwakeGrows ==
    ASSUME IInv, NEW by \in 0..MaxLogins, core' = Awake(by), Alive(by)
    PROVE  Grows /\ core'.sess[by] = "live"
<1>1. core \in Cores
  BY DEF IInv, Types
<1>2. by \in Sessions /\ core.sess[by] \in {"live", "asleep"}
  BY MaxLoginsNat DEF Alive, Sessions, Nobody
<1> DEFINE sess == [core.sess EXCEPT ![by] = "live"]
<1>3. core' = [core EXCEPT !.sess = sess]
  BY <1>1 DEF Awake
<1>4. /\ sess \in [Sessions -> {"none", "live", "asleep", "gone"}] /\ sess[by] = "live"
      /\ \A r \in Sessions : r # by => sess[r] = core.sess[r]
  BY <1>1, <1>2 DEF Cores
<1> HIDE DEF sess
<1>5. /\ core' \in Cores
      /\ core'.world = core.world /\ core'.truth = core.truth /\ core'.sess = sess
  BY <1>1, <1>3, <1>4 DEF Cores
<1>6. \A r \in 0..MaxLogins : r = 0 \/ r \in Sessions
  BY DEF Sessions
<1> QED
  BY <1>2, <1>4, <1>5, <1>6 DEF Grows, Used, Dead, Nobody

\* Who is not alive, and was, is dead.
LEMMA UsedIsDead ==
    ASSUME IInv, NEW by \in 0..MaxLogins, Used(core, by), ~Alive(by)
    PROVE  Dead(core, by)
<1>1. by = 0 \/ by \in Sessions
  BY DEF Sessions
<1> QED
  BY <1>1 DEF IInv, Types, Used, Alive, Dead, Nobody, Cores

\* A step that leaves the socket alone.
LEMMA QuietStep ==
    ASSUME IInv, Grows, UNCHANGED <<sock, wire, unheard>>,
           events' \in 0..MaxEvents, events' >= events,
           tab' \in Tabs, tab'.conn = tab.conn, Tidy(tab'),
           Knows(core', tab'), Believes(core, sock, wire, tab'),
           tab'.logout # "none" /\ ~tab'.token => Dead(core', tab'.cookie) /\ ~sock.auth /\ Public(wire),
           Dashboard(tab') /\ ~unheard => Fresh(tab'.list, core.truth) \/ Downs(wire) \/ Outs(wire) \/ Calls(wire)
    PROVE  IInv'
<1>1. Types'
  BY DEF IInv, Types, Grows, Cores
<1>2. Listening' <=> Listening
  BY DEF Listening
<1>3. Wired'
  <2>1. sock.auth => sock.by \in Sessions
    BY DEF IInv, Wired, Types, Sessions, Nobody, Sockets
  <2> QED
    BY <1>2, <2>1 DEF IInv, Wired, SocketsAreLive, Grows
<1>4. Subscribed' /\ Vouched(wire', core'.world) /\ Trusted(wire', sock'.auth)
  BY DEF IInv, Subscribed, Grows
<1>5. Leaves(core', sock', wire', tab') /\ Believes(core', sock', wire', tab')
  BY DEF Leaves, Believes, Grows
<1>6. Informed'
  BY DEF Informed, Grows
<1> QED
  BY <1>1, <1>3, <1>4, <1>5, <1>6 DEF IInv

\* Core answers a verification.
LEMMA CheckServedStep ==
    ASSUME IInv, CheckServed
    PROVE  IInv'
<1> DEFINE by == tab.check.by
<1>1. /\ tab \in Tabs /\ Tidy(tab) /\ Knows(core, tab) /\ by \in 0..MaxLogins
      /\ tab.check.pc = "sent" /\ UNCHANGED <<sock, wire, unheard, events>>
      /\ events' \in 0..MaxEvents /\ events' >= events
  BY DEF CheckServed, IInv, Types, Tabs, Checks
<1>2. PICK answer \in {"valid", "401", "503"} :
         /\ tab' = [tab EXCEPT !.check.pc = "done", !.check.answer = answer]
         /\ \/ answer = "valid" /\ Alive(by) /\ core' = Awake(by)
            \/ answer = "401" /\ ~Alive(by) /\ UNCHANGED core
            \/ answer = "503" /\ UNCHANGED core
  BY DEF CheckServed
<1>3. Grows
  BY <1>1, <1>2, AwakeGrows, StillGrows
<1>4. answer = "401" => Dead(core', by)
  BY <1>1, <1>2, UsedIsDead DEF Knows
<1> DEFINE k == [tab.check EXCEPT !.pc = "done", !.answer = answer]
<1>5. k \in Checks /\ k.by = by /\ k.pc = "done" /\ k.answer = answer
  BY <1>1 DEF Tabs, Checks, Asked
<1>6. tab' = [tab EXCEPT !.check = k]
  BY <1>1, <1>2 DEF Tabs, Checks
<1> HIDE DEF k
<1>7. tab' \in Tabs
  BY <1>1, <1>5, <1>6, ZenonT(60) DEF Tabs
<1>8. /\ tab'.list = tab.list /\ tab'.token = tab.token /\ tab'.cookie = tab.cookie
      /\ tab'.logout = tab.logout /\ tab'.conn = tab.conn /\ tab'.worldReady = tab.worldReady
      /\ tab'.audience = tab.audience /\ tab'.link = tab.link /\ tab'.validated = tab.validated
      /\ tab'.guest = tab.guest /\ tab'.unavailable = tab.unavailable /\ tab'.check = k
  BY <1>1, <1>6 DEF Tabs
<1>9. Tidy(tab')
  BY <1>1, <1>5, <1>8 DEF Tidy, Steady, Joined, Heard, Asks, Owns
<1>10. tab.cookie \in 0..MaxLogins /\ tab.list.asker \in 0..MaxLogins
  BY <1>1 DEF Tabs, Lists
<1>11. Knows(core', tab')
  BY <1>1, <1>3, <1>4, <1>5, <1>8, <1>10 DEF Knows, Grows
<1>12. /\ Believes(core, sock, wire, tab')
       /\ tab'.logout # "none" /\ ~tab'.token => Dead(core', tab'.cookie) /\ ~sock.auth /\ Public(wire)
  BY <1>3, <1>8, <1>10 DEF IInv, Believes, Leaves, Grows
<1>13. Dashboard(tab') /\ ~unheard => Fresh(tab'.list, core.truth) \/ Downs(wire) \/ Outs(wire) \/ Calls(wire)
  BY <1>8 DEF IInv, Informed, Dashboard
<1> QED
  BY <1>1, <1>3, <1>7, <1>8, <1>9, <1>11, <1>12, <1>13, QuietStep

\* Core answers a read: one that is refused for the world's state is corrected by a status.
LEMMA ListServedStep ==
    ASSUME IInv, ListServed
    PROVE  IInv'
<1> DEFINE by == tab.list.asker
<1>1. /\ tab \in Tabs /\ Tidy(tab) /\ Knows(core, tab) /\ by \in 0..MaxLogins
      /\ tab.list.pc = "sent" /\ UNCHANGED <<sock, wire, unheard, events>>
      /\ events' \in 0..MaxEvents /\ events' >= events
  BY DEF ListServed, IInv, Types, Tabs, Lists
<1>2. PICK answer \in {core.truth, -2, -1} :
         /\ tab' = [tab EXCEPT !.list.pc = "done", !.list.answer = answer]
         /\ \/ answer = core.truth /\ Alive(by) /\ core' = Awake(by)
            \/ answer = -2 /\ ~Alive(by) /\ UNCHANGED core
            \/ answer = -1 /\ core.world # "ready" /\ UNCHANGED core
  BY DEF ListServed
<1>3. Grows
  BY <1>1, <1>2, AwakeGrows, StillGrows
<1>4. answer = -2 => Dead(core', by)
  <2>1. core.truth # -2
    BY DEF IInv, Types, Cores
  <2> QED
    BY <1>1, <1>2, <2>1, UsedIsDead DEF Knows
<1> DEFINE l == [tab.list EXCEPT !.pc = "done", !.answer = answer]
<1>5. answer \in {-2, -1} \cup Nat
  BY DEF IInv, Types, Cores
<1>6. l \in Lists
  BY <1>1, <1>5 DEF Tabs, Lists, Asked
<1>7. /\ l.asker = by /\ l.pc = "done" /\ l.answer = answer
      /\ l.by = tab.list.by /\ l.shown = tab.list.shown /\ l.late = tab.list.late
  BY <1>1 DEF Tabs, Lists
<1>8. tab' = [tab EXCEPT !.list = l]
  BY <1>1, <1>2 DEF Tabs, Lists
<1> HIDE DEF l
<1>9. tab' \in Tabs
  BY <1>1, <1>6, <1>8, ZenonT(60) DEF Tabs
<1>10. Around(tab, tab') /\ tab'.list = l
  BY <1>1, <1>8 DEF Tabs, Around
<1>11. Owns(tab')
  BY <1>1, <1>7, <1>10 DEF Tidy, Steady, Owns, Around
<1>12. Tidy(tab')
  BY <1>1, <1>10, <1>11, AroundIsTidy
<1>13. tab.cookie \in 0..MaxLogins /\ tab.check.by \in 0..MaxLogins
  BY <1>1 DEF Tabs, Checks
<1>14. Knows(core', tab')
  BY <1>1, <1>3, <1>4, <1>7, <1>10, <1>13 DEF Knows, Grows, Around
<1>15. /\ Believes(core, sock, wire, tab') /\ tab'.conn = tab.conn
       /\ tab'.logout # "none" /\ ~tab'.token => Dead(core', tab'.cookie) /\ ~sock.auth /\ Public(wire)
  BY <1>3, <1>10, <1>13 DEF IInv, Believes, Leaves, Grows, Around
<1>16. Dashboard(tab') /\ ~unheard => Fresh(tab'.list, core.truth) \/ Downs(wire) \/ Outs(wire) \/ Calls(wire)
  <2>1. CASE answer = -1 /\ core.world # "ready"
    BY <1>12, <1>15, <2>1 DEF Dashboard, Tidy, Steady, Joined, Heard, Believes
  <2>2. CASE answer \in {core.truth, -2}
    BY <1>7, <1>10, <2>2 DEF Fresh
  <2> QED
    BY <1>2, <2>1, <2>2
<1> QED
  BY <1>1, <1>3, <1>9, <1>12, <1>14, <1>15, <1>16, QuietStep

\* Five seconds pass.
LEMMA FiveSecondsStep ==
    ASSUME IInv, FiveSeconds
    PROVE  IInv'
<1>1. /\ tab \in Tabs /\ tab' = [tab EXCEPT !.cool = TRUE]
      /\ UNCHANGED <<core, sock, wire, unheard, events>>
      /\ events' \in 0..MaxEvents /\ events' >= events
  BY DEF FiveSeconds, IInv, Types
<1>2. tab' \in Tabs
  BY <1>1, ZenonT(60) DEF Tabs
<1>3. Around(tab, tab') /\ tab'.list = tab.list
  BY <1>1 DEF Tabs, Around
<1>4. Tidy(tab')
  <2>1. Owns(tab')
    BY <1>3 DEF IInv, Tidy, Steady, Owns, Around
  <2> QED
    BY <1>3, <2>1, AroundIsTidy DEF IInv
<1>5. /\ Knows(core', tab') /\ Believes(core, sock, wire, tab') /\ tab'.conn = tab.conn
      /\ tab'.logout # "none" /\ ~tab'.token => Dead(core', tab'.cookie) /\ ~sock.auth /\ Public(wire)
      /\ Dashboard(tab') /\ ~unheard => Fresh(tab'.list, core.truth) \/ Downs(wire) \/ Outs(wire) \/ Calls(wire)
  BY <1>1, <1>3 DEF IInv, Knows, Believes, Leaves, Informed, Dashboard, Around
<1> QED
  BY <1>1, <1>2, <1>4, <1>5, StillGrows, QuietStep

\* A logout begins, and takes the list with it.
LEMMA LogoutStep ==
    ASSUME IInv, Logout
    PROVE  IInv'
<1>1. /\ tab \in Tabs /\ tab' = [tab EXCEPT !.logout = "sent", !.list = NoList]
      /\ Dashboard(tab)
      /\ UNCHANGED <<core, sock, wire, unheard>>
      /\ events' \in 0..MaxEvents /\ events' >= events
  BY EventBound DEF Logout, IInv, Types
<1>2. tab' \in Tabs
  BY <1>1, Blank, ZenonT(60) DEF Tabs
<1>3. /\ tab'.list = NoList /\ tab'.token /\ tab'.cookie = tab.cookie
      /\ tab'.logout = "sent" /\ tab'.conn = tab.conn /\ tab'.worldReady = tab.worldReady
      /\ tab'.audience = tab.audience /\ tab'.link = "ready" /\ tab'.validated = tab.validated
      /\ tab'.guest = tab.guest /\ tab'.unavailable = tab.unavailable /\ tab'.check = tab.check
      /\ tab.link = "ready" /\ tab.token
  BY <1>1 DEF Tabs, Dashboard
<1>4. Tidy(tab')
  BY <1>3, Blank DEF IInv, Tidy, Steady, Joined, Heard, Asks, Owns
<1>5. /\ Knows(core', tab') /\ Believes(core, sock, wire, tab') /\ ~Dashboard(tab')
  BY <1>1, <1>3, Blank DEF IInv, Knows, Believes, Dashboard
<1> QED
  BY <1>1, <1>2, <1>3, <1>4, <1>5, StillGrows, QuietStep

-----------------------------------------------------------------------------
(* Steps of Core                                                           *)

\* What a list may miss is still on its way when the wire only grows.
LEMMA StillInformed ==
    ASSUME IInv, UNCHANGED <<tab, unheard>>, core'.truth = core.truth,
           Downs(wire) => Downs(wire'), Outs(wire) => Outs(wire'), Calls(wire) => Calls(wire')
    PROVE  Informed'
BY DEF IInv, Informed, Dashboard

\* A session is invalidated, and the socket that it authenticated.
LEMMA InvalidateStep ==
    ASSUME IInv, NEW s \in 0..MaxLogins, Invalidate(s), UNCHANGED unheard,
           events' \in 0..MaxEvents, events' >= events,
           tab' \in Tabs, Tidy(tab'), Around([tab EXCEPT !.logout = tab'.logout], tab'),
           tab'.list = tab.list,
           tab'.logout = "none" <=> tab.logout = "none"
    PROVE  IInv'
<1>1. /\ core \in Cores /\ sock \in Sockets /\ wire \in Seq(Messages) /\ tab \in Tabs
      /\ core' = [core EXCEPT !.sess[s] = "gone"]
  BY DEF IInv, Types, Invalidate
<1> DEFINE sess == [core.sess EXCEPT ![s] = "gone"]
<1>2. /\ sess \in [Sessions -> {"none", "live", "asleep", "gone"}]
      /\ \A r \in Sessions : r # s => sess[r] = core.sess[r]
      /\ \A r \in Sessions : r = s => sess[r] = "gone"
  BY <1>1 DEF Cores
<1>3. core' = [core EXCEPT !.sess = sess]
  BY <1>1 DEF Cores
<1> HIDE DEF sess
<1>4. core' \in Cores /\ core'.world = core.world /\ core'.truth = core.truth /\ core'.sess = sess
  BY <1>1, <1>2, <1>3 DEF Cores
<1>5. \A r \in 0..MaxLogins : /\ Used(core, r) => Used(core', r)
                              /\ Dead(core, r) => Dead(core', r)
  <2>1. \A r \in 0..MaxLogins : r = 0 \/ r \in Sessions
    BY DEF Sessions
  <2> QED
    BY <1>2, <1>4, <2>1 DEF Used, Dead, Nobody
<1>6. /\ tab'.cookie = tab.cookie /\ tab'.token = tab.token /\ tab'.check = tab.check
      /\ tab'.conn = tab.conn /\ tab'.link = tab.link /\ tab'.worldReady = tab.worldReady
      /\ tab'.audience = tab.audience
  BY <1>1 DEF Around, Tabs
<1>7. tab.cookie \in 0..MaxLogins /\ tab.check.by \in 0..MaxLogins /\ tab.list.asker \in 0..MaxLogins
  BY <1>1 DEF Tabs, Checks, Lists
<1>8. Knows(core', tab')
  BY <1>5, <1>6, <1>7 DEF IInv, Knows
<1>9. Signal("invalidated") \in Messages /\ Signal("invalidated").kind = "invalidated" /\ ~Signal("invalidated").auth
  BY DEF Signal, Messages
<1>10. CASE Listening /\ sock.auth /\ sock.by = s
  <2> DEFINE m == Signal("invalidated")
  <2>1. sock' = Retired(sock) /\ wire' = Append(wire, m)
    BY <1>10 DEF Invalidate
  <2>2. /\ sock' \in Sockets /\ sock'.phase = sock.phase /\ ~sock'.auth /\ ~sock'.attached /\ ~sock'.deferred
    <3>1. 0 \in 0..MaxLogins
      BY MaxLoginsNat
    <3> QED
      BY <1>1, <2>1, <3>1 DEF Retired, NoSock, Sockets, Nobody
  <2> HIDE DEF m
  <2>3. /\ wire' \in Seq(Messages) /\ Outs(wire')
        /\ Downs(wire) => Downs(wire')
        /\ Vouched(wire', core'.world) /\ Trusted(wire', sock'.auth)
        /\ Public(wire) => Public(wire')
    <3>1. Vouched(wire, core'.world)
      BY <1>4 DEF IInv
    <3>2. m \in Messages /\ m.kind = "invalidated" /\ ~m.auth
      BY <1>9 DEF m
    <3> QED
      BY <1>1, <2>1, <3>1, <3>2, WireAppend
  <2>4. Listening'
    BY <1>10, <2>2 DEF Listening
  <2>5. Types'
    BY <1>1, <1>4, <1>6, <2>2, <2>3 DEF IInv, Types, Cores
  <2>6. Wired' /\ Subscribed'
    BY <2>2, <2>4 DEF Wired, Subscribed, SocketsAreLive
  <2>7. Leaves(core', sock', wire', tab')
    BY <1>5, <1>6, <1>7, <2>2, <2>3 DEF IInv, Leaves
  <2>8. Believes(core', sock', wire', tab')
    BY <1>4, <1>6, <2>3 DEF IInv, Believes
  <2>9. Informed'
    BY <2>3 DEF Informed
  <2> QED
    BY <1>8, <2>3, <2>5, <2>6, <2>7, <2>8, <2>9 DEF IInv
<1>11. CASE ~(Listening /\ sock.auth /\ sock.by = s)
  <2>1. sock' = sock /\ wire' = wire
    BY <1>11 DEF Invalidate
  <2>2. Listening' <=> Listening
    BY <2>1 DEF Listening
  <2>3. Types'
    BY <1>1, <1>4, <1>6, <2>1 DEF IInv, Types, Cores
  <2>4. Wired'
    <3>1. sock.auth => sock.by \in Sessions
      BY <1>1 DEF IInv, Wired, Sockets, Sessions, Nobody
    <3> QED
      BY <1>2, <1>4, <1>6, <1>11, <2>1, <2>2, <3>1 DEF IInv, Wired, SocketsAreLive
  <2>5. Subscribed' /\ Vouched(wire', core'.world) /\ Trusted(wire', sock'.auth)
    BY <1>4, <2>1 DEF IInv, Subscribed
  <2>6. Leaves(core', sock', wire', tab') /\ Believes(core', sock', wire', tab')
    BY <1>4, <1>5, <1>6, <1>7, <2>1 DEF IInv, Leaves, Believes
  <2>7. Informed'
    BY <1>4, <1>6, <2>1 DEF IInv, Informed, Dashboard
  <2> QED
    BY <1>8, <2>3, <2>4, <2>5, <2>6, <2>7 DEF IInv
<1> QED
  BY <1>10, <1>11

\* A session is revoked.
LEMMA RevokeStep ==
    ASSUME IInv, Revoke
    PROVE  IInv'
<1>1. /\ events' \in 0..MaxEvents /\ events' >= events /\ UNCHANGED <<tab, unheard>>
      /\ tab \in Tabs /\ Tidy(tab)
  BY EventBound DEF Revoke, IInv, Types
<1>2. PICK s \in Sessions : Invalidate(s)
  BY DEF Revoke
<1>3. s \in 0..MaxLogins
  BY MaxLoginsNat DEF Sessions
<1>4. tab' \in Tabs /\ Tidy(tab') /\ tab'.list = tab.list
  BY <1>1 DEF Tidy, Steady, Joined, Heard, Asks, Owns
<1>5. Around([tab EXCEPT !.logout = tab'.logout], tab') /\ (tab'.logout = "none" <=> tab.logout = "none")
  BY <1>1 DEF Around, Tabs
<1> QED
  BY <1>1, <1>2, <1>3, <1>4, <1>5, InvalidateStep

\* A logout is served: the session of the cookie is invalidated.
LEMMA LogoutServedStep ==
    ASSUME IInv, LogoutServed
    PROVE  IInv'
<1>1. /\ tab \in Tabs /\ Tidy(tab) /\ tab.logout = "sent"
      /\ tab' = [tab EXCEPT !.logout = "served"]
      /\ Invalidate(tab.cookie) /\ UNCHANGED <<unheard, events>>
      /\ events' \in 0..MaxEvents /\ events' >= events
  BY DEF LogoutServed, IInv, Types
<1>2. tab' \in Tabs
  BY <1>1, ZenonT(60) DEF Tabs
<1>3. /\ tab'.logout = "served" /\ tab'.list = tab.list /\ tab'.token = tab.token
      /\ tab'.cookie = tab.cookie /\ tab'.check = tab.check /\ tab'.conn = tab.conn
      /\ tab'.link = tab.link /\ tab'.worldReady = tab.worldReady /\ tab'.audience = tab.audience
      /\ tab'.validated = tab.validated /\ tab'.guest = tab.guest
      /\ tab'.unavailable = tab.unavailable
  BY <1>1 DEF Tabs
<1>4. Tidy(tab')
  BY <1>1, <1>3 DEF Tidy, Steady, Joined, Heard, Asks, Owns
<1>5. Around([tab EXCEPT !.logout = tab'.logout], tab')
  BY <1>1, <1>3 DEF Around, Tabs
<1>6. tab.cookie \in 0..MaxLogins
  BY <1>1 DEF Tabs
<1> QED
  BY <1>1, <1>2, <1>3, <1>4, <1>5, <1>6, InvalidateStep

\* A handshake is admitted, for the session of the cookie or for nobody.
LEMMA AdmitStep ==
    ASSUME IInv, Admit
    PROVE  IInv'
<1>1. /\ tab.conn = "dialing" /\ sock.phase = "none"
      /\ UNCHANGED <<wire, tab, unheard, events>>
      /\ tab \in Tabs /\ Tidy(tab) /\ sock \in Sockets
  BY DEF Admit, IInv, Types
<1>2. tab.cookie \in 0..MaxLogins /\ 0 \in 0..MaxLogins
  BY <1>1, MaxLoginsNat DEF Tabs
<1>3. /\ Grows
      /\ sock' \in Sockets /\ sock'.phase = "admitted" /\ ~sock'.attached /\ ~sock'.deferred
      /\ sock'.auth => sock'.by # Nobody /\ Alive(tab.cookie)
  <2>1. CASE /\ Alive(tab.cookie) /\ core' = Awake(tab.cookie)
             /\ sock' = [NoSock EXCEPT !.phase = "admitted", !.by = tab.cookie, !.auth = TRUE]
    BY <1>2, <2>1, AwakeGrows DEF NoSock, Sockets, Alive, Nobody
  <2>2. CASE sock' = [NoSock EXCEPT !.phase = "admitted"] /\ UNCHANGED core
    BY <1>2, <2>2, StillGrows DEF NoSock, Sockets, Nobody
  <2> QED
    BY <2>1, <2>2 DEF Admit
<1>4. wire = <<>> /\ ~Listening'
  BY <1>1, <1>3 DEF IInv, Wired, Listening
<1>5. Types'
  BY <1>1, <1>3 DEF IInv, Types, Grows
<1>6. Wired' /\ Subscribed'
  BY <1>1, <1>3, <1>4 DEF Wired, Subscribed, SocketsAreLive
<1>7. Vouched(wire', core'.world) /\ Trusted(wire', sock'.auth)
  BY <1>1, <1>4, WireEmpty
<1>8. Knows(core', tab')
  <2>1. tab.check.by \in 0..MaxLogins /\ tab.list.asker \in 0..MaxLogins
    BY <1>1 DEF Tabs, Checks, Lists
  <2> QED
    BY <1>1, <1>2, <1>3, <2>1 DEF IInv, Knows, Grows
<1>9. Leaves(core', sock', wire', tab')
  <2>1. Dead(core, tab.cookie) => ~Alive(tab.cookie)
    BY DEF Dead, Alive
  <2> QED
    BY <1>1, <1>2, <1>3, <2>1 DEF IInv, Leaves, Grows
<1>10. Believes(core', sock', wire', tab')
  BY <1>1 DEF Believes
<1>11. Informed'
  BY <1>1 DEF IInv, Tidy, Steady, Joined, Informed, Dashboard
<1> QED
  BY <1>1, <1>5, <1>6, <1>7, <1>8, <1>9, <1>10, <1>11 DEF IInv

\* The connection handler subscribes, and retires a socket whose session is gone.
LEMMA WelcomeStep ==
    ASSUME IInv, Welcome
    PROVE  IInv'
<1>1. /\ sock.phase = "admitted" /\ sock' = Welcomed(sock)
      /\ UNCHANGED <<core, tab, unheard, events>>
      /\ tab \in Tabs /\ Tidy(tab) /\ sock \in Sockets /\ core \in Cores
  BY DEF Welcome, IInv, Types
<1>2. /\ sock' \in Sockets /\ sock'.phase = "status" /\ ~sock'.attached /\ ~sock'.deferred
      /\ sock'.auth => sock.auth /\ sock'.by = sock.by /\ core.sess[sock.by] = "live" /\ sock.by # Nobody
  <2>1. 0 \in 0..MaxLogins
    BY MaxLoginsNat
  <2>2. ~sock.attached /\ ~sock.deferred
    BY <1>1 DEF IInv, Wired, SocketsAreLive, Listening
  <2> QED
    BY <1>1, <2>1, <2>2 DEF Welcomed, Retired, NoSock, Sockets, Nobody, IInv, Wired
<1>3. wire = <<>> /\ tab.conn # "up"
  BY <1>1 DEF IInv, Wired, Listening
<1> DEFINE c == Signal("connect")
           i == Signal("invalidated")
           w == Append(<<>>, c)
<1>4. wire' = wire \o <<c>> \o IF sock.auth /\ ~sock'.auth THEN <<i>> ELSE <<>>
  BY DEF Welcome
<1>5. /\ c \in Messages /\ c.kind = "connect" /\ ~c.auth
      /\ i \in Messages /\ i.kind = "invalidated" /\ ~i.auth
  BY DEF Signal, Messages
<1> HIDE DEF c, i
<1>6. /\ wire' \in Seq(Messages) /\ Public(wire')
      /\ Vouched(wire', core'.world) /\ Trusted(wire', sock'.auth)
  <2>1. /\ w \in Seq(Messages) /\ Public(w) /\ Vouched(w, core'.world) /\ Trusted(w, sock'.auth)
    BY <1>5, WireEmpty, WireAppend
  <2>2. <<>> \o <<c>> = w /\ w \o <<>> = w /\ w \o <<i>> = Append(w, i)
    BY <1>5
  <2> HIDE DEF w
  <2>3. wire' = w \/ wire' = Append(w, i)
    BY <1>3, <1>4, <2>2
  <2>4. /\ Append(w, i) \in Seq(Messages) /\ Public(Append(w, i))
        /\ Vouched(Append(w, i), core'.world) /\ Trusted(Append(w, i), sock'.auth)
    BY <1>5, <2>1, WireAppend
  <2> QED
    BY <2>1, <2>3, <2>4
<1>7. Listening'
  BY <1>2 DEF Listening
<1>8. Types'
  BY <1>1, <1>2, <1>6 DEF IInv, Types
<1>9. Wired' /\ Subscribed'
  BY <1>1, <1>2, <1>7 DEF Wired, Subscribed, SocketsAreLive
<1>10. Knows(core', tab') /\ Leaves(core', sock', wire', tab') /\ Believes(core', sock', wire', tab')
  BY <1>1, <1>2, <1>3, <1>6 DEF IInv, Knows, Leaves, Believes
<1>11. Informed'
  BY <1>1, <1>3 DEF Tidy, Steady, Joined, Informed, Dashboard
<1> QED
  BY <1>1, <1>6, <1>8, <1>9, <1>10, <1>11 DEF IInv

\* A message that Core appends for a listening socket.
LEMMA SendStep ==
    ASSUME IInv, NEW m \in Messages, Listening,
           m.kind = "status" /\ m.ready => core.world = "ready", m.auth => sock.auth,
           wire' = Append(wire, m), UNCHANGED <<core, tab, unheard, events>>,
           sock' \in Sockets, sock'.auth = sock.auth, sock'.by = sock.by, Listening',
           sock'.attached \/ sock'.deferred => sock'.auth, Subscribed'
    PROVE  IInv'
<1>1. wire \in Seq(Messages) /\ Vouched(wire, core.world) /\ Trusted(wire, sock.auth)
  BY DEF IInv, Types
<1>2. /\ wire' \in Seq(Messages)
      /\ Downs(wire) => Downs(wire')
      /\ Outs(wire) => Outs(wire')
      /\ Calls(wire) => Calls(wire')
      /\ Vouched(wire', core.world) /\ Trusted(wire', sock.auth)
      /\ Public(wire) /\ ~m.auth => Public(wire')
  BY <1>1, WireAppend
<1>3. Types' /\ Tidy(tab')
  BY <1>2 DEF IInv, Types, Tidy, Steady, Joined, Heard, Asks, Owns
<1>4. Wired'
  BY DEF IInv, Wired, SocketsAreLive
<1>5. Vouched(wire', core'.world) /\ Trusted(wire', sock'.auth)
  BY <1>2
<1>6. Knows(core', tab') /\ Leaves(core', sock', wire', tab') /\ Believes(core', sock', wire', tab')
  BY <1>2 DEF IInv, Knows, Leaves, Believes
<1>7. Informed'
  BY <1>2, StillInformed
<1> QED
  BY <1>3, <1>4, <1>5, <1>6, <1>7 DEF IInv

\* A status says what is so.
LEMMA StatusSays ==
    ASSUME NEW s \in Sockets, NEW world
    PROVE  /\ Status(s, world) \in Messages /\ Status(s, world).kind = "status"
           /\ Status(s, world).auth = s.auth /\ (Status(s, world).ready <=> world = "ready")
BY DEF Status, Messages, Sockets

\* The rest of the connection handler.
LEMMA GreetStep ==
    ASSUME IInv, Greet
    PROVE  IInv'
<1>1. /\ sock.phase = "status" /\ sock' = Greeted(sock)
      /\ wire' = Append(wire, Status(sock, core.world))
      /\ UNCHANGED <<core, tab, unheard, events>>
      /\ sock \in Sockets /\ core.world \in Worlds
  BY DEF Greet, IInv, Types, Cores
<1>2. /\ sock' \in Sockets /\ sock'.phase = "open" /\ sock'.auth = sock.auth /\ sock'.by = sock.by
      /\ sock'.attached <=> sock.auth /\ core.world = "ready"
      /\ sock'.deferred <=> sock.auth /\ core.world # "ready"
      /\ sock'.behind <=> sock.auth /\ core.world = "refresh"
  BY <1>1 DEF Greeted, Sockets
<1>3. Listening /\ Listening'
  BY <1>1, <1>2 DEF Listening
<1>4. Subscribed'
  BY <1>1, <1>2 DEF Subscribed, Worlds
<1> DEFINE m == Status(sock, core.world)
<1>5. m \in Messages /\ m.kind = "status" /\ m.auth = sock.auth /\ (m.ready <=> core.world = "ready")
  BY <1>1, StatusSays
<1>6. wire' = Append(wire, m)
  BY <1>1
<1> HIDE DEF m
<1> QED
  BY <1>1, <1>2, <1>3, <1>4, <1>5, <1>6, SendStep

\* A periodic status.
LEMMA PollStep ==
    ASSUME IInv, Poll
    PROVE  IInv'
<1> DEFINE m == Status(sock, core.world)
<1>1. /\ Listening /\ wire' = Append(wire, m) /\ UNCHANGED <<core, sock, tab, unheard, events>>
      /\ sock \in Sockets
  BY DEF Poll, Broadcast, IInv, Types
<1>2. m \in Messages /\ m.kind = "status" /\ m.auth = sock.auth /\ (m.ready <=> core.world = "ready")
  BY <1>1, StatusSays
<1> HIDE DEF m
<1>3. Listening' /\ Subscribed'
  BY <1>1 DEF Listening, IInv, Subscribed
<1>4. sock.attached \/ sock.deferred => sock.auth
  BY DEF IInv, Wired, SocketsAreLive
<1> QED
  BY <1>1, <1>2, <1>3, <1>4, SendStep

\* What Core does to the world it tells the listening sockets.
LEMMA WorldIsStep ==
    ASSUME IInv, NEW world \in Worlds, NEW s \in {sock, AttachedAtReady(sock)}, WorldIs(world, s),
           events' \in 0..MaxEvents, events' >= events,
           Subscribed'
    PROVE  IInv'
<1>1. /\ core \in Cores /\ core' = [core EXCEPT !.world = world] /\ sock' = s
      /\ UNCHANGED <<tab, unheard>>
      /\ wire' = Broadcast(s, world)
      /\ sock \in Sockets /\ wire \in Seq(Messages) /\ tab \in Tabs /\ Tidy(tab)
  BY DEF WorldIs, IInv, Types
<1>2. core' \in Cores /\ core'.world = world /\ core'.truth = core.truth /\ core'.sess = core.sess
  BY <1>1 DEF Cores
<1>3. /\ sock' \in Sockets /\ sock'.phase = sock.phase /\ sock'.auth = sock.auth /\ sock'.by = sock.by
      /\ sock'.attached \/ sock'.deferred => sock.attached \/ sock.deferred
  BY <1>1 DEF AttachedAtReady, Sockets
<1>4. Listening' <=> Listening
  BY <1>3 DEF Listening
<1> DEFINE m == Status(s, world)
<1>5. m \in Messages /\ m.kind = "status" /\ m.auth = sock.auth /\ (m.ready <=> world = "ready")
  <2>1. s \in Sockets /\ s.auth = sock.auth
    BY <1>1, <1>3
  <2> QED
    BY <2>1, StatusSays
<1>6. /\ Listening => wire' = Append(wire, m)
      /\ ~Listening => wire' = wire /\ wire = <<>>
  BY <1>1 DEF Broadcast, IInv, Wired
<1> HIDE DEF m
<1>7. /\ wire' \in Seq(Messages)
      /\ Downs(wire) => Downs(wire')
      /\ Outs(wire) => Outs(wire')
      /\ Calls(wire) => Calls(wire')
      /\ Listening /\ world # "ready" => Downs(wire')
      /\ Vouched(wire', world) /\ Trusted(wire', sock.auth)
      /\ Public(wire) /\ ~sock.auth => Public(wire')
  <2>1. CASE Listening
    <3>1. world = "ready" => Vouched(wire, world)
      BY DEF Vouched
    <3>2. world # "ready" => Closing(m)
      BY <1>5 DEF Closing
    <3>3. Trusted(wire, sock.auth)
      BY DEF IInv
    <3>4. wire' = Append(wire, m)
      BY <1>6, <2>1
    <3>5. /\ wire' \in Seq(Messages)
          /\ Downs(wire') <=> Downs(wire) \/ Closing(m)
          /\ Outs(wire) => Outs(wire')
          /\ Calls(wire) => Calls(wire')
          /\ Public(wire) /\ ~m.auth => Public(wire')
      BY <1>1, <1>5, <3>4, WireAppend
    <3>6. Vouched(wire', world)
      <4>1. m.kind = "status" /\ m.ready => world = "ready"
        BY <1>5
      <4> QED
        BY <1>1, <1>5, <3>1, <3>2, <3>4, <4>1, VouchedAppend
    <3>7. Trusted(wire', sock.auth)
      BY <1>1, <1>5, <3>3, <3>4, WireAppend
    <3> QED
      BY <1>5, <3>2, <3>5, <3>6, <3>7
  <2>2. CASE ~Listening
    BY <1>6, <2>2, WireEmpty
  <2> QED
    BY <2>1, <2>2
<1>8. Types'
  BY <1>1, <1>2, <1>3, <1>7 DEF IInv, Types, Cores
<1>9. Wired'
  BY <1>1, <1>2, <1>3, <1>4, <1>6 DEF IInv, Wired, SocketsAreLive
<1>10. Vouched(wire', core'.world) /\ Trusted(wire', sock'.auth)
  BY <1>2, <1>3, <1>7
<1>11. Knows(core', tab') /\ Leaves(core', sock', wire', tab')
  BY <1>1, <1>2, <1>3, <1>7 DEF IInv, Knows, Leaves, Used, Dead
<1>12. Believes(core', sock', wire', tab')
  BY <1>1, <1>2, <1>3, <1>7 DEF IInv, Wired, Believes
<1>13. Informed'
  BY <1>1, <1>2, <1>7, StillInformed
<1> QED
  BY <1>1, <1>8, <1>9, <1>10, <1>11, <1>12, <1>13 DEF IInv

\* The world's steps: what waits for world:ready is attached by it, and by nothing else.
LEMMA WorldStep ==
    ASSUME IInv, WorldReady \/ WorldDown \/ RefreshBegins \/ RefreshEnds
    PROVE  IInv'
<1>1. core \in Cores /\ sock \in Sockets
  BY DEF IInv, Types
<1>2. CASE WorldReady
  <2>1. /\ core.world = "down" /\ WorldIs("ready", AttachedAtReady(sock))
        /\ events' \in 0..MaxEvents /\ events' >= events
    BY <1>2 DEF WorldReady, IInv, Types
  <2>2. Subscribed'
    BY <1>1, <2>1 DEF IInv, Subscribed, WorldIs, AttachedAtReady, Sockets
  <2>3. "ready" \in Worlds
    BY DEF Worlds
  <2> QED
    BY <2>1, <2>2, <2>3, WorldIsStep
<1>3. CASE WorldDown
  <2>1. /\ WorldIs("down", sock)
        /\ events' \in 0..MaxEvents /\ events' >= events
    BY <1>3, EventBound DEF WorldDown
  <2>2. Subscribed'
    BY <1>1, <2>1 DEF IInv, Subscribed, WorldIs, Cores
  <2>3. "down" \in Worlds
    BY DEF Worlds
  <2> QED
    BY <2>1, <2>2, <2>3, WorldIsStep
<1>4. CASE RefreshBegins
  <2>1. /\ core.world = "ready" /\ WorldIs("refresh", sock)
        /\ events' \in 0..MaxEvents /\ events' >= events
    BY <1>4, EventBound DEF RefreshBegins
  <2>2. Subscribed'
    BY <1>1, <2>1 DEF IInv, Subscribed, WorldIs
  <2>3. "refresh" \in Worlds
    BY DEF Worlds
  <2> QED
    BY <2>1, <2>2, <2>3, WorldIsStep
<1>5. CASE RefreshEnds
  <2>1. /\ core.world = "refresh" /\ WorldIs("ready", sock)
        /\ events' \in 0..MaxEvents /\ events' >= events
    BY <1>5 DEF RefreshEnds, IInv, Types
  <2>2. Subscribed'
    BY <1>1, <2>1 DEF IInv, Subscribed, WorldIs
  <2>3. "ready" \in Worlds
    BY DEF Worlds
  <2> QED
    BY <2>1, <2>2, <2>3, WorldIsStep
<1> QED
  BY <1>2, <1>3, <1>4, <1>5

\* A change is heard, or known not to be, or the dashboard is on its way out.
LEMMA ChangeStep ==
    ASSUME IInv, Change
    PROVE  IInv'
<1> DEFINE heard == sock.attached /\ core.world = "ready"
           m == Signal("changed")
<1>1. /\ core \in Cores /\ core' = [core EXCEPT !.truth = @ + 1]
      /\ wire' = IF heard THEN Append(wire, m) ELSE wire
      /\ unheard' = (unheard \/ (sock.auth /\ core.world = "ready" /\ (sock.phase = "status" \/ sock.behind)))
      /\ UNCHANGED <<sock, tab>>
      /\ events' \in 0..MaxEvents /\ events' = events + 1
      /\ wire \in Seq(Messages) /\ tab \in Tabs /\ Tidy(tab)
  BY EventBound DEF Change, IInv, Types
<1>2. core' \in Cores /\ core'.world = core.world /\ core'.truth = core.truth + 1 /\ core'.sess = core.sess
  BY <1>1 DEF Cores
<1>3. m \in Messages /\ m.kind = "changed" /\ ~m.auth
  BY DEF Signal, Messages
<1> HIDE DEF m
<1>4. /\ wire' \in Seq(Messages)
      /\ Downs(wire) => Downs(wire')
      /\ Outs(wire) => Outs(wire')
      /\ heard => Calls(wire')
      /\ Vouched(wire', core.world) /\ Trusted(wire', sock.auth)
      /\ Public(wire) => Public(wire')
      /\ wire' # <<>> => wire # <<>> \/ sock.attached
  <2>1. Vouched(wire, core.world) /\ Trusted(wire, sock.auth)
    BY DEF IInv
  <2>2. CASE heard
    BY <1>1, <1>3, <2>1, <2>2, WireAppend
  <2>3. CASE ~heard
    BY <1>1, <2>1, <2>3
  <2> QED
    BY <2>2, <2>3
<1>5. Types'
  BY <1>1, <1>2, <1>4 DEF IInv, Types, Cores
<1>6. Wired' /\ Subscribed'
  BY <1>1, <1>2, <1>4 DEF IInv, Wired, Subscribed, SocketsAreLive, Listening
<1>7. Vouched(wire', core'.world) /\ Trusted(wire', sock'.auth)
  BY <1>1, <1>2, <1>4
<1>8. Knows(core', tab') /\ Leaves(core', sock', wire', tab') /\ Believes(core', sock', wire', tab')
  BY <1>1, <1>2, <1>4 DEF IInv, Knows, Leaves, Believes, Used, Dead
<1>9. Informed'
  <2>1. SUFFICES ASSUME Dashboard(tab), ~unheard'
                 PROVE  Downs(wire') \/ Outs(wire') \/ Calls(wire')
    BY <1>1 DEF Informed, Dashboard
  <2>2. tab.conn = "up" /\ tab.worldReady /\ tab.logout = "none" /\ tab.audience = "authenticated"
    BY <1>1, <2>1 DEF Dashboard, Tidy, Steady, Joined, Heard
  <2>3. core.world = "ready" \/ Downs(wire)
    BY <2>2 DEF IInv, Believes
  <2>4. sock.auth \/ Outs(wire)
    BY <2>2 DEF IInv, Believes
  <2>5. ASSUME core.world = "ready", sock.auth PROVE heard
    <3>1. sock.phase = "open" /\ ~sock.behind
      BY <1>1, <2>1, <2>2, <2>5 DEF IInv, Wired, Listening
    <3> QED
      BY <2>5, <3>1 DEF IInv, Subscribed
  <2> QED
    BY <1>4, <2>3, <2>4, <2>5
<1> QED
  BY <1>1, <1>5, <1>6, <1>7, <1>8, <1>9 DEF IInv

-----------------------------------------------------------------------------
(* Lost sockets, restarts and reloads                                      *)

\* A tab without a socket.
LEMMA SocketGone ==
    ASSUME IInv, sock' = NoSock, wire' = <<>>,
           core' \in Cores, core'.truth = core.truth, UNCHANGED unheard,
           \A s \in 0..MaxLogins : (Used(core, s) => Used(core', s)) /\ (Dead(core, s) => Dead(core', s)),
           events' \in 0..MaxEvents, events' >= events,
           tab' \in Tabs, Tidy(tab'), tab'.conn \notin {"up", "redial"},
           tab'.cookie = tab.cookie,
           (tab'.token = tab.token /\ tab'.logout = tab.logout) \/ tab'.logout = "none",
           tab'.check.pc = "none" \/ tab'.check = tab.check,
           tab'.list.pc = "none" \/ tab'.list = tab.list
    PROVE  IInv'
<1>1. ~sock'.auth /\ ~sock'.attached /\ ~sock'.deferred /\ sock' \in Sockets /\ ~Listening'
  <2>1. 0 \in 0..MaxLogins
    BY MaxLoginsNat
  <2> QED
    BY <2>1 DEF NoSock, Sockets, Nobody, Listening
<1>2. tab \in Tabs /\ tab.cookie \in 0..MaxLogins /\ tab.check.by \in 0..MaxLogins /\ tab.list.asker \in 0..MaxLogins
  BY DEF IInv, Types, Tabs, Checks, Lists
<1>3. Types'
  BY <1>1, WireEmpty DEF IInv, Types, Cores
<1>4. Wired' /\ Subscribed'
  BY <1>1 DEF Wired, Subscribed, SocketsAreLive
<1>5. Vouched(wire', core'.world) /\ Trusted(wire', sock'.auth)
  BY WireEmpty
<1>6. Knows(core', tab')
  BY <1>2 DEF IInv, Knows
<1>7. Leaves(core', sock', wire', tab')
  BY <1>1, <1>2, WireEmpty DEF IInv, Leaves
<1>8. Believes(core', sock', wire', tab')
  BY DEF Believes
<1>9. Informed'
  BY DEF Tidy, Steady, Joined, Informed, Dashboard
<1> QED
  BY <1>3, <1>4, <1>5, <1>6, <1>7, <1>8, <1>9 DEF IInv

\* A tab whose socket was dropped dials.
LEMMA DroppedDials ==
    ASSUME IInv
    PROVE  /\ Dropped(tab) \in Tabs /\ Tidy(Dropped(tab)) /\ Shut(tab, Dropped(tab))
           /\ Dropped(tab).conn = "dialing"
<1> DEFINE h == Hang(tab)
<1>1. tab \in Tabs /\ Tidy(tab)
  BY DEF IInv, Types
<1>2. h \in Tabs /\ Shut(tab, h)
  BY <1>1, HangShuts DEF Tidy, Steady, Joined
<1>3. Dropped(tab) = [h EXCEPT !.conn = "dialing"]
  BY DEF Dropped
<1> HIDE DEF h
<1>4. Dropped(tab) \in Tabs
  BY <1>2, <1>3, ZenonT(60) DEF Tabs
<1>5. Shut(tab, Dropped(tab)) /\ Dropped(tab).conn = "dialing"
  BY <1>2, <1>3 DEF Tabs, Shut
<1> QED
  BY <1>1, <1>4, <1>5, ShutIsTidy DEF Tidy

\* The transport closes.
LEMMA DropStep ==
    ASSUME IInv, Drop
    PROVE  IInv'
<1>1. /\ tab' = Dropped(tab) /\ sock' = NoSock /\ wire' = <<>> /\ UNCHANGED <<core, unheard>>
      /\ events' \in 0..MaxEvents /\ events' >= events
  BY EventBound DEF Drop
<1>2. /\ tab' \in Tabs /\ Tidy(tab') /\ Shut(tab, tab') /\ tab'.conn = "dialing"
  BY <1>1, DroppedDials
<1>3. core' \in Cores /\ core'.truth = core.truth
  BY <1>1 DEF IInv, Types
<1>4. \A s \in 0..MaxLogins : (Used(core, s) => Used(core', s)) /\ (Dead(core, s) => Dead(core', s))
  BY <1>1
<1> QED
  BY <1>1, <1>2, <1>3, <1>4, SocketGone DEF Shut

\* Core restarts.
LEMMA RestartStep ==
    ASSUME IInv, Restart
    PROVE  IInv'
<1> DEFINE sess == [s \in Sessions |-> IF core.sess[s] = "live" THEN "asleep" ELSE core.sess[s]]
<1>1. /\ core \in Cores /\ core' = [core EXCEPT !.world = "down", !.sess = sess]
      /\ tab' = IF tab.conn = "idle" THEN tab ELSE Dropped(tab)
      /\ sock' = NoSock /\ wire' = <<>> /\ UNCHANGED unheard
      /\ events' \in 0..MaxEvents /\ events' >= events
      /\ tab \in Tabs /\ Tidy(tab)
  BY EventBound DEF Restart, IInv, Types, Cores
<1>2. /\ sess \in [Sessions -> {"none", "live", "asleep", "gone"}]
      /\ \A s \in Sessions : (core.sess[s] # "none" => sess[s] # "none") /\ (core.sess[s] = "gone" => sess[s] = "gone")
  BY <1>1 DEF Cores
<1> HIDE DEF sess
<1>3. core' \in Cores /\ core'.truth = core.truth /\ core'.sess = sess
  BY <1>1, <1>2 DEF Cores, Worlds
<1>4. \A s \in 0..MaxLogins : (Used(core, s) => Used(core', s)) /\ (Dead(core, s) => Dead(core', s))
  <2>1. \A s \in 0..MaxLogins : s = 0 \/ s \in Sessions
    BY DEF Sessions
  <2> QED
    BY <1>2, <1>3, <2>1 DEF Used, Dead, Nobody
<1>5. /\ tab' \in Tabs /\ Tidy(tab') /\ tab'.conn \notin {"up", "redial"} /\ tab'.cookie = tab.cookie
      /\ tab'.token = tab.token /\ tab'.logout = tab.logout /\ tab'.check = tab.check /\ tab'.list = tab.list
  <2>1. CASE tab.conn = "idle"
    <3>1. tab' = tab
      BY <1>1, <2>1
    <3> QED
      BY <1>1, <2>1, <3>1 DEF Tidy, Steady, Joined, Heard, Asks, Owns
  <2>2. CASE tab.conn # "idle"
    <3>1. tab' = Dropped(tab)
      BY <1>1, <2>2
    <3> QED
      BY <3>1, DroppedDials DEF Shut
  <2> QED
    BY <2>1, <2>2
<1> QED
  BY <1>1, <1>3, <1>4, <1>5, SocketGone

\* A page that is opened holds a cookie and nothing else.
LEMMA OpenedIsTidy ==
    ASSUME NEW cookie \in 0..MaxLogins
    PROVE  /\ Opened(cookie) \in Tabs /\ Tidy(Opened(cookie)) /\ Opened(cookie).cookie = cookie
           /\ Opened(cookie).conn = "dialing" /\ Opened(cookie).logout = "none" /\ ~Opened(cookie).token
           /\ Opened(cookie).check.pc = "none" /\ Opened(cookie).list.pc = "none"
<1>1. Opened(cookie) \in Tabs
  BY Blank DEF Opened, Tabs, Links
<1> QED
  BY <1>1, Blank DEF Opened, Tidy, Steady, Joined, Heard, Asks, Owns

\* The page is loaded again.
LEMMA ReloadStep ==
    ASSUME IInv, Reload
    PROVE  IInv'
<1>1. /\ tab' = Opened(tab.cookie) /\ sock' = NoSock /\ wire' = <<>> /\ UNCHANGED <<core, unheard>>
      /\ events' \in 0..MaxEvents /\ events' >= events
  BY EventBound DEF Reload
<1>2. tab.cookie \in 0..MaxLogins
  BY DEF IInv, Types, Tabs
<1>3. /\ tab' \in Tabs /\ Tidy(tab') /\ tab'.cookie = tab.cookie
      /\ tab'.conn = "dialing" /\ tab'.logout = "none"
      /\ tab'.check.pc = "none" /\ tab'.list.pc = "none"
  BY <1>1, <1>2, OpenedIsTidy
<1>4. core' \in Cores /\ core'.truth = core.truth
  BY <1>1 DEF IInv, Types
<1>5. \A s \in 0..MaxLogins : (Used(core, s) => Used(core', s)) /\ (Dead(core, s) => Dead(core', s))
  BY <1>1
<1> QED
  BY <1>1, <1>3, <1>4, <1>5, SocketGone

-----------------------------------------------------------------------------
(* The theorems                                                            *)

\* The invariant holds of a page that was just opened.
LEMMA InitIInv == Init => IInv
<1> SUFFICES ASSUME Init PROVE IInv
  OBVIOUS
<1>1. 0 \in 0..MaxLogins /\ 0 \in 0..MaxEvents
  BY MaxLoginsNat, MaxEventsNat
<1>2. /\ core \in Cores /\ core.world = "ready" /\ core.truth = 0
      /\ \A s \in Sessions : s = 1 => core.sess[s] = "live"
      /\ sock = NoSock /\ wire = <<>> /\ unheard = FALSE /\ events = 0
  BY DEF Init, Cores, Worlds
<1>3. ~sock.auth /\ ~sock.attached /\ ~sock.deferred /\ sock \in Sockets
  BY <1>1, <1>2 DEF NoSock, Sockets, Nobody
<1>4. PICK cookie \in {Nobody, 1} : tab = Opened(cookie)
  BY DEF Init
<1>5. CASE cookie \in 0..MaxLogins
  <2>1. /\ tab \in Tabs /\ Tidy(tab) /\ tab.cookie = cookie
        /\ tab.conn = "dialing" /\ tab.logout = "none" /\ ~tab.token
        /\ tab.check.pc = "none" /\ tab.list.pc = "none"
    BY <1>4, <1>5, OpenedIsTidy
  <2>2. Types
    <3>1. core.truth <= events
      BY <1>2
    <3>2. wire \in Seq(Messages) /\ unheard \in BOOLEAN /\ events \in 0..MaxEvents /\ tab.conn # "redial"
      BY <1>1, <1>2, <2>1, WireEmpty
    <3> QED
      BY <1>2, <1>3, <2>1, <3>1, <3>2 DEF Types
  <2>3. Wired /\ Subscribed
    BY <1>2, <1>3, <2>1 DEF Wired, Subscribed, SocketsAreLive
  <2>4. Used(core, cookie)
    BY <1>2, <1>4, <1>5 DEF Used, Nobody, Sessions
  <2> QED
    BY <1>2, <2>1, <2>2, <2>3, <2>4, WireEmpty DEF IInv, Knows, Leaves, Believes, Informed, Dashboard
<1>6. cookie \in 0..MaxLogins
  BY MaxLoginsNat DEF Nobody
<1> QED
  BY <1>5, <1>6

\* Every step keeps it.
LEMMA NextIInv == IInv /\ [Next]_vars => IInv'
<1> SUFFICES ASSUME IInv, [Next]_vars PROVE IInv'
  OBVIOUS
<1>1. CASE Receive
  BY <1>1, ReceiveStep
<1>2. CASE Answers
  <2>1. CASE CheckServed
    BY <2>1, CheckServedStep
  <2>2. CASE CheckArrives
    BY <2>2, CheckArrivesStep
  <2>3. CASE ListServed
    BY <2>3, ListServedStep
  <2>4. CASE ListArrives
    BY <2>4, ListArrivesStep
  <2>5. CASE LogoutServed
    BY <2>5, LogoutServedStep
  <2>6. CASE LogoutAnswered
    <3>1. /\ tab.logout # "none" /\ LogoutEnds(Nobody) /\ UNCHANGED <<core, unheard>>
          /\ events' \in 0..MaxEvents /\ events' >= events
      BY <2>6 DEF LogoutAnswered, IInv, Types
    <3> QED
      BY <3>1, LogoutEndsStep
  <2> QED
    BY <1>2, <2>1, <2>2, <2>3, <2>4, <2>5, <2>6 DEF Answers
<1>3. CASE Admit
  BY <1>3, AdmitStep
<1>4. CASE Welcome
  BY <1>4, WelcomeStep
<1>5. CASE Greet
  BY <1>5, GreetStep
<1>6. CASE Poll
  BY <1>6, PollStep
<1>7. CASE FiveSeconds
  BY <1>7, FiveSecondsStep
<1>8. CASE WorldReady \/ WorldDown \/ RefreshBegins \/ RefreshEnds
  BY <1>8, WorldStep
<1>9. CASE Change
  BY <1>9, ChangeStep
<1>10. CASE Revoke
  BY <1>10, RevokeStep
<1>11. CASE Login
  BY <1>11, LoginStep
<1>12. CASE Logout
  BY <1>12, LogoutStep
<1>13. CASE LogoutLost
  <2>1. /\ tab.logout # "none" /\ LogoutEnds(tab.cookie) /\ UNCHANGED <<core, unheard>>
        /\ events' \in 0..MaxEvents /\ events' >= events
    BY <1>13, EventBound DEF LogoutLost
  <2> QED
    BY <2>1, LogoutEndsStep
<1>14. CASE RequestFails
  BY <1>14, RequestFailsStep
<1>15. CASE Drop
  BY <1>15, DropStep
<1>16. CASE Restart
  BY <1>16, RestartStep
<1>17. CASE BudgetSpent
  BY <1>17, BudgetSpentStep
<1>18. CASE Reload
  BY <1>18, ReloadStep
<1>19. CASE UNCHANGED vars
  BY <1>19 DEF vars, IInv, Types, Tidy, Steady, Joined, Heard, Asks, Owns, Wired, Subscribed,
               Knows, Leaves, Believes, Informed, Listening, SocketsAreLive, Dashboard
<1> QED
  BY <1>1, <1>2, <1>3, <1>4, <1>5, <1>6, <1>7, <1>8, <1>9, <1>10, <1>11, <1>12,
     <1>13, <1>14, <1>15, <1>16, <1>17, <1>18, <1>19 DEF Next

\* The inductive invariant holds in every behaviour.
THEOREM LinkInvariant == Spec => []IInv
<1>1. Init => IInv
  BY InitIInv
<1>2. IInv /\ [Next]_vars => IInv'
  BY NextIInv
<1> QED
  BY <1>1, <1>2, PTL DEF Spec

\* Types: at most MaxLogins sessions, and a list of actors that changes at most once per event.
THEOREM BrowserTypes == Spec => []TypeOK
<1>1. IInv => TypeOK
  <2> SUFFICES ASSUME IInv PROVE TypeOK
    OBVIOUS
  <2>1. core.truth \in 0..MaxEvents
    BY MaxEventsNat DEF IInv, Types, Cores
  <2>2. core \in [world : Worlds, truth : 0..MaxEvents, sess : [Sessions -> {"none", "live", "asleep", "gone"}]]
    BY <2>1 DEF IInv, Types, Cores
  <2>3. /\ tab.cookie \in 0..MaxLogins /\ tab.link \in Links /\ tab.conn \in {"idle", "dialing", "up"}
        /\ tab.check.pc \in Asked /\ tab.list.pc \in Asked
    BY DEF IInv, Types, Tabs, Checks, Lists
  <2> QED
    BY <2>2, <2>3 DEF IInv, Types, TypeOK, Sockets, Messages
<1> QED
  BY <1>1, LinkInvariant, PTL

\* A settled dashboard shows the list of actors as Core has it, whatever was dropped, restarted,
\* reread or overtaken before: an event that is missed is made up for by a read of the whole list.
THEOREM DashboardsShow == Spec => []ReadyShowsTheWorld
<1>1. IInv => ReadyShowsTheWorld
  BY DEF IInv, Informed, ReadyShowsTheWorld, Settled, Fresh, Downs, Outs, Calls
<1> QED
  BY <1>1, LinkInvariant, PTL

\* Nothing outlives its session: a socket is authenticated, subscribed or waiting only while its
\* session lives, and a dashboard shows nothing that was read for another session.
THEOREM SessionsAreWalls == Spec => []NothingOutlivesItsSession
<1>1. IInv => NothingOutlivesItsSession
  BY DEF IInv, Wired, NothingOutlivesItsSession, ListsAreOwn, Dashboard, Tidy, Steady, Owns
<1> QED
  BY <1>1, LinkInvariant, PTL
================================================================================
