------------------------- MODULE WorldSupervisionProofs -------------------------
(***************************************************************************)
(* Theorems about how Core watches over its world: the supervision of the  *)
(* connection (WorldTransport) and the gate that its handlers close and    *)
(* open (WorldWorkGate), for any number of worlds and events, and of flows,*)
(* blockers and drains.                                                    *)
(*                                                                         *)
(* Each handler of the controller is an operator on its state.  There is   *)
(* a lemma per handler: from any state of the right shape it leads to a    *)
(* good one, in which somebody still watches, and no request that was      *)
(* superseded is lost sight of.  The gate's theorems are at the end.       *)
(***************************************************************************)
EXTENDS WorldTransport, WorldWorkGate, FiniteSetTheorems, TLAPS

-----------------------------------------------------------------------------
(* Shapes *)

Attempts == [pc : AttemptPcs, answer : Answers]
Wires    == {"none", "lost", "shutdown", "reload", "progress"}

Cores == [lifecycle : Lifecycles, retained : BOOLEAN, title : Worlds \cup {None}, blind : BOOLEAN,
          evidence : 0..1, reports : 0..2, retry : BOOLEAN, beat : BOOLEAN, probes : SUBSET Probes,
          attempt : Attempts, up : BOOLEAN, wire : Wires,
          run : BOOLEAN, late : SUBSET LateRuns, rejected : BOOLEAN, held : BOOLEAN, engaged : BOOLEAN, paused : BOOLEAN]

\* No request of the current epoch is outstanding.
Stale(P) == \A p \in P : ~p.fresh

\* A request from before a confirmed launch or shutdown stays outstanding.
Past(P, Q) == \A p \in P : p.before /\ ~p.fresh => p \in Q

\* A connection has no retry timer beside it, and no attempt but the one that awaits its status.
Linked(c) ==
    /\ (c.wire # "none" \/ c.run) => c.up
    /\ c.retry => ~c.up /\ c.attempt.pc = "none"
    /\ c.attempt.pc \in {"handshake", "discover", "connect", "doomed"} => ~c.up
    /\ c.attempt.pc = "status" => c.up

\* A world is starting or served only over a connection or during an attempt.
Placed(c) == c.lifecycle \in {"startup", "active"} /\ ~c.up => c.attempt.pc # "none"

\* A request that counts was made of the world now served, and of no earlier past.
Known(c) == \A p \in c.probes :
    /\ p.fresh /\ c.lifecycle = "active" => p.as = "active"
    /\ p.before => ~p.fresh

\* Somebody watches.
Monitored(c) == ~c.up \/ c.lifecycle = "active" =>
    \/ c.retry \/ c.beat \/ c.paused \/ c.attempt.pc # "none" \/ ~Stale(c.probes)

\* All but the last; handlers that start a timer or an attempt make it good.
Fit(c) == c \in Cores /\ Linked(c) /\ Placed(c) /\ Known(c)
Good(c) == Fit(c) /\ Monitored(c)

\* They differ in the timers and the requests alone.
Retimed(c, d) ==
    /\ d.lifecycle = c.lifecycle /\ d.retained = c.retained /\ d.title = c.title /\ d.blind = c.blind
    /\ d.evidence = c.evidence /\ d.reports = c.reports /\ d.attempt = c.attempt
    /\ d.up = c.up /\ d.wire = c.wire /\ d.run = c.run /\ d.late = c.late /\ d.rejected = c.rejected /\ d.held = c.held
    /\ d.engaged = c.engaged /\ d.paused = c.paused

\* Moving the epoch makes every outstanding request one that no longer counts.
LEMMA StaleProbes ==
    ASSUME NEW P \in SUBSET Probes
    PROVE  LET Q == {[p EXCEPT !.fresh = FALSE] : p \in P}
           IN Q \in SUBSET Probes /\ Stale(Q) /\ Past(P, Q)
<1> DEFINE Q == {[p EXCEPT !.fresh = FALSE] : p \in P}
<1>1. ASSUME NEW p \in P
      PROVE  [p EXCEPT !.fresh = FALSE] \in Probes /\ ~[p EXCEPT !.fresh = FALSE].fresh
  BY DEF Probes
<1>2. ASSUME NEW p \in P, ~p.fresh
      PROVE  [p EXCEPT !.fresh = FALSE] = p
  BY <1>2 DEF Probes
<1>3. Q \in SUBSET Probes /\ Stale(Q)
  BY <1>1 DEF Stale
<1>4. Past(P, Q)
  BY <1>2 DEF Past
<1> QED
  BY <1>3, <1>4

\* Stopping the heartbeat touches the heartbeat and the requests alone.
LEMMA StopFacts ==
    ASSUME NEW c \in Cores
    PROVE  LET d == StopHeartbeat(c)
           IN /\ d \in Cores /\ Retimed(c, d) /\ d.retry = c.retry /\ ~d.beat
              /\ Stale(d.probes) /\ Past(c.probes, d.probes)
<1> DEFINE Q == {[p EXCEPT !.fresh = FALSE] : p \in c.probes}
<1>1. Q \in SUBSET Probes /\ Stale(Q) /\ Past(c.probes, Q)
  BY StaleProbes DEF Cores
<1>2. StopHeartbeat(c) = [c EXCEPT !.beat = FALSE, !.probes = Q]
  BY DEF StopHeartbeat
<1> HIDE DEF Q
<1>3. StopHeartbeat(c) \in Cores
  BY <1>1, <1>2, ZenonT(60) DEF Cores
<1> QED
  BY <1>1, <1>2, <1>3 DEF Cores, Retimed

\* Starting it moves the epoch first.
LEMMA StartFacts ==
    ASSUME NEW c \in Cores
    PROVE  LET d == StartHeartbeat(c)
           IN /\ d \in Cores /\ Retimed(c, d) /\ d.retry = c.retry /\ d.beat
              /\ Stale(d.probes) /\ Past(c.probes, d.probes)
<1>1. PICK s \in Cores : /\ s = StopHeartbeat(c) /\ Retimed(c, s) /\ s.retry = c.retry
                         /\ Stale(s.probes) /\ Past(c.probes, s.probes)
  BY StopFacts
<1>2. StartHeartbeat(c) = [s EXCEPT !.beat = TRUE]
  BY <1>1 DEF StartHeartbeat
<1>3. StartHeartbeat(c) \in Cores
  BY <1>2, ZenonT(60) DEF Cores
<1> QED
  BY <1>1, <1>2, <1>3 DEF Cores, Retimed

\* So does scheduling a retry.
LEMMA ScheduleFacts ==
    ASSUME NEW c \in Cores
    PROVE  LET d == ScheduleReconnect(c)
           IN /\ d \in Cores /\ Retimed(c, d) /\ d.retry
              /\ Stale(d.probes) /\ Past(c.probes, d.probes)
<1>1. PICK s \in Cores : /\ s = StopHeartbeat(c) /\ Retimed(c, s)
                         /\ Stale(s.probes) /\ Past(c.probes, s.probes)
  BY StopFacts
<1>2. ScheduleReconnect(c) = [s EXCEPT !.retry = TRUE]
  BY <1>1 DEF ScheduleReconnect
<1>3. ScheduleReconnect(c) \in Cores
  BY <1>2, ZenonT(60) DEF Cores
<1> QED
  BY <1>1, <1>2, <1>3 DEF Cores, Retimed

\* The same moment of monitoring: what the invariant speaks of is equal.
Kept(c, d) ==
    /\ d.lifecycle = c.lifecycle /\ d.attempt = c.attempt /\ d.up = c.up /\ d.wire = c.wire
    /\ d.retry = c.retry /\ d.beat = c.beat /\ d.probes = c.probes /\ d.paused = c.paused
    /\ d.run => c.run

\* There is no connection, and nothing of an earlier one to come.
Apart(c) == ~c.up /\ c.wire = "none" /\ ~c.run

\* The invariant does not speak of anything else.
LEMMA KeptIsFit ==
    ASSUME NEW c, NEW d \in Cores, Kept(c, d)
    PROVE  /\ Linked(c) => Linked(d)
           /\ Fit(c) => Fit(d)
           /\ Good(c) => Good(d)
BY DEF Kept, Fit, Good, Linked, Placed, Known, Monitored

\* Forgetting the setup reports touches nothing the invariant speaks of.
LEMMA WorldFacts ==
    ASSUME NEW c \in Cores
    PROVE  World(c) \in Cores /\ Kept(c, World(c))
<1>1. World(c) = [c EXCEPT !.evidence = 0, !.reports = 0]
  BY DEF World
<1>2. 0 \in 0..1 /\ 0 \in 0..2
  OBVIOUS
<1>3. World(c) \in Cores
  BY <1>1, <1>2, ZenonT(60) DEF Cores
<1> QED
  BY <1>1, <1>3 DEF Cores, Kept

\* Nor does the teardown, but for the run that it retires.
LEMMA TeardownFacts ==
    ASSUME NEW c \in Cores
    PROVE  Teardown(c) \in Cores /\ Kept(c, Teardown(c)) /\ ~Teardown(c).run
<1> DEFINE l == IF c.run \/ "joined" \in c.late
                THEN (c.late \ {"joined"}) \cup {IF c.retained THEN "aside" ELSE "ahead"} ELSE c.late
<1>1. Teardown(c) = [c EXCEPT !.retained = FALSE, !.run = FALSE, !.late = l]
  BY DEF Teardown
<1>2. l \in SUBSET LateRuns
  BY DEF Cores, LateRuns
<1> HIDE DEF l
<1>3. Teardown(c) \in Cores
  BY <1>1, <1>2, ZenonT(60) DEF Cores
<1> QED
  BY <1>1, <1>3 DEF Cores, Kept

\* Nor does the loss of its connection.
LEMMA AbandonedFacts ==
    ASSUME NEW c \in Cores
    PROVE  Abandoned(c) \in Cores /\ Kept(c, Abandoned(c)) /\ ~Abandoned(c).run
<1> DEFINE l == IF c.run /\ ~Shared(c) /\ "ahead" \notin c.late THEN c.late \cup {"joined"} ELSE c.late
<1>1. Abandoned(c) = [c EXCEPT !.run = FALSE, !.late = l]
  BY DEF Abandoned
<1>2. l \in SUBSET LateRuns
  BY DEF Cores, LateRuns
<1> HIDE DEF l
<1>3. Abandoned(c) \in Cores
  BY <1>1, <1>2, ZenonT(60) DEF Cores
<1> QED
  BY <1>1, <1>3 DEF Cores, Kept

\* Retiring the socket leaves timers and requests.
LEMMA DisconnectFacts ==
    ASSUME NEW c \in Cores
    PROVE  LET d == TransportDisconnect(c)
           IN /\ d \in Cores /\ Apart(d) /\ d.attempt = NoAttempt
              /\ d.lifecycle = c.lifecycle /\ d.retry = c.retry /\ d.beat = c.beat
              /\ d.probes = c.probes /\ d.paused = c.paused
<1>1. PICK a \in Cores : a = Abandoned(c) /\ Kept(c, a) /\ ~a.run
  BY AbandonedFacts
<1>2. TransportDisconnect(c) = [a EXCEPT !.attempt = NoAttempt, !.up = FALSE, !.wire = "none", !.held = FALSE]
  BY <1>1 DEF TransportDisconnect
<1>3. NoAttempt \in Attempts
  BY DEF NoAttempt, Attempts, AttemptPcs, Answers
<1>4. "none" \in Wires
  BY DEF Wires
<1>5. TransportDisconnect(c) \in Cores
  BY <1>2, <1>3, <1>4, ZenonT(60) DEF Cores
<1> QED
  BY <1>1, <1>2, <1>5 DEF Cores, Apart, Kept

\* An attempt starts, unless there is a connection or an attempt.
LEMMA ConnectFacts ==
    ASSUME NEW c \in Cores
    PROVE  LET d == Connect(c)
           IN /\ d \in Cores
              /\ d.lifecycle = c.lifecycle /\ d.up = c.up /\ d.wire = c.wire /\ d.paused = c.paused
              /\ d.run = c.run /\ ~d.retry /\ Stale(d.probes) /\ Past(c.probes, d.probes)
              /\ IF c.up \/ c.attempt.pc # "none" THEN d.attempt = c.attempt
                 ELSE d.attempt.pc = "handshake"
<1>1. PICK s \in Cores : /\ s = StopHeartbeat(c) /\ Retimed(c, s)
                         /\ Stale(s.probes) /\ Past(c.probes, s.probes)
  BY StopFacts
<1>2. PICK e \in Cores : e = [s EXCEPT !.retry = FALSE]
  BY ZenonT(60) DEF Cores
<1>3. /\ e.lifecycle = c.lifecycle /\ e.up = c.up /\ e.wire = c.wire /\ e.paused = c.paused
      /\ e.run = c.run /\ ~e.retry /\ e.probes = s.probes /\ e.attempt = c.attempt
  BY <1>1, <1>2 DEF Cores, Retimed
<1> DEFINE a == [NoAttempt EXCEPT !.pc = "handshake"]
<1>4. Connect(c) = IF e.up \/ e.attempt.pc # "none" THEN e ELSE [e EXCEPT !.attempt = a]
  BY <1>1, <1>2 DEF Connect
<1>5. a \in Attempts /\ a.pc = "handshake"
  BY DEF NoAttempt, Attempts, AttemptPcs, Answers
<1> HIDE DEF a
<1>6. CASE c.up \/ c.attempt.pc # "none"
  BY <1>1, <1>3, <1>4, <1>6
<1>7. CASE ~(c.up \/ c.attempt.pc # "none")
  <2>1. Connect(c) = [e EXCEPT !.attempt = a]
    BY <1>3, <1>4, <1>7
  <2>2. Connect(c) \in Cores
    BY <2>1, <1>5, ZenonT(60) DEF Cores
  <2> QED
    BY <1>1, <1>3, <1>5, <1>7, <2>1, <2>2 DEF Cores
<1> QED
  BY <1>6, <1>7

-----------------------------------------------------------------------------
(* What watches *)

\* A heartbeat watches whatever state is consistent.
LEMMA StartIsGood ==
    ASSUME NEW c \in Cores, Linked(c), Placed(c)
    PROVE  Good(StartHeartbeat(c)) /\ Past(c.probes, StartHeartbeat(c).probes)
<1>1. PICK d \in Cores : /\ d = StartHeartbeat(c) /\ Retimed(c, d) /\ d.retry = c.retry /\ d.beat
                         /\ Stale(d.probes) /\ Past(c.probes, d.probes)
  BY StartFacts
<1>2. Linked(d) /\ Placed(d)
  BY <1>1 DEF Retimed, Linked, Placed
<1>3. Known(d) /\ Monitored(d)
  BY <1>1 DEF Stale, Known, Monitored
<1> QED
  BY <1>1, <1>2, <1>3 DEF Good, Fit

\* So does an attempt, but not a connection that is served already.
LEMMA ConnectIsGood ==
    ASSUME NEW c \in Cores, Linked(c), c.up => c.lifecycle # "active"
    PROVE  Good(Connect(c)) /\ Past(c.probes, Connect(c).probes)
<1>1. PICK d \in Cores :
              /\ d = Connect(c)
              /\ d.lifecycle = c.lifecycle /\ d.up = c.up /\ d.wire = c.wire /\ d.run = c.run
              /\ ~d.retry /\ Stale(d.probes) /\ Past(c.probes, d.probes)
              /\ IF c.up \/ c.attempt.pc # "none" THEN d.attempt = c.attempt
                 ELSE d.attempt.pc = "handshake"
  BY ConnectFacts
<1>2. Linked(d) /\ Placed(d)
  BY <1>1 DEF Linked, Placed
<1>3. Known(d)
  BY <1>1 DEF Stale, Known
<1>4. Monitored(d)
  BY <1>1 DEF Monitored
<1> QED
  BY <1>1, <1>2, <1>3, <1>4 DEF Good, Fit

-----------------------------------------------------------------------------
(* Handlers *)

\* Nothing is served or starting, and a timer runs.
Settled(c) ==
    /\ c \in Cores /\ Apart(c) /\ c.lifecycle \notin {"startup", "active"}
    /\ c.retry \/ c.beat
    /\ Stale(c.probes)

\* Nothing is served or starting.
Unplaced(c) == c \in Cores /\ Apart(c) /\ c.lifecycle \notin {"startup", "active"}

\* An attempt that ends leaves all else.
LEMMA EndsFacts ==
    ASSUME NEW c \in Cores
    PROVE  LET d == Ends(c)
           IN /\ d \in Cores /\ d.attempt = NoAttempt
              /\ d.lifecycle = c.lifecycle /\ d.up = c.up /\ d.wire = c.wire /\ d.retry = c.retry /\ d.run = c.run
              /\ d.beat = c.beat /\ d.probes = c.probes /\ d.paused = c.paused
<1>1. Ends(c) = [c EXCEPT !.attempt = NoAttempt]
  BY DEF Ends
<1>2. NoAttempt \in Attempts
  BY DEF NoAttempt, Attempts, AttemptPcs, Answers
<1>3. Ends(c) \in Cores
  BY <1>1, <1>2, ZenonT(60) DEF Cores
<1> QED
  BY <1>1, <1>3 DEF Cores

\* A timer watches while nothing is served, whether the attempt has ended or ends now.
LEMMA SettledIsGood ==
    ASSUME NEW c, Settled(c)
    PROVE  /\ c.attempt.pc = "none" => Good(c)
           /\ Good(Ends(c)) /\ Ends(c).probes = c.probes
<1>1. PICK d \in Cores :
              /\ d = Ends(c) /\ d.attempt = NoAttempt
              /\ d.lifecycle = c.lifecycle /\ d.up = c.up /\ d.wire = c.wire /\ d.retry = c.retry /\ d.run = c.run
              /\ d.beat = c.beat /\ d.probes = c.probes
  BY EndsFacts DEF Settled, Apart
<1>2. d.attempt.pc = "none" /\ Settled(d)
  BY <1>1 DEF NoAttempt, Settled, Apart
<1>3. ASSUME NEW e, Settled(e), e.attempt.pc = "none"
      PROVE  Good(e)
  <2>1. Linked(e) /\ Placed(e)
    BY <1>3 DEF Settled, Apart, Linked, Placed
  <2>2. Known(e) /\ Monitored(e)
    BY <1>3 DEF Settled, Apart, Stale, Known, Monitored
  <2> QED
    BY <1>3, <2>1, <2>2 DEF Good, Fit, Settled, Apart
<1> QED
  BY <1>1, <1>2, <1>3

\* Both timers settle a state in which nothing is served.
LEMMA TimerSettles ==
    ASSUME NEW c, Unplaced(c),
           NEW d \in {StartHeartbeat(c), ScheduleReconnect(c)}
    PROVE  Settled(d) /\ d.attempt = c.attempt /\ Past(c.probes, d.probes)
<1>1. CASE d = StartHeartbeat(c)
  BY <1>1, StartFacts DEF Unplaced, Settled, Retimed, Apart
<1>2. CASE d = ScheduleReconnect(c)
  BY <1>2, ScheduleFacts DEF Unplaced, Settled, Retimed, Apart
<1> QED
  BY <1>1, <1>2

\* A setup report without a connection ends in a retry, believed or not.
LEMMA RecordSettles ==
    ASSUME NEW c \in Cores, Apart(c)
    PROVE  LET d == RecordSetupEvidence(c)
           IN Settled(d) /\ d.attempt = c.attempt /\ Past(c.probes, d.probes)
<1> DEFINE r == IF c.reports < 2 THEN c.reports + 1 ELSE 2
           d == [c EXCEPT !.reports = r]
<1>1. r \in 0..2
  BY DEF Cores
<1> HIDE DEF r
<1>2. d \in Cores
  BY <1>1, ZenonT(60) DEF Cores
<1>3. /\ d.up = c.up /\ d.wire = c.wire /\ d.run = c.run /\ d.attempt = c.attempt /\ d.probes = c.probes
  BY DEF Cores
<1> DEFINE e == [d EXCEPT !.evidence = 1, !.lifecycle = "offline"]
           f == [d EXCEPT !.evidence = 0, !.title = None, !.lifecycle = "setup"]
<1> HIDE DEF d
<1>4. {"offline", "setup"} \subseteq Lifecycles /\ None \in Worlds \cup {None} /\ {0, 1} \subseteq 0..1
  BY DEF Lifecycles
<1>5. e \in Cores /\ f \in Cores
  <2>1. "offline" \in Lifecycles /\ "setup" \in Lifecycles /\ 0 \in 0..1 /\ 1 \in 0..1
    BY <1>4
  <2>2. e \in Cores
    BY <1>2, <2>1, ZenonT(60) DEF Cores
  <2>3. f \in Cores
    BY <1>2, <1>4, <2>1, ZenonT(60) DEF Cores
  <2> QED
    BY <2>2, <2>3
<1>6. Unplaced(e) /\ e.attempt = c.attempt /\ e.probes = c.probes
  BY <1>2, <1>3, <1>5 DEF Cores, Unplaced, Apart
<1> DEFINE h == IF c.retained THEN Teardown(f) ELSE f
<1>7. Unplaced(h) /\ h.attempt = c.attempt /\ h.probes = c.probes
  <2>1. f.lifecycle = "setup" /\ f.up = c.up /\ f.wire = c.wire /\ f.run = c.run
          /\ f.attempt = c.attempt /\ f.probes = c.probes
    BY <1>2, <1>3 DEF Cores
  <2> HIDE DEF f
  <2>2. Unplaced(f)
    BY <2>1, <1>5 DEF Unplaced, Apart
  <2>3. Unplaced(Teardown(f)) /\ Teardown(f).attempt = c.attempt /\ Teardown(f).probes = c.probes
    BY <2>1, <1>5, TeardownFacts DEF Kept, Unplaced, Apart
  <2> QED
    BY <2>1, <2>2, <2>3
<1> DEFINE g == RecordSetupEvidence(c)
<1>8. g \in {ScheduleReconnect(e), ScheduleReconnect(h)}
  BY DEF RecordSetupEvidence, d, r
<1> HIDE DEF e, f, g, h
<1>9. Settled(g) /\ g.attempt = c.attempt /\ Past(c.probes, g.probes)
  BY <1>6, <1>7, <1>8, TimerSettles
<1> QED
  BY <1>9 DEF g

\* A failed connection ends in a retry.
LEMMA FailedSettles ==
    ASSUME NEW c \in Cores, Apart(c)
    PROVE  LET d == ConnectionFailed(c)
           IN Settled(d) /\ d.attempt = c.attempt /\ Past(c.probes, d.probes)
<1> DEFINE l == IF c.lifecycle = "setup" THEN "setup" ELSE "offline"
           e == [c EXCEPT !.lifecycle = l]
<1>1. l \in Lifecycles /\ l \notin {"startup", "active"}
  BY DEF Lifecycles
<1> HIDE DEF l
<1>2. e \in Cores
  BY <1>1, ZenonT(60) DEF Cores
<1>3. Unplaced(e) /\ e.attempt = c.attempt /\ e.probes = c.probes
  BY <1>1, <1>2 DEF Cores, Unplaced, Apart
<1>4. ConnectionFailed(c) = ScheduleReconnect(e)
  BY DEF ConnectionFailed, l
<1> HIDE DEF e
<1> QED
  BY <1>3, <1>4, TimerSettles

\* So does a world that has gone.
LEMMA MissingSettles ==
    ASSUME NEW c \in Cores, Apart(c)
    PROVE  LET d == WorldMissing(c)
           IN Settled(d) /\ d.attempt = c.attempt /\ Past(c.probes, d.probes)
<1>1. PICK e \in Cores : e = World(c) /\ Kept(c, e)
  BY WorldFacts
<1> DEFINE f == [e EXCEPT !.lifecycle = "offline"]
<1>2. "offline" \in Lifecycles
  BY DEF Lifecycles
<1>3. f \in Cores
  BY <1>2, ZenonT(60) DEF Cores
<1>4. Unplaced(f) /\ f.attempt = c.attempt /\ f.probes = c.probes
  BY <1>1, <1>3 DEF Cores, Kept, Unplaced, Apart
<1>5. WorldMissing(c) = ScheduleReconnect(f)
  BY <1>1 DEF WorldMissing
<1> HIDE DEF f
<1> QED
  BY <1>4, <1>5, TimerSettles

\* A refused service account ends in a heartbeat.
LEMMA RejectedSettles ==
    ASSUME NEW c \in Cores, Apart(c)
    PROVE  LET d == AccountRejected(c)
           IN Settled(d) /\ d.attempt = c.attempt /\ Past(c.probes, d.probes)
<1> DEFINE f == [c EXCEPT !.rejected = TRUE, !.retry = FALSE, !.lifecycle = "closed"]
<1>1. "closed" \in Lifecycles
  BY DEF Lifecycles
<1>2. f \in Cores
  BY <1>1, ZenonT(60) DEF Cores
<1>3. Unplaced(f) /\ f.attempt = c.attempt /\ f.probes = c.probes
  BY <1>2 DEF Cores, Unplaced, Apart
<1>4. AccountRejected(c) = StartHeartbeat(f)
  BY DEF AccountRejected
<1> HIDE DEF f
<1> QED
  BY <1>3, <1>4, TimerSettles

\* Without a connection and an attempt either timer is enough.
LEMMA QuietIsGood ==
    ASSUME NEW c, Unplaced(c), c.attempt.pc = "none",
           NEW d \in {StartHeartbeat(c), ScheduleReconnect(c)}
    PROVE  Good(d) /\ Past(c.probes, d.probes)
BY TimerSettles, SettledIsGood

\* A change of the lifecycle state alone.
LEMMA MoveFacts ==
    ASSUME NEW c \in Cores, NEW l \in Lifecycles
    PROVE  LET d == [c EXCEPT !.lifecycle = l]
           IN /\ d \in Cores /\ d.lifecycle = l
              /\ d.attempt = c.attempt /\ d.up = c.up /\ d.wire = c.wire /\ d.run = c.run
              /\ d.retry = c.retry /\ d.probes = c.probes
<1>1. [c EXCEPT !.lifecycle = l] \in Cores
  BY ZenonT(60) DEF Cores
<1> QED
  BY <1>1 DEF Cores

\* A confirmed launch or shutdown marks the outstanding requests as of before it.
LEMMA ConfirmedFacts ==
    ASSUME NEW c \in Cores
    PROVE  /\ Confirmed(c) \in Cores /\ Past(c.probes, Confirmed(c).probes)
           /\ Confirmed(c).lifecycle = c.lifecycle /\ Confirmed(c).attempt = c.attempt
           /\ Confirmed(c).up = c.up /\ Confirmed(c).wire = c.wire /\ Confirmed(c).run = c.run
           /\ Confirmed(c).retry = c.retry
<1> DEFINE Q == {[p EXCEPT !.before = TRUE] : p \in c.probes}
<1>1. ASSUME NEW p \in c.probes
      PROVE  [p EXCEPT !.before = TRUE] \in Probes /\ (p.before => [p EXCEPT !.before = TRUE] = p)
  BY DEF Cores, Probes
<1>2. Q \in SUBSET Probes /\ Past(c.probes, Q)
  BY <1>1 DEF Past
<1>3. Confirmed(c) = [c EXCEPT !.probes = Q]
  BY DEF Confirmed
<1> HIDE DEF Q
<1>4. Confirmed(c) \in Cores
  BY <1>2, <1>3, ZenonT(60) DEF Cores
<1> QED
  BY <1>2, <1>3, <1>4 DEF Cores

\* The catch of a connection attempt.
LEMMA FailsIsGood ==
    ASSUME NEW c \in Cores
    PROVE  Good(AttemptFails(c)) /\ Past(c.probes, AttemptFails(c).probes)
<1>1. PICK e \in Cores : e = TransportDisconnect(c) /\ Apart(e) /\ e.attempt = NoAttempt /\ e.probes = c.probes
  BY DisconnectFacts
<1>2. Settled(ConnectionFailed(e)) /\ ConnectionFailed(e).attempt.pc = "none" /\ Past(c.probes, ConnectionFailed(e).probes)
  BY <1>1, FailedSettles DEF NoAttempt
<1> QED
  BY <1>1, <1>2, SettledIsGood DEF AttemptFails

\* A heartbeat's setup report retires the socket first.
LEMMA RetiredRecordIsGood ==
    ASSUME NEW c \in Cores
    PROVE  LET d == RecordSetupEvidence(TransportDisconnect(c))
           IN Good(d) /\ Past(c.probes, d.probes)
<1>1. PICK e \in Cores : e = TransportDisconnect(c) /\ Apart(e) /\ e.attempt = NoAttempt /\ e.probes = c.probes
  BY DisconnectFacts
<1>2. Settled(RecordSetupEvidence(e)) /\ RecordSetupEvidence(e).attempt.pc = "none"
      /\ Past(c.probes, RecordSetupEvidence(e).probes)
  BY <1>1, RecordSettles DEF NoAttempt
<1> QED
  BY <1>1, <1>2, SettledIsGood

\* A world that is not active is left, and tried again.
LEMMA InactiveIsGood ==
    ASSUME NEW c \in Cores
    PROVE  Good(WorldInactive(c)) /\ Past(c.probes, WorldInactive(c).probes)
<1>1. PICK e \in Cores : e = TransportDisconnect(c) /\ Apart(e) /\ e.attempt = NoAttempt /\ e.probes = c.probes
  BY DisconnectFacts
<1>2. "offline" \in Lifecycles
  BY DEF Lifecycles
<1>3. PICK f \in Cores : /\ f = [e EXCEPT !.lifecycle = "offline"] /\ f.lifecycle = "offline"
                         /\ f.attempt = e.attempt /\ f.up = e.up /\ f.wire = e.wire /\ f.run = e.run
                         /\ f.probes = e.probes
  BY <1>2, MoveFacts
<1>4. Unplaced(f) /\ f.attempt.pc = "none" /\ f.probes = c.probes
  BY <1>1, <1>3 DEF Unplaced, Apart, NoAttempt
<1> QED
  BY <1>1, <1>3, <1>4, QuietIsGood DEF WorldInactive

\* So is a run that failed.
LEMMA RetryIsGood ==
    ASSUME NEW c \in Cores
    PROVE  Good(RetryAfterFailure(c)) /\ Past(c.probes, RetryAfterFailure(c).probes)
<1>1. "offline" \in Lifecycles
  BY DEF Lifecycles
<1>2. PICK e \in Cores : e = [c EXCEPT !.lifecycle = "offline"] /\ e.lifecycle = "offline" /\ e.probes = c.probes
  BY <1>1, MoveFacts
<1>3. PICK f \in Cores : /\ f = TransportDisconnect(e) /\ Apart(f) /\ f.attempt = NoAttempt
                         /\ f.probes = e.probes /\ f.lifecycle = e.lifecycle
  BY DisconnectFacts
<1>4. Unplaced(f) /\ f.attempt.pc = "none" /\ f.probes = c.probes
  BY <1>2, <1>3 DEF Unplaced, NoAttempt
<1> QED
  BY <1>2, <1>3, <1>4, QuietIsGood DEF RetryAfterFailure

\* A world is taken down on purpose: its runtime first, then its connection.
LEMMA TakenDownIsQuiet ==
    ASSUME NEW c \in Cores, c.lifecycle \notin {"startup", "active"}
    PROVE  LET d == TransportDisconnect(Teardown(c))
           IN Unplaced(d) /\ d.attempt.pc = "none" /\ d.probes = c.probes
<1>1. PICK e \in Cores : e = Teardown(c) /\ Kept(c, e)
  BY TeardownFacts
<1>2. PICK f \in Cores : /\ f = TransportDisconnect(e) /\ Apart(f) /\ f.attempt = NoAttempt
                         /\ f.probes = e.probes /\ f.lifecycle = e.lifecycle
  BY DisconnectFacts
<1> QED
  BY <1>1, <1>2 DEF Unplaced, NoAttempt, Kept

\* A world that refuses the service account is left to a heartbeat.
LEMMA BlockIsGood ==
    ASSUME NEW c \in Cores
    PROVE  Good(BlockServiceAccount(c)) /\ Past(c.probes, BlockServiceAccount(c).probes)
<1> DEFINE e == [c EXCEPT !.retry = FALSE, !.lifecycle = "closed"]
<1>1. "closed" \in Lifecycles
  BY DEF Lifecycles
<1>2. e \in Cores
  BY <1>1, ZenonT(60) DEF Cores
<1>3. e.lifecycle = "closed" /\ e.probes = c.probes
  BY DEF Cores
<1> DEFINE f == TransportDisconnect(Teardown(e))
<1>4. BlockServiceAccount(c) = StartHeartbeat(StopHeartbeat(f))
  BY DEF BlockServiceAccount
<1> HIDE DEF e
<1>5. Unplaced(f) /\ f.attempt.pc = "none" /\ f.probes = c.probes
  BY <1>2, <1>3, TakenDownIsQuiet
<1> HIDE DEF f
<1>6. PICK g \in Cores : g = StopHeartbeat(f) /\ Retimed(f, g) /\ Past(f.probes, g.probes)
  BY <1>5, StopFacts DEF Unplaced
<1>7. Unplaced(g) /\ g.attempt.pc = "none"
  BY <1>5, <1>6 DEF Retimed, Unplaced, Apart
<1>8. Good(StartHeartbeat(g)) /\ Past(g.probes, StartHeartbeat(g).probes)
  BY <1>7, QuietIsGood
<1> QED
  BY <1>4, <1>5, <1>6, <1>8 DEF Past

\* A confirmed shutdown, of which the answer or the socket told.
LEMMA ConfirmedShutdownIsGood ==
    ASSUME NEW c \in Cores
    PROVE  LET d == StartHeartbeat(TransportDisconnect(Teardown([Confirmed(c) EXCEPT !.lifecycle = "setup"])))
           IN Good(d) /\ Past(c.probes, d.probes)
<1>1. PICK e \in Cores : e = Confirmed(c) /\ Past(c.probes, e.probes)
  BY ConfirmedFacts
<1>2. "setup" \in Lifecycles
  BY DEF Lifecycles
<1>3. PICK f \in Cores : f = [e EXCEPT !.lifecycle = "setup"] /\ f.lifecycle = "setup" /\ f.probes = e.probes
  BY <1>2, MoveFacts
<1> DEFINE g == TransportDisconnect(Teardown(f))
<1>4. Unplaced(g) /\ g.attempt.pc = "none" /\ g.probes = e.probes
  BY <1>3, TakenDownIsQuiet
<1> HIDE DEF g
<1>5. Good(StartHeartbeat(g)) /\ Past(g.probes, StartHeartbeat(g).probes)
  BY <1>4, QuietIsGood
<1>6. StartHeartbeat(TransportDisconnect(Teardown([Confirmed(c) EXCEPT !.lifecycle = "setup"]))) = StartHeartbeat(g)
  BY <1>1, <1>3 DEF g
<1> QED
  BY <1>1, <1>4, <1>5, <1>6 DEF Past

\* A shutdown that the socket told of.
LEMMA ShutdownIsGood ==
    ASSUME NEW c \in Cores
    PROVE  Good(Shutdown(c)) /\ Past(c.probes, Shutdown(c).probes)
<1>1. PICK e \in Cores : e = World(c) /\ e.probes = c.probes
  BY WorldFacts DEF Kept
<1> QED
  BY <1>1, ConfirmedShutdownIsGood DEF Shutdown

\* The socket is replaced by a new attempt.
LEMMA ReconnectIsGood ==
    ASSUME NEW c \in Cores
    PROVE  /\ Good(LaunchProgress(c)) /\ Past(c.probes, LaunchProgress(c).probes)
           /\ Good(Reload(c)) /\ Past(c.probes, Reload(c).probes)
<1>1. ASSUME NEW e \in Cores
      PROVE  LET d == Connect(TransportDisconnect(e))
             IN Good(d) /\ Past(e.probes, d.probes)
  <2>1. PICK f \in Cores : /\ f = TransportDisconnect(e) /\ Apart(f) /\ f.attempt = NoAttempt
                           /\ f.probes = e.probes
    BY DisconnectFacts
  <2>2. Linked(f) /\ ~f.up
    BY <2>1 DEF Apart, Linked, NoAttempt
  <2> QED
    BY <2>1, <2>2, ConnectIsGood
<1>2. "offline" \in Lifecycles
  BY DEF Lifecycles
<1>3. PICK f \in Cores : f = [c EXCEPT !.lifecycle = "offline"] /\ f.probes = c.probes
  BY <1>2, MoveFacts
<1>4. Good(LaunchProgress(c)) /\ Past(c.probes, LaunchProgress(c).probes)
  BY <1>1 DEF LaunchProgress
<1>5. Good(Reload(c)) /\ Past(c.probes, Reload(c).probes)
  BY <1>1, <1>3 DEF Reload
<1> QED
  BY <1>4, <1>5

\* A lost connection ends in an attempt or a heartbeat.
LEMMA DisconnectedIsGood ==
    ASSUME NEW c \in Cores, Linked(c), c.up
    PROVE  Good(TransportDisconnected(c)) /\ Past(c.probes, TransportDisconnected(c).probes)
<1> DEFINE l == IF c.lifecycle = "setup" THEN "setup" ELSE "offline"
           a == IF c.attempt.pc = "none" THEN "none" ELSE "doomed"
           b == [c.attempt EXCEPT !.pc = a]
           t == IF c.retained THEN Abandoned(c) ELSE Teardown(c)
           e == [t EXCEPT !.up = FALSE, !.wire = "none", !.held = FALSE, !.lifecycle = l, !.attempt = b]
<1>0. t \in Cores /\ Kept(c, t) /\ ~t.run
  BY AbandonedFacts, TeardownFacts
<1>1. l \in Lifecycles /\ l \in {"setup", "offline"} /\ "none" \in Wires
  BY DEF Lifecycles, Wires
<1>2. b \in Attempts /\ b.pc \in {"none", "doomed"}
  BY DEF Cores, Attempts, AttemptPcs
<1>3. TransportDisconnected(c) \in {Connect(StopHeartbeat(e)), StartHeartbeat(StopHeartbeat(e))}
  <2>1. /\ l = IF t.lifecycle = "setup" THEN "setup" ELSE "offline"
        /\ b = [t.attempt EXCEPT !.pc = IF @ = "none" THEN "none" ELSE "doomed"]
    BY <1>0 DEF Kept, Cores, Attempts
  <2> HIDE DEF t, l, b
  <2>2. e = [t EXCEPT !.up = FALSE, !.wire = "none", !.held = FALSE,
                      !.lifecycle = IF @ = "setup" THEN "setup" ELSE "offline",
                      !.attempt.pc = IF @ = "none" THEN "none" ELSE "doomed"]
    BY <1>0, <2>1 DEF Cores, Attempts
  <2> HIDE DEF e
  <2> QED
    BY <2>2 DEF TransportDisconnected, t
<1> HIDE DEF l, b, t
<1>4. e \in Cores
  BY <1>0, <1>1, <1>2, ZenonT(60) DEF Cores
<1>5. /\ ~e.up /\ e.wire = "none" /\ ~e.run /\ e.lifecycle = l /\ e.attempt = b
      /\ e.retry = c.retry /\ e.probes = c.probes
  BY <1>0 DEF Cores, Kept
<1> HIDE DEF e
<1>6. PICK s \in Cores : s = StopHeartbeat(e) /\ Retimed(e, s) /\ s.retry = e.retry /\ Past(e.probes, s.probes)
  BY <1>4, StopFacts
<1>7. ~s.up /\ s.lifecycle = l /\ Linked(s) /\ Placed(s)
  BY <1>1, <1>2, <1>5, <1>6 DEF Retimed, Linked, Placed
<1>8. /\ Good(Connect(s)) /\ Past(s.probes, Connect(s).probes)
      /\ Good(StartHeartbeat(s)) /\ Past(s.probes, StartHeartbeat(s).probes)
  BY <1>7, ConnectIsGood, StartIsGood
<1>9. Past(c.probes, s.probes)
  BY <1>5, <1>6
<1> QED
  BY <1>3, <1>6, <1>8, <1>9 DEF Past

-----------------------------------------------------------------------------
(* The invariant, timers and requests *)

\* What the rest of the system may be.
Around ==
    /\ post \in [pc : {"none", "launch", "launched", "shutdown", "stopped"}, signalled : BOOLEAN]
    /\ native \in [world : Worlds \cup {None}, refusing : SUBSET Worlds]
    /\ events \in 0..MaxEvents

\* The inductive invariant.
IInv == Good(core) /\ Around

\* No answer from before a confirmed launch or shutdown moved what is decided.
Undecided(c, d) == \A p \in c.probes : p.before /\ ~p.fresh =>
    p \in d.probes \/ (d.lifecycle = c.lifecycle /\ d.evidence = c.evidence /\ d.attempt = c.attempt)

\* What every step does.
Stepped(c, d) == Good(d) /\ Undecided(c, d)

\* A request that stays outstanding has decided nothing.
LEMMA PastUndecided ==
    ASSUME NEW c, NEW d, Past(c.probes, d.probes)
    PROVE  Undecided(c, d)
BY DEF Past, Undecided

\* Nothing is lost of what stays.
LEMMA PastSame ==
    ASSUME NEW P
    PROVE  Past(P, P)
BY DEF Past

\* A step that changes nothing the invariant speaks of.
LEMMA KeptSteps ==
    ASSUME NEW c, NEW d \in Cores, Kept(c, d), Good(c)
    PROVE  Stepped(c, d)
BY KeptIsFit, PastSame, PastUndecided DEF Kept, Stepped

\* A heartbeat that found nothing to do runs again, unless a retry will.
LEMMA RearmIsGood ==
    ASSUME NEW c, Fit(c)
    PROVE  Good(Rearm(c)) /\ Rearm(c).probes = c.probes
<1>1. CASE c.retry
  BY <1>1 DEF Rearm, Good, Monitored
<1>2. CASE ~c.retry
  <2> DEFINE d == [c EXCEPT !.beat = TRUE]
  <2>1. c \in Cores /\ Rearm(c) = d
    BY <1>2 DEF Rearm, Fit
  <2>2. d \in Cores
    BY <2>1, ZenonT(60) DEF Cores
  <2>3. /\ d.lifecycle = c.lifecycle /\ d.attempt = c.attempt /\ d.up = c.up /\ d.wire = c.wire
        /\ d.run = c.run /\ d.retry = c.retry /\ d.probes = c.probes /\ d.beat
    BY <2>1 DEF Cores
  <2> HIDE DEF d
  <2>4. Linked(d) /\ Placed(d) /\ Known(d) /\ Monitored(d)
    BY <2>3 DEF Fit, Linked, Placed, Known, Monitored
  <2> QED
    BY <2>1, <2>2, <2>3, <2>4 DEF Good, Fit
<1> QED
  BY <1>1, <1>2

\* The retry timer fires without a connection.
LEMMA RetrySteps == ASSUME Good(core), RetryFires PROVE Stepped(core, core')
<1>1. core \in Cores /\ Linked(core) /\ ~core.up /\ core' = Connect(core)
  BY DEF Good, Fit, Linked, RetryFires
<1> QED
  BY <1>1, ConnectIsGood, PastUndecided DEF Stepped

\* A heartbeat that may not ask has somebody else who watches.
LEMMA HeartbeatSteps == ASSUME Good(core), HeartbeatFires PROVE Stepped(core, core')
<1>1. core \in Cores
  BY DEF Good, Fit
<1>2. CASE ShouldRunHeartbeat(core)
  <2> DEFINE q == [fresh |-> TRUE, as |-> core.lifecycle, answer |-> "pending", before |-> FALSE]
             Q == core.probes \cup {q}
  <2>1. q \in Probes /\ q.fresh /\ ~q.before /\ q.as = core.lifecycle
    BY <1>1, <1>2 DEF Cores, Lifecycles, ShouldRunHeartbeat, Probes, Answers
  <2> HIDE DEF q
  <2>2. Q \in SUBSET Probes
    BY <1>1, <2>1 DEF Cores
  <2>3. core' = [core EXCEPT !.beat = FALSE, !.probes = Q]
    BY <1>2 DEF HeartbeatFires, q
  <2>4. ~Stale(Q) /\ Past(core.probes, Q)
    BY <2>1 DEF Stale, Past
  <2>5. \A p \in Q : (p.fresh /\ core.lifecycle = "active" => p.as = "active") /\ (p.before => ~p.fresh)
    BY <2>1 DEF Good, Fit, Known
  <2> HIDE DEF Q
  <2>6. core' \in Cores
    BY <1>1, <2>2, <2>3, ZenonT(60) DEF Cores
  <2>7. /\ core'.lifecycle = core.lifecycle /\ core'.attempt = core.attempt /\ core'.up = core.up
        /\ core'.wire = core.wire /\ core'.run = core.run /\ core'.retry = core.retry /\ core'.probes = Q
    BY <1>1, <2>3 DEF Cores
  <2>8. Fit(core')
    BY <2>5, <2>6, <2>7 DEF Good, Fit, Linked, Placed, Known
  <2>9. Monitored(core')
    BY <2>4, <2>7 DEF Monitored
  <2> QED
    BY <2>4, <2>7, <2>8, <2>9, PastUndecided DEF Stepped, Good
<1>3. CASE ~ShouldRunHeartbeat(core)
  <2>1. core' = [core EXCEPT !.beat = FALSE]
    BY <1>3 DEF HeartbeatFires
  <2>2. core' \in Cores
    BY <1>1, <2>1, ZenonT(60) DEF Cores
  <2>3. /\ core'.lifecycle = core.lifecycle /\ core'.attempt = core.attempt /\ core'.up = core.up
        /\ core'.wire = core.wire /\ core'.run = core.run /\ core'.retry = core.retry
        /\ core'.probes = core.probes /\ core'.paused = core.paused
    BY <1>1, <2>1 DEF Cores
  <2>4. Fit(core')
    BY <2>2, <2>3 DEF Good, Fit, Linked, Placed, Known
  <2>5. Monitored(core')
    BY <1>1, <1>3, <2>3 DEF Good, Fit, Placed, Monitored, ShouldRunHeartbeat, Cores, Lifecycles
  <2> QED
    BY <2>3, <2>4, <2>5, PastSame, PastUndecided DEF Stepped, Good
<1> QED
  BY <1>2, <1>3

\* An answer arrives; it counts as much as its request.
LEMMA AnsweredSteps ==
    ASSUME Good(core), NEW p \in core.probes, NEW a \in Answers, Answered(p, a)
    PROVE  Stepped(core, core')
<1> DEFINE q == [p EXCEPT !.answer = a]
           Q == (core.probes \ {p}) \cup {q}
<1>1. core \in Cores /\ core' = [core EXCEPT !.probes = Q]
  BY DEF Good, Fit, Answered
<1>2. q \in Probes /\ q.fresh = p.fresh /\ q.before = p.before /\ q.as = p.as
  BY <1>1 DEF Cores, Probes
<1> HIDE DEF q
<1>3. Q \in SUBSET Probes /\ (Stale(Q) => Stale(core.probes))
  BY <1>1, <1>2 DEF Cores, Stale
<1>4. \A r \in Q : (r.fresh /\ core.lifecycle = "active" => r.as = "active") /\ (r.before => ~r.fresh)
  BY <1>2 DEF Good, Fit, Known
<1>5. \A r \in core.probes : r = p \/ r \in Q
  OBVIOUS
<1> HIDE DEF Q
<1>6. core' \in Cores
  BY <1>1, <1>3, ZenonT(60) DEF Cores
<1>7. /\ core'.lifecycle = core.lifecycle /\ core'.attempt = core.attempt /\ core'.up = core.up
      /\ core'.wire = core.wire /\ core'.run = core.run /\ core'.retry = core.retry
      /\ core'.probes = Q /\ core'.paused = core.paused /\ core'.beat = core.beat /\ core'.evidence = core.evidence
  BY <1>1 DEF Cores
<1>8. Fit(core')
  BY <1>4, <1>6, <1>7 DEF Good, Fit, Linked, Placed, Known
<1>9. Monitored(core') /\ Undecided(core, core')
  BY <1>3, <1>7 DEF Good, Monitored, Undecided
<1> QED
  BY <1>8, <1>9 DEF Stepped, Good

\* Only a request that counts decides anything.
LEMMA SettleSteps ==
    ASSUME Good(core), NEW p \in core.probes, ProbeSettles(p)
    PROVE  Stepped(core, core')
<1> DEFINE Q == core.probes \ {p}
           c == [core EXCEPT !.probes = Q]
<1>1. core \in Cores /\ p \in Probes /\ Q \in SUBSET Probes
  BY DEF Good, Fit, Cores
<1>2. \A q \in core.probes : q = p \/ q \in Q
  OBVIOUS
<1>3. \A q \in Q : q \in core.probes
  OBVIOUS
<1>4. core' = IF p.fresh THEN HeartbeatAnswered(c, p) ELSE c
  BY DEF ProbeSettles
<1>5. Past(core.probes, Q) \/ ~p.fresh
  BY <1>2 DEF Past
<1> HIDE DEF Q
<1>6. c \in Cores
  BY <1>1, ZenonT(60) DEF Cores
<1>7. /\ c.lifecycle = core.lifecycle /\ c.attempt = core.attempt /\ c.up = core.up
      /\ c.wire = core.wire /\ c.run = core.run /\ c.retry = core.retry
      /\ c.probes = Q /\ c.paused = core.paused /\ c.beat = core.beat /\ c.evidence = core.evidence
  BY <1>1 DEF Cores
<1> HIDE DEF c
<1>8. Fit(c)
  BY <1>3, <1>6, <1>7 DEF Good, Fit, Linked, Placed, Known
<1>9. CASE ~p.fresh
  <2>1. core' = c
    BY <1>4, <1>9
  <2>2. Monitored(c)
    BY <1>2, <1>7, <1>9 DEF Good, Monitored, Stale
  <2>3. Undecided(core, c)
    BY <1>7 DEF Undecided
  <2> QED
    BY <1>8, <2>1, <2>2, <2>3 DEF Stepped, Good
<1>10. CASE p.fresh
  <2>1. Past(core.probes, c.probes)
    BY <1>5, <1>7, <1>10
  <2>2. core' = HeartbeatAnswered(c, p)
    BY <1>4, <1>10
  <2>3. Fit(World(c)) /\ World(c).probes = c.probes /\ World(c).up = c.up /\ World(c).lifecycle = c.lifecycle
    BY <1>6, <1>8, WorldFacts, KeptIsFit DEF Kept
  <2>4. CASE core' = Rearm(c) \/ core' = Rearm(World(c))
    BY <1>8, <2>1, <2>3, <2>4, RearmIsGood, PastUndecided DEF Stepped
  <2>5. CASE core' = RecordSetupEvidence(TransportDisconnect(c))
    <3>1. Good(core') /\ Past(c.probes, core'.probes)
      BY <1>6, <2>5, RetiredRecordIsGood
    <3> QED
      BY <2>1, <3>1, PastUndecided DEF Stepped, Past
  <2>6. CASE core' = Connect(World(c)) /\ p.as # "active"
    <3>1. c.lifecycle # "active"
      BY <1>7, <1>10, <2>6 DEF Good, Fit, Known
    <3>2. Good(core') /\ Past(World(c).probes, core'.probes)
      BY <2>3, <2>6, <3>1, ConnectIsGood DEF Fit
    <3> QED
      BY <2>1, <2>3, <3>2, PastUndecided DEF Stepped, Past
  <2> QED
    BY <2>2, <2>4, <2>5, <2>6 DEF HeartbeatAnswered, ClosedWorldChanged
<1> QED
  BY <1>9, <1>10

-----------------------------------------------------------------------------
(* The connection attempt *)

\* An attempt runs without a connection and without a retry timer.
LEMMA AttemptIsApart ==
    ASSUME Good(core), core.attempt.pc \in {"handshake", "discover", "connect", "doomed"}
    PROVE  core \in Cores /\ Apart(core) /\ ~core.retry /\ Known(core)
BY DEF Good, Fit, Linked, Apart, Cores

\* An attempt goes on; what is served may be starting or still retained.
LEMMA AttemptingIsGood ==
    ASSUME NEW c \in Cores, Apart(c), ~c.retry, Known(c),
           c.attempt.pc \in {"handshake", "discover", "connect"}
    PROVE  Good(c)
BY DEF Apart, Good, Fit, Linked, Placed, Monitored

\* The attempt goes on to the discovery.
LEMMA DiscoveringIsGood ==
    ASSUME NEW c \in Cores, Apart(c), ~c.retry, Known(c)
    PROVE  Good(Discovering(c)) /\ Discovering(c).probes = c.probes
<1> DEFINE a == [NoAttempt EXCEPT !.pc = "discover"]
           d == [c EXCEPT !.attempt = a]
<1>1. a \in Attempts /\ a.pc = "discover"
  BY DEF NoAttempt, Attempts, AttemptPcs, Answers
<1> HIDE DEF a
<1>2. d \in Cores
  BY <1>1, ZenonT(60) DEF Cores
<1>3. /\ d.up = c.up /\ d.wire = c.wire /\ d.run = c.run /\ d.retry = c.retry /\ d.probes = c.probes
      /\ d.lifecycle = c.lifecycle /\ d.attempt = a
  BY DEF Cores
<1>4. Discovering(c) = d
  BY DEF Discovering, a
<1> HIDE DEF d
<1>5. Apart(d) /\ Known(d)
  BY <1>3 DEF Apart, Known
<1> QED
  BY <1>1, <1>2, <1>3, <1>4, <1>5, AttemptingIsGood

\* The handshake is answered.
LEMMA AttemptAnsweredSteps == ASSUME Good(core), Around, AttemptAnswered PROVE Stepped(core, core')
<1>1. PICK a \in Answers : core' = [core EXCEPT !.attempt.answer = a]
  BY DEF Around, TitleOf, AttemptAnswered, Answers
<1>2. core.attempt.pc = "handshake"
  BY DEF AttemptAnswered, NoAttempt
<1>3. core \in Cores /\ Apart(core) /\ ~core.retry /\ Known(core)
  BY <1>2, AttemptIsApart
<1> DEFINE b == [core.attempt EXCEPT !.answer = a]
<1>4. b \in Attempts /\ b.pc = "handshake"
  BY <1>2, <1>3 DEF Cores, Attempts
<1>5. core' = [core EXCEPT !.attempt = b]
  BY <1>1
<1> HIDE DEF b
<1>6. core' \in Cores
  BY <1>3, <1>4, <1>5, ZenonT(60) DEF Cores
<1>7. /\ core'.up = core.up /\ core'.wire = core.wire /\ core'.run = core.run /\ core'.retry = core.retry
      /\ core'.probes = core.probes /\ core'.lifecycle = core.lifecycle /\ core'.attempt = b
  BY <1>3, <1>5 DEF Cores
<1>8. Apart(core') /\ Known(core')
  BY <1>3, <1>7 DEF Apart, Known
<1> QED
  BY <1>3, <1>4, <1>6, <1>7, <1>8, AttemptingIsGood, PastSame, PastUndecided DEF Stepped

\* A world's name starts it, or leaves it served.
LEMMA DetectedFacts ==
    ASSUME NEW c \in Cores, NEW w \in Worlds
    PROVE  LET d == TitleDetected(c, w)
           IN /\ d \in Cores
              /\ d.up = c.up /\ d.wire = c.wire /\ d.run = c.run /\ d.retry = c.retry /\ d.probes = c.probes
              /\ d.lifecycle = "active" => c.lifecycle = "active"
<1>1. PICK e \in Cores :
              /\ e = World(c) /\ e.lifecycle = c.lifecycle /\ e.up = c.up /\ e.wire = c.wire
              /\ e.retry = c.retry /\ e.probes = c.probes /\ e.run = c.run
  BY WorldFacts DEF Kept, World, Cores
<1> DEFINE l == IF e.lifecycle = "active" THEN "active" ELSE "startup"
           d == [e EXCEPT !.title = w, !.blind = FALSE, !.lifecycle = l]
<1>2. l \in Lifecycles /\ w \in Worlds \cup {None}
  BY DEF Lifecycles
<1>3. TitleDetected(c, w) = d
  BY <1>1 DEF TitleDetected
<1>4. l = "active" => c.lifecycle = "active"
  BY <1>1
<1> HIDE DEF l
<1>5. d \in Cores
  BY <1>2, ZenonT(60) DEF Cores
<1>6. /\ d.up = c.up /\ d.wire = c.wire /\ d.run = c.run /\ d.retry = c.retry /\ d.probes = c.probes
      /\ d.lifecycle = l
  BY <1>1 DEF Cores
<1> QED
  BY <1>3, <1>4, <1>5, <1>6

\* The handshake fails, reports setup or goes on.
LEMMA HandshakeSteps == ASSUME Good(core), AttemptHandshake PROVE Stepped(core, core')
<1> DEFINE a == core.attempt.answer
<1>1. core \in Cores /\ Apart(core) /\ ~core.retry /\ Known(core)
  BY AttemptIsApart DEF AttemptHandshake
<1>2. a \in Answers /\ a # "pending"
  BY <1>1 DEF Cores, Attempts, AttemptHandshake
<1>3. CASE core' = AttemptFails(core)
  BY <1>1, <1>3, FailsIsGood, PastUndecided DEF Stepped
<1>4. CASE core' = Ends(RecordSetupEvidence(core))
  BY <1>1, <1>4, RecordSettles, SettledIsGood, PastUndecided DEF Stepped
<1>5. CASE core' = Discovering([core EXCEPT !.blind = TRUE])
  <2> DEFINE c == [core EXCEPT !.blind = TRUE]
  <2>1. c \in Cores
    BY <1>1, ZenonT(60) DEF Cores
  <2>2. /\ c.up = core.up /\ c.wire = core.wire /\ c.run = core.run /\ c.retry = core.retry
        /\ c.probes = core.probes /\ c.lifecycle = core.lifecycle
    BY <1>1 DEF Cores
  <2>3. core' = Discovering(c)
    BY <1>5
  <2> HIDE DEF c
  <2>4. Apart(c) /\ Known(c)
    BY <1>1, <2>2 DEF Apart, Known
  <2> QED
    BY <1>1, <2>1, <2>2, <2>3, <2>4, DiscoveringIsGood, PastSame, PastUndecided DEF Stepped
<1>6. CASE a \in Worlds /\ core' = Discovering(TitleDetected(core, a))
  <2>1. PICK c \in Cores :
              /\ c = TitleDetected(core, a)
              /\ c.up = core.up /\ c.wire = core.wire /\ c.run = core.run /\ c.retry = core.retry
              /\ c.probes = core.probes /\ (c.lifecycle = "active" => core.lifecycle = "active")
    BY <1>1, <1>6, DetectedFacts
  <2>2. Apart(c) /\ Known(c)
    BY <1>1, <2>1 DEF Apart, Known
  <2> QED
    BY <1>1, <1>6, <2>1, <2>2, DiscoveringIsGood, PastSame, PastUndecided DEF Stepped
<1>7. CASE a \in {"setup", "untitled", "failed"}
  BY <1>3, <1>4, <1>5, <1>7 DEF AttemptHandshake
<1>8. CASE a \in Worlds /\ a \notin {"setup", "untitled", "failed"}
  <2>1. core' = Discovering(TitleDetected(core, a))
    BY <1>8 DEF AttemptHandshake
  <2> QED
    BY <1>6, <1>8, <2>1
<1> QED
  BY <1>2, <1>7, <1>8 DEF Answers

\* The discovery finds no world, no account, or goes on.
LEMMA DiscoversSteps == ASSUME Good(core), AttemptDiscovers PROVE Stepped(core, core')
<1>1. core \in Cores /\ Apart(core) /\ ~core.retry /\ Known(core)
  BY AttemptIsApart DEF AttemptDiscovers
<1> DEFINE c == [World(core) EXCEPT !.lifecycle = "startup"]
<1>2. "startup" \in Lifecycles
  BY DEF Lifecycles
<1>3. PICK e \in Cores : /\ e = World(core) /\ e.up = core.up /\ e.wire = core.wire /\ e.retry = core.retry
                         /\ e.probes = core.probes /\ e.run = core.run /\ e.attempt = core.attempt
  BY <1>1, WorldFacts DEF Kept, World, Cores
<1>4. PICK d \in Cores : /\ d = [e EXCEPT !.lifecycle = "startup"] /\ d.lifecycle = "startup" /\ d.attempt = e.attempt
                         /\ d.up = e.up /\ d.wire = e.wire /\ d.run = e.run /\ d.retry = e.retry
                         /\ d.probes = e.probes
  BY <1>2, <1>3, MoveFacts
<1>5. /\ d = c /\ d.lifecycle = "startup" /\ d.attempt = core.attempt /\ d.up = core.up
      /\ d.wire = core.wire /\ d.run = core.run /\ d.retry = core.retry /\ d.probes = core.probes
  BY <1>3, <1>4
<1> HIDE DEF c
<1>6. Apart(d) /\ Known(d)
  BY <1>1, <1>5 DEF Apart, Known
<1>7. CASE core' = Ends(WorldMissing(core))
  BY <1>1, <1>7, MissingSettles, SettledIsGood, PastUndecided DEF Stepped
<1>8. CASE core' = Ends(AccountRejected(d))
  <2>1. Settled(AccountRejected(d)) /\ Past(core.probes, AccountRejected(d).probes)
    BY <1>5, <1>6, RejectedSettles
  <2> QED
    BY <1>8, <2>1, SettledIsGood, PastUndecided DEF Stepped
<1>9. CASE core' = [d EXCEPT !.attempt.pc = "connect"]
  <2> DEFINE b == [d.attempt EXCEPT !.pc = "connect"]
  <2>1. b \in Attempts /\ b.pc = "connect"
    BY DEF Cores, Attempts, AttemptPcs
  <2>2. core' = [d EXCEPT !.attempt = b]
    BY <1>9
  <2> HIDE DEF b
  <2>3. core' \in Cores
    BY <2>1, <2>2, ZenonT(60) DEF Cores
  <2>4. /\ core'.up = d.up /\ core'.wire = d.wire /\ core'.run = d.run /\ core'.retry = d.retry
        /\ core'.probes = d.probes /\ core'.lifecycle = d.lifecycle /\ core'.attempt = b
    BY <2>2 DEF Cores
  <2>5. Apart(core') /\ Known(core')
    BY <1>6, <2>4 DEF Apart, Known
  <2> QED
    BY <1>1, <1>5, <2>1, <2>3, <2>4, <2>5, AttemptingIsGood, PastSame, PastUndecided DEF Stepped
<1> QED
  BY <1>5, <1>7, <1>8, <1>9 DEF AttemptDiscovers, c

\* The attempt fails, finds no active world or times out.
LEMMA EndingSteps ==
    ASSUME Good(core), AttemptBreaks \/ AttemptTimesOut \/ AttemptInactive
    PROVE  Stepped(core, core')
<1>1. core \in Cores /\ core' \in {AttemptFails(core), WorldInactive(core)}
  BY DEF Good, Fit, AttemptBreaks, AttemptTimesOut, AttemptInactive
<1> QED
  BY <1>1, FailsIsGood, InactiveIsGood, PastUndecided DEF Stepped

\* The main socket connects.
LEMMA ConnectsSteps == ASSUME Good(core), AttemptConnects PROVE Stepped(core, core')
<1>1. core \in Cores /\ Apart(core) /\ ~core.retry /\ Known(core)
  BY AttemptIsApart DEF AttemptConnects
<1> DEFINE b == [core.attempt EXCEPT !.pc = "status"]
<1>2. b \in Attempts /\ b.pc = "status"
  BY <1>1 DEF Cores, Attempts, AttemptPcs
<1>3. core' = [core EXCEPT !.up = TRUE, !.attempt = b]
  BY DEF AttemptConnects
<1> HIDE DEF b
<1>4. core' \in Cores
  BY <1>1, <1>2, <1>3, ZenonT(60) DEF Cores
<1>5. /\ core'.up /\ core'.wire = core.wire /\ core'.run = core.run /\ core'.retry = core.retry
      /\ core'.probes = core.probes /\ core'.lifecycle = core.lifecycle /\ core'.attempt = b
  BY <1>1, <1>3 DEF Cores
<1>6. Fit(core') /\ Monitored(core')
  BY <1>1, <1>2, <1>4, <1>5 DEF Fit, Apart, Linked, Placed, Known, Monitored
<1> QED
  BY <1>5, <1>6, PastSame, PastUndecided DEF Stepped, Good

\* The connection's run starts.
LEMMA ActiveSteps == ASSUME Good(core), AttemptActive PROVE Stepped(core, core')
<1>1. core \in Cores /\ core.up /\ ~core.retry /\ Known(core)
  BY DEF Good, Fit, Linked, AttemptActive, Cores
<1>2. PICK e \in Cores : e = World(core) /\ e.up /\ ~e.retry /\ e.probes = core.probes /\ e.wire = core.wire
  BY <1>1, WorldFacts DEF Kept
<1> DEFINE f == [e EXCEPT !.lifecycle = "startup", !.run = TRUE, !.held = FALSE]
<1>3. "startup" \in Lifecycles
  BY DEF Lifecycles
<1>4. f \in Cores
  BY <1>3, ZenonT(60) DEF Cores
<1>5. f.up /\ ~f.retry /\ f.probes = core.probes /\ f.lifecycle = "startup"
  BY <1>2 DEF Cores
<1>6. core' = Ends(f)
  BY <1>2 DEF AttemptActive
<1> HIDE DEF f
<1>7. PICK d \in Cores :
           /\ d = Ends(f) /\ d.attempt = NoAttempt
           /\ d.lifecycle = f.lifecycle /\ d.up = f.up /\ d.retry = f.retry /\ d.probes = f.probes
  BY <1>4, EndsFacts
<1>8. Fit(d) /\ Monitored(d)
  BY <1>1, <1>5, <1>7 DEF Fit, Linked, Placed, Known, Monitored, NoAttempt
<1> QED
  BY <1>5, <1>6, <1>7, <1>8, PastSame, PastUndecided DEF Stepped, Good

-----------------------------------------------------------------------------
(* Signals of the socket *)

\* What the socket is about to deliver is all that differs.
LEMMA WireFacts ==
    ASSUME NEW c \in Cores, NEW w \in Wires
    PROVE  LET d == [c EXCEPT !.wire = w]
           IN /\ d \in Cores /\ d.wire = w
              /\ d.lifecycle = c.lifecycle /\ d.attempt = c.attempt /\ d.up = c.up /\ d.run = c.run
              /\ d.retry = c.retry /\ d.beat = c.beat /\ d.probes = c.probes /\ d.paused = c.paused
<1>1. [c EXCEPT !.wire = w] \in Cores
  BY ZenonT(60) DEF Cores
<1> QED
  BY <1>1 DEF Cores

\* The socket delivers the end of its connection, a shutdown, a reload or a launch.
LEMMA SignalSteps == ASSUME Good(core), Signal PROVE Stepped(core, core')
<1>1. core \in Cores /\ core.up /\ Linked(core) /\ core.wire \in {"lost", "shutdown", "reload", "progress"}
  BY DEF Good, Fit, Signal, Cores, Wires
<1>2. "none" \in Wires
  BY DEF Wires
<1>3. PICK c \in Cores :
           /\ c = [core EXCEPT !.wire = "none"] /\ c.attempt = core.attempt /\ c.up = core.up
           /\ c.run = core.run /\ c.retry = core.retry /\ c.probes = core.probes /\ c.wire = "none"
  BY <1>1, <1>2, WireFacts
<1>4. Linked(c)
  BY <1>1, <1>3 DEF Linked
<1>5. core' \in {TransportDisconnected(c), Shutdown(c), Reload(c), LaunchProgress(c)}
  BY <1>1, <1>3 DEF Signal
<1>6. Good(core') /\ Past(c.probes, core'.probes)
  BY <1>1, <1>3, <1>4, <1>5, DisconnectedIsGood, ShutdownIsGood, ReconnectIsGood
<1> QED
  BY <1>3, <1>6, PastUndecided DEF Stepped

\* A signal is put on the socket of a connection.
LEMMA SignalledSteps ==
    ASSUME Good(core), core.up, NEW w \in Wires, core' = [core EXCEPT !.wire = w]
    PROVE  Stepped(core, core')
<1>1. core \in Cores
  BY DEF Good, Fit
<1>2. /\ core' \in Cores /\ core'.wire = w
      /\ core'.lifecycle = core.lifecycle /\ core'.attempt = core.attempt /\ core'.up = core.up
      /\ core'.run = core.run /\ core'.retry = core.retry /\ core'.beat = core.beat
      /\ core'.probes = core.probes /\ core'.paused = core.paused
  BY <1>1, WireFacts
<1>3. Fit(core') /\ Monitored(core')
  BY <1>2 DEF Good, Fit, Linked, Placed, Known, Monitored
<1> QED
  BY <1>2, <1>3, PastSame, PastUndecided DEF Stepped, Good

\* Foundry leaves its world.
LEMMA LeavesSteps == ASSUME Good(core), Leaves PROVE Stepped(core, core')
<1>1. CASE core.up
  <2>1. PICK w \in {"shutdown", "lost"} : core' = [core EXCEPT !.wire = w]
    BY <1>1 DEF Leaves
  <2> QED
    BY <1>1, <2>1, SignalledSteps DEF Wires
<1>2. CASE ~core.up
  BY <1>2, PastSame, PastUndecided DEF Leaves, Stepped
<1> QED
  BY <1>1, <1>2

-----------------------------------------------------------------------------
(* Runs *)

\* The run publishes its world.
LEMMA RunSucceedsSteps == ASSUME Good(core), RunSucceeds PROVE Stepped(core, core')
<1>1. core \in Cores /\ core.run /\ core.up /\ Linked(core)
  BY DEF Good, Fit, Linked, RunSucceeds, OwnRun
<1> DEFINE c == [core EXCEPT !.run = FALSE, !.retained = TRUE, !.lifecycle = "active"]
<1>2. "active" \in Lifecycles
  BY DEF Lifecycles
<1>3. c \in Cores
  BY <1>1, <1>2, ZenonT(60) DEF Cores
<1>4. /\ c.up = core.up /\ c.wire = core.wire /\ ~c.run /\ c.attempt = core.attempt
      /\ c.retry = core.retry /\ c.probes = core.probes
  BY <1>1 DEF Cores
<1>5. core' = StartHeartbeat(c)
  BY DEF RunSucceeds
<1> HIDE DEF c
<1>6. Linked(c) /\ Placed(c)
  BY <1>1, <1>4 DEF Linked, Placed
<1> QED
  BY <1>3, <1>4, <1>5, <1>6, StartIsGood, PastUndecided DEF Stepped

\* The run verifies the account.
LEMMA RunVerifiesSteps == ASSUME Good(core), RunVerifies PROVE Stepped(core, core')
<1>1. core \in Cores
  BY DEF Good, Fit
<1>2. core' = [core EXCEPT !.rejected = FALSE]
  BY DEF RunVerifies
<1>3. core' \in Cores
  BY <1>1, <1>2, ZenonT(60) DEF Cores
<1>4. Kept(core, core')
  BY <1>1, <1>2 DEF Kept, Cores
<1>5. core'.probes = core.probes
  BY <1>4 DEF Kept
<1> QED
  BY <1>3, <1>4, <1>5, KeptIsFit, PastSame, PastUndecided DEF Stepped

\* However handleConnect handles the failure of a run, somebody watches.
LEMMA HandledIsGood ==
    ASSUME NEW c \in Cores, Linked(c), Placed(c), NEW mine \in BOOLEAN, NEW opens \in BOOLEAN,
           NEW d \in Handled(c, mine, opens)
    PROVE  Good(d) /\ Past(c.probes, d.probes)
<1>1. CASE c.rejected
  <2>1. d = [BlockServiceAccount(c) EXCEPT !.held = TRUE]
    BY <1>1 DEF Handled
  <2>2. PICK b : b = BlockServiceAccount(c) /\ Good(b) /\ Past(c.probes, b.probes)
    BY BlockIsGood
  <2>3. b \in Cores /\ d = [b EXCEPT !.held = TRUE]
    BY <2>1, <2>2 DEF Good, Fit
  <2>4. d \in Cores
    BY <2>3, ZenonT(60) DEF Cores
  <2>5. Kept(b, d)
    BY <2>3 DEF Cores, Kept
  <2> QED
    BY <2>2, <2>4, <2>5, KeptIsFit DEF Kept
<1>2. CASE ~c.rejected
  <2> DEFINE h == c.held \/ mine
             e == [c EXCEPT !.held = h]
  <2>1. d \in {StartHeartbeat(e), RetryAfterFailure(c)}
    BY <1>2 DEF Handled
  <2>2. h \in BOOLEAN
    BY DEF Cores
  <2> HIDE DEF h
  <2>3. e \in Cores
    BY <2>2, ZenonT(60) DEF Cores
  <2>4. Kept(c, e)
    BY DEF Cores, Kept
  <2> HIDE DEF e
  <2>5. Linked(e) /\ Placed(e) /\ e.probes = c.probes
    BY <2>4 DEF Linked, Placed, Kept
  <2> QED
    BY <2>1, <2>3, <2>5, StartIsGood, RetryIsGood
<1> QED
  BY <1>1, <1>2

\* The run fails.
LEMMA RunFailsSteps == ASSUME Good(core), RunFails PROVE Stepped(core, core')
<1> DEFINE c == [core EXCEPT !.run = FALSE]
<1>1. core \in Cores /\ Linked(core) /\ Placed(core)
  BY DEF Good, Fit
<1>2. c \in Cores
  BY <1>1, ZenonT(60) DEF Cores
<1>3. Kept(core, c)
  BY <1>1 DEF Cores, Kept
<1>4. core' \in Handled(c, TRUE, TRUE)
  BY DEF RunFails
<1> HIDE DEF c
<1>5. Linked(c) /\ Placed(c) /\ c.probes = core.probes
  BY <1>1, <1>3 DEF Linked, Placed, Kept
<1>6. Good(core') /\ Past(core.probes, core'.probes)
  BY <1>2, <1>4, <1>5, HandledIsGood
<1> QED
  BY <1>6, PastUndecided DEF Stepped

\* The run finds that the account has no role.
LEMMA NoRoleSteps == ASSUME Good(core), RunFindsNoRole PROVE Stepped(core, core')
<1> DEFINE c == [core EXCEPT !.rejected = TRUE, !.run = FALSE]
<1>1. core \in Cores
  BY DEF Good, Fit
<1>2. c \in Cores
  BY <1>1, ZenonT(60) DEF Cores
<1>3. c.probes = core.probes
  BY <1>1 DEF Cores
<1>4. core' = BlockServiceAccount(c)
  BY DEF RunFindsNoRole
<1> HIDE DEF c
<1> QED
  BY <1>2, <1>3, <1>4, BlockIsGood, PastUndecided DEF Stepped

\* The run of an earlier connection fails.
LEMMA LateSteps == ASSUME Good(core), NEW k \in LateRuns, LateRunFails(k) PROVE Stepped(core, core')
<1> DEFINE mine  == core.run /\ (k = "joined" \/ (k = "aside" /\ core.retained))
           opens == (k = "joined" /\ ~core.retained) \/ (k = "aside" /\ core.retained)
           l == core.late \ {k}
           r == core.run /\ ~mine
           c == [core EXCEPT !.late = l, !.run = r]
<1>1. core \in Cores /\ Linked(core) /\ Placed(core)
  BY DEF Good, Fit
<1>2. r \in BOOLEAN /\ mine \in BOOLEAN /\ opens \in BOOLEAN /\ (r => core.run) /\ l \in SUBSET LateRuns
  BY <1>1 DEF Cores
<1>3. core' \in Handled(c, mine, opens)
  BY DEF LateRunFails
<1> HIDE DEF mine, opens, l, r
<1>4. c \in Cores
  BY <1>1, <1>2, ZenonT(60) DEF Cores
<1>5. Kept(core, c)
  BY <1>1, <1>2 DEF Cores, Kept
<1> HIDE DEF c
<1>6. Linked(c) /\ Placed(c) /\ c.probes = core.probes
  BY <1>1, <1>5 DEF Linked, Placed, Kept
<1>7. Good(core') /\ Past(core.probes, core'.probes)
  BY <1>2, <1>3, <1>4, <1>6, HandledIsGood
<1> QED
  BY <1>7, PastUndecided DEF Stepped

-----------------------------------------------------------------------------
(* Engagement and administrators *)

\* A first browser comes.
LEMMA EngageSteps == ASSUME Good(core), Engage PROVE Stepped(core, core')
<1> DEFINE c == [core EXCEPT !.engaged = TRUE]
<1>1. core \in Cores /\ Linked(core) /\ Placed(core)
  BY DEF Good, Fit
<1>2. c \in Cores
  BY <1>1, ZenonT(60) DEF Cores
<1>3. /\ c.up = core.up /\ c.wire = core.wire /\ c.run = core.run /\ c.attempt = core.attempt
      /\ c.retry = core.retry /\ c.probes = core.probes /\ c.lifecycle = core.lifecycle
  BY <1>1 DEF Cores
<1>4. /\ core' \in {StartHeartbeat(c), Connect(StartHeartbeat(c))}
      /\ core' # StartHeartbeat(c) => StartHeartbeat(c).lifecycle \in {"offline", "setup"}
  BY DEF Engage
<1> HIDE DEF c
<1>5. Linked(c) /\ Placed(c)
  BY <1>1, <1>3 DEF Linked, Placed
<1>6. PICK d : d = StartHeartbeat(c) /\ Good(d) /\ Past(core.probes, d.probes)
  BY <1>2, <1>3, <1>5, StartIsGood
<1>7. CASE core' = d
  BY <1>6, <1>7, PastUndecided DEF Stepped
<1>8. CASE core' = Connect(d) /\ d.lifecycle \in {"offline", "setup"}
  <2>1. Good(core') /\ Past(d.probes, core'.probes)
    BY <1>6, <1>8, ConnectIsGood DEF Good, Fit
  <2> QED
    BY <1>6, <2>1, PastUndecided DEF Stepped, Past
<1> QED
  BY <1>4, <1>6, <1>7, <1>8

\* The last browser goes.
LEMMA DisengageSteps == ASSUME Good(core), Disengage PROVE Stepped(core, core')
<1>1. core \in Cores /\ core' = [core EXCEPT !.engaged = FALSE]
  BY DEF Good, Fit, Disengage
<1>2. core' \in Cores
  BY <1>1, ZenonT(60) DEF Cores
<1>3. Kept(core, core')
  BY <1>1 DEF Cores, Kept
<1> QED
  BY <1>2, <1>3, KeptSteps

\* A long read stops the heartbeat.
LEMMA PauseSteps == ASSUME Good(core), Pause PROVE Stepped(core, core')
<1>1. core \in Cores
  BY DEF Good, Fit
<1>2. PICK s \in Cores : /\ s = StopHeartbeat(core) /\ Retimed(core, s) /\ s.retry = core.retry
                         /\ Stale(s.probes) /\ Past(core.probes, s.probes)
  BY <1>1, StopFacts
<1>3. core' = [s EXCEPT !.paused = TRUE]
  BY <1>2 DEF Pause
<1>4. core' \in Cores
  BY <1>3, ZenonT(60) DEF Cores
<1>5. /\ core'.lifecycle = s.lifecycle /\ core'.attempt = s.attempt /\ core'.up = s.up
      /\ core'.wire = s.wire /\ core'.run = s.run /\ core'.retry = s.retry
      /\ core'.probes = s.probes /\ core'.paused
  BY <1>3 DEF Cores
<1>6. Fit(core') /\ Monitored(core')
  BY <1>2, <1>4, <1>5 DEF Good, Fit, Retimed, Linked, Placed, Known, Stale, Monitored
<1> QED
  BY <1>2, <1>5, <1>6, PastUndecided DEF Stepped, Good

\* Its end starts the heartbeat where it is due.
LEMMA ResumeSteps == ASSUME Good(core), Resume PROVE Stepped(core, core')
<1> DEFINE d == [core EXCEPT !.paused = FALSE]
<1>1. core \in Cores
  BY DEF Good, Fit
<1>2. d \in Cores
  BY <1>1, ZenonT(60) DEF Cores
<1>3. /\ d.up = core.up /\ d.wire = core.wire /\ d.run = core.run /\ d.attempt = core.attempt
      /\ d.retry = core.retry /\ d.beat = core.beat /\ d.probes = core.probes
      /\ d.lifecycle = core.lifecycle /\ ~d.paused
  BY <1>1 DEF Cores
<1>4. core' = IF ~d.beat /\ ~d.retry /\ ShouldRunHeartbeat(d) THEN StartHeartbeat(d) ELSE d
  BY DEF Resume, Resumed
<1> HIDE DEF d
<1>5. Fit(d)
  BY <1>2, <1>3 DEF Good, Fit, Linked, Placed, Known
<1>6. CASE ~d.beat /\ ~d.retry /\ ShouldRunHeartbeat(d)
  BY <1>2, <1>3, <1>4, <1>5, <1>6, StartIsGood, PastUndecided DEF Fit, Stepped
<1>7. CASE ~(~d.beat /\ ~d.retry /\ ShouldRunHeartbeat(d))
  <2>1. Monitored(d)
    BY <1>2, <1>3, <1>5, <1>7 DEF Fit, Placed, Monitored, ShouldRunHeartbeat, Cores, Lifecycles
  <2> QED
    BY <1>3, <1>4, <1>5, <1>7, <2>1, PastSame, PastUndecided DEF Stepped, Good
<1> QED
  BY <1>6, <1>7

\* An administrator tries a closed world again.
LEMMA AdminRetrySteps == ASSUME Good(core), AdminRetry PROVE Stepped(core, core')
BY ConnectIsGood, PastUndecided DEF Good, Fit, AdminRetry, Stepped

\* A launch or a shutdown is confirmed.
LEMMA PostAnsweredSteps == ASSUME Good(core), PostAnswered PROVE Stepped(core, core')
<1>1. core \in Cores /\ Linked(core) /\ Placed(core)
  BY DEF Good, Fit
<1>2. CASE core' = StartHeartbeat(Confirmed(core))
  <2>1. PICK c \in Cores : /\ c = Confirmed(core) /\ Past(core.probes, c.probes)
                           /\ c.lifecycle = core.lifecycle /\ c.attempt = core.attempt
                           /\ c.up = core.up /\ c.wire = core.wire /\ c.run = core.run
                           /\ c.retry = core.retry
    BY <1>1, ConfirmedFacts
  <2>2. Linked(c) /\ Placed(c)
    BY <1>1, <2>1 DEF Linked, Placed
  <2>3. Good(core') /\ Past(c.probes, core'.probes)
    BY <1>2, <2>1, <2>2, StartIsGood
  <2> QED
    BY <2>1, <2>3, PastUndecided DEF Stepped, Past
<1>3. CASE core' = core
  BY <1>3, PastSame, PastUndecided DEF Stepped
<1>4. CASE core' = StartHeartbeat(TransportDisconnect(Teardown([Confirmed(core) EXCEPT !.lifecycle = "setup"])))
  BY <1>1, <1>4, ConfirmedShutdownIsGood, PastUndecided DEF Stepped
<1> QED
  BY <1>2, <1>3, <1>4 DEF PostAnswered, ShutdownAnswered

-----------------------------------------------------------------------------
(* The theorems about the connection *)

\* Every step keeps the controller good and leaves the past undecided.
LEMMA CoreSteps == IInv /\ Next => Stepped(core, core')
<1> SUFFICES ASSUME IInv, Next PROVE Stepped(core, core')
  OBVIOUS
<1>1. Good(core) /\ Around
  BY DEF IInv
<1>2. CASE UNCHANGED core
  BY <1>1, <1>2, PastSame, PastUndecided DEF Stepped
<1>3. CASE \E p \in core.probes : ProbeAnswers(p) \/ ProbeFails(p) \/ ProbeSettles(p)
  <2>1. PICK p \in core.probes : ProbeAnswers(p) \/ ProbeFails(p) \/ ProbeSettles(p)
    BY <1>3
  <2>2. CASE ProbeAnswers(p) \/ ProbeFails(p)
    <3>1. \E a \in Answers : Answered(p, a)
      BY <1>1, <2>2 DEF Around, ProbeAnswers, ProbeFails, TitleOf, Answers
    <3> QED
      BY <1>1, <3>1, AnsweredSteps
  <2> QED
    BY <1>1, <2>1, <2>2, SettleSteps
<1>4. CASE FoundryActs \/ WorldStops \/ SocketSignal
  <2>1. UNCHANGED core \/ Leaves
        \/ (core.up /\ \E w \in Wires : core' = [core EXCEPT !.wire = w])
    BY <1>4 DEF FoundryActs, WorldStops, SocketSignal, Wires
  <2> QED
    BY <1>1, <1>2, <2>1, LeavesSteps, SignalledSteps
<1>5. CASE PostSetupAction \/ WorldStarts
  BY <1>2, <1>5 DEF PostSetupAction, WorldStarts
<1>6. CASE \/ RetryFires \/ HeartbeatFires \/ AttemptAnswered \/ AttemptHandshake \/ AttemptDiscovers
           \/ AttemptBreaks \/ AttemptConnects \/ AttemptActive \/ AttemptInactive \/ AttemptTimesOut
  BY <1>1, <1>6, RetrySteps, HeartbeatSteps, AttemptAnsweredSteps, HandshakeSteps, DiscoversSteps,
     EndingSteps, ConnectsSteps, ActiveSteps
<1>7. CASE \/ Signal \/ RunSucceeds \/ RunFails \/ RunFindsNoRole \/ RunVerifies
           \/ (\E k \in LateRuns : LateRunFails(k))
           \/ Engage \/ Disengage \/ Pause \/ Resume \/ AdminRetry \/ PostAnswered
  BY <1>1, <1>7, SignalSteps, RunSucceedsSteps, RunFailsSteps, NoRoleSteps, RunVerifiesSteps, LateSteps,
     EngageSteps, DisengageSteps, PauseSteps, ResumeSteps, AdminRetrySteps, PostAnsweredSteps
<1> QED
  BY <1>3, <1>4, <1>5, <1>6, <1>7 DEF Next

\* The rest of the state keeps its types.
LEMMA AroundSteps == IInv /\ Next => Around'
<1> SUFFICES ASSUME IInv, Next PROVE Around'
  OBVIOUS
<1> USE DEF Around, IInv
<1>1. events' \in 0..MaxEvents
  <2>1. events' = events \/ (events < MaxEvents /\ events' = events + 1)
    BY DEF Next, Event, Quiet, RetryFires, HeartbeatFires, ProbeAnswers, ProbeFails, ProbeSettles,
     AttemptAnswered, AttemptHandshake, AttemptDiscovers, AttemptBreaks, AttemptConnects, AttemptActive,
     AttemptInactive, AttemptTimesOut, Signal, RunSucceeds, RunFails, RunFindsNoRole, RunVerifies, LateRunFails,
     Engage, Disengage, Pause, Resume, AdminRetry, PostSetupAction, FoundryActs, PostAnswered,
     WorldStarts, WorldStops, SocketSignal
  <2> QED
    BY <2>1, MaxEventsNat
<1> DEFINE Natives == [world : Worlds \cup {None}, refusing : SUBSET Worlds]
<1>2. ASSUME NEW w \in Worlds \cup {None}, NEW n, n = [native EXCEPT !.world = w]
      PROVE  n \in Natives
  BY <1>2
<1>3. CASE RunFindsNoRole
  <2> DEFINE R == native.refusing \cup {native.world}
  <2>1. R \in SUBSET Worlds
    BY <1>3 DEF RunFindsNoRole
  <2>2. native' = [native EXCEPT !.refusing = R] /\ post' = post
    BY <1>3 DEF RunFindsNoRole
  <2> HIDE DEF R
  <2>3. native' \in Natives
    BY <2>1, <2>2
  <2> QED
    BY <1>1, <2>2, <2>3
<1> DEFINE Posts == [pc : {"none", "launch", "launched", "shutdown", "stopped"}, signalled : BOOLEAN]
<1>4. /\ NoPost \in Posts
      /\ \A q \in Posts, a \in {"launch", "launched", "shutdown", "stopped"} : [q EXCEPT !.pc = a] \in Posts
  BY DEF NoPost
<1>5. CASE PostSetupAction \/ PostAnswered
  <2>1. /\ native' = native
        /\ post' = NoPost \/ \E a \in {"launch", "shutdown"} : post' = [NoPost EXCEPT !.pc = a]
    BY <1>5 DEF PostSetupAction, PostAnswered
  <2>2. post' \in Posts
    BY <1>4, <2>1
  <2> QED
    BY <1>1, <2>1, <2>2
<1>6. CASE FoundryActs
  <2>1. native' = native \/ native' = [native EXCEPT !.world = None]
        \/ \E w \in Worlds : native' = [native EXCEPT !.world = w]
    BY <1>6 DEF FoundryActs
  <2>2. post' = NoPost \/ \E a \in {"launched", "stopped"} : post' = [post EXCEPT !.pc = a]
    BY <1>6 DEF FoundryActs
  <2>3. native' \in Natives
    BY <1>2, <2>1
  <2>4. post' \in Posts
    BY <1>4, <2>2
  <2> QED
    BY <1>1, <2>3, <2>4
<1>7. CASE WorldStarts \/ WorldStops
  <2>1. /\ post' = post
        /\ \/ native' = [native EXCEPT !.world = None]
           \/ \E w \in Worlds : native' = [native EXCEPT !.world = w]
    BY <1>7 DEF WorldStarts, WorldStops
  <2>2. native' \in Natives
    BY <1>2, <2>1
  <2> QED
    BY <1>1, <2>1, <2>2
<1>8. CASE Signal
  <2>1. native' = native /\ \E b \in BOOLEAN : post' = [post EXCEPT !.signalled = b]
    BY <1>8 DEF Signal
  <2> QED
    BY <1>1, <2>1
<1>9. CASE UNCHANGED <<post, native>>
  BY <1>1, <1>9
<1> QED
  BY <1>3, <1>5, <1>6, <1>7, <1>8, <1>9
     DEF Next, RetryFires, HeartbeatFires, ProbeAnswers, ProbeFails, ProbeSettles,
         AttemptAnswered, AttemptHandshake, AttemptDiscovers, AttemptBreaks, AttemptConnects, AttemptActive,
         AttemptInactive, AttemptTimesOut, RunSucceeds, RunFails, RunVerifies, LateRunFails,
         Engage, Disengage, Pause, Resume, AdminRetry, SocketSignal

\* The first attempt is under way.
LEMMA InitIInv == Init => IInv
<1> SUFFICES ASSUME Init PROVE IInv
  OBVIOUS
<1>1. core \in Cores
  BY DEF Init, Cores, Lifecycles, Attempts, AttemptPcs, Answers, NoAttempt, Wires
<1>2. Linked(core) /\ Placed(core) /\ Known(core) /\ Monitored(core)
  BY DEF Init, Linked, Placed, Known, Monitored, NoAttempt
<1>3. Around
  BY MaxEventsNat DEF Init, Around, NoPost
<1> QED
  BY <1>1, <1>2, <1>3 DEF IInv, Good, Fit

\* The invariant is inductive.
LEMMA NextIInv == IInv /\ [Next]_vars => IInv'
<1>1. IInv /\ Next => IInv'
  BY CoreSteps, AroundSteps DEF IInv, Stepped
<1>2. IInv /\ UNCHANGED vars => IInv'
  BY DEF IInv, Around, vars
<1> QED
  BY <1>1, <1>2

\* The invariant holds in every reachable state.
THEOREM Invariance == Spec => []IInv
  BY InitIInv, NextIInv, PTL DEF Spec

\* The controller's state keeps its types, and a signal comes from a socket that is up.
THEOREM TypeCorrect == Spec => []TypeOK
<1>1. IInv => TypeOK
  BY DEF IInv, Good, Fit, Cores, Linked, Around, TypeOK, Attempts, Wires
<1> QED
  BY <1>1, Invariance, PTL

\* Without a connection, and while a world is served, somebody still watches: a timer, a status
\* request, an attempt or the end of a pause, whichever replaced which.
THEOREM Monitors == Spec => []MonitoringNeverStops
<1>1. IInv => MonitoringNeverStops
  BY DEF IInv, Good, Monitored, MonitoringNeverStops, Stale
<1> QED
  BY <1>1, Invariance, PTL

\* A status request from before a confirmed launch or shutdown moves nothing when it is answered.
THEOREM PastIsOver == Spec => ThePastDecidesNothing
<1> DEFINE P == \A p \in core.probes :
          p.before /\ p \notin core'.probes /\ [p EXCEPT !.fresh = FALSE] \notin core'.probes =>
             /\ core'.lifecycle = core.lifecycle
             /\ core'.evidence = core.evidence
             /\ core'.attempt = core.attempt
<1>1. IInv /\ [Next]_vars => [P]_vars
  <2> SUFFICES ASSUME IInv, Next PROVE P
    OBVIOUS
  <2> QED
    BY CoreSteps DEF IInv, Good, Fit, Known, Stepped, Undecided
<1> QED
  BY <1>1, Invariance, PTL DEF Spec, ThePastDecidesNothing

-----------------------------------------------------------------------------
(* The gate *)

\* What a stale scope captured lies strictly behind the generation, which only grows.
ScopeFence ==
    /\ stale \subseteq scoped
    /\ \A w \in scoped : revision[w] <= generation
    /\ \A w \in stale : revision[w] < generation

\* While a drain is covered the gate has not reopened, so no send has been admitted.
CoverFence == covered # {} => blockers # {}

\* The gate's inductive invariant; sends begin and end one at a time, so they are finitely many.
GateInv ==
    /\ GateTypeOK
    /\ InFlightExact
    /\ NoLostWakeup
    /\ DrainedMeansQuiet
    /\ IsFiniteSet(sending)
    /\ ScopeFence
    /\ CoverFence

-----------------------------------------------------------------------------
\* The counter is zero exactly when no send is unsettled.
LEMMA InFlightZero ==
    ASSUME GateTypeOK, InFlightExact, IsFiniteSet(sending)
    PROVE  inFlight = 0 <=> sending = {}
BY FS_EmptySet DEF InFlightExact, GateTypeOK

\* The initial state satisfies the invariant.
LEMMA GateStarts == GateInit => GateInv
<1> SUFFICES ASSUME GateInit PROVE GateInv
  OBVIOUS
<1>1. Cardinality({}) = 0
  BY FS_EmptySet
<1> QED
  BY <1>1, FS_EmptySet DEF GateInit, GateInv, GateTypeOK, InFlightExact, NoLostWakeup, DrainedMeansQuiet,
              ScopeFence, CoverFence, DrainStates

\* Admission changes touch no send and no drain; only the two fences are at stake.
LEMMA AdmissionStep ==
    ASSUME GateInv, (\E k \in Keys : Block(k) \/ Release(k)) \/ ActivateServingToken
    PROVE  GateInv'
<1> USE DEF GateInv
<1>1. CASE \E k \in Keys : Block(k)
  <2>1. PICK k \in Keys : Block(k)
    BY <1>1
  <2> QED
    BY <2>1 DEF Block, NextGeneration, flows, drains, GateTypeOK, InFlightExact, NoLostWakeup,
                DrainedMeansQuiet, ScopeFence, CoverFence
<1>2. CASE \E k \in Keys : Release(k)
  <2>1. PICK k \in Keys : Release(k)
    BY <1>2
  <2> QED
    BY <2>1 DEF Release, NextGeneration, flows, drains, GateTypeOK, InFlightExact, NoLostWakeup,
                DrainedMeansQuiet, ScopeFence, CoverFence
<1>3. CASE ActivateServingToken
  BY <1>3 DEF ActivateServingToken, NextGeneration, flows, drains, GateTypeOK, InFlightExact,
              NoLostWakeup, DrainedMeansQuiet, ScopeFence, CoverFence
<1> QED
  BY <1>1, <1>2, <1>3

\* Entering and leaving a scope moves neither the counter nor the gate.
LEMMA ScopeStep ==
    ASSUME GateInv, NEW w \in Works, EnterScope(w) \/ LeaveScope(w)
    PROVE  GateInv'
<1> USE DEF GateInv
<1>1. CASE EnterScope(w)
  BY <1>1 DEF EnterScope, gate, drains, history, GateTypeOK, InFlightExact, NoLostWakeup,
              DrainedMeansQuiet, ScopeFence, CoverFence
<1>2. CASE LeaveScope(w)
  BY <1>2 DEF LeaveScope, gate, drains, GateTypeOK, InFlightExact, NoLostWakeup,
              DrainedMeansQuiet, ScopeFence, CoverFence
<1> QED
  BY <1>1, <1>2

\* A send is admitted only through an open gate, where no drain is covered.
LEMMA DispatchStep ==
    ASSUME GateInv, NEW w \in Works, Dispatch(w)
    PROVE  GateInv'
<1> USE DEF GateInv
<1>1. covered = {}
  BY DEF Dispatch, AssertOpen, IsOpen, CoverFence
<1>2. GateTypeOK' /\ ScopeFence' /\ CoverFence'
  BY DEF Dispatch, gate, drains, history, GateTypeOK, ScopeFence, CoverFence
<1>3. InFlightExact'
  <2>1. Cardinality(sending \cup {w}) = Cardinality(sending) + 1
    BY InFlightZero, FS_AddElement DEF Dispatch
  <2> QED
    BY <2>1 DEF Dispatch, InFlightExact
<1>4. IsFiniteSet(sending')
  BY FS_AddElement DEF Dispatch
<1>5. NoLostWakeup'
  BY DEF Dispatch, drains, NoLostWakeup
<1>6. DrainedMeansQuiet'
  BY <1>1 DEF Dispatch, history, DrainedMeansQuiet
<1> QED
  BY <1>2, <1>3, <1>5, <1>6, <1>4

\* The last send to settle wakes every waiting drain.
LEMMA SettleStep ==
    ASSUME GateInv, NEW w \in Works, Settle(w)
    PROVE  GateInv'
<1> USE DEF GateInv
<1>1. /\ Cardinality(sending \ {w}) = Cardinality(sending) - 1
      /\ inFlight # 0
  BY InFlightZero, FS_RemoveElement DEF Settle
<1>2. IsFiniteSet(sending')
  BY FS_RemoveElement DEF Settle
<1>3. inFlight' \in Nat /\ inFlight' = Cardinality(sending')
  BY <1>1 DEF Settle, InFlightExact, GateTypeOK
<1>4. GateTypeOK' /\ ScopeFence' /\ CoverFence' /\ InFlightExact'
  BY <1>3 DEF Settle, gate, history, GateTypeOK, ScopeFence, CoverFence, InFlightExact, DrainStates
<1>5. inFlight' = 0 <=> sending' = {}
  BY <1>4, <1>2, FS_EmptySet DEF GateTypeOK, InFlightExact
<1>6. NoLostWakeup'
  BY <1>5 DEF Settle, GateTypeOK, DrainStates, NoLostWakeup
<1>7. DrainedMeansQuiet'
  <2> SUFFICES ASSUME NEW d \in covered, drain'[d] = "resolved"
               PROVE  sending' = {}
    BY DEF Settle, history, DrainedMeansQuiet
  <2>1. CASE drain[d] = "resolved"
    BY <2>1 DEF Settle, DrainedMeansQuiet
  <2>2. CASE drain[d] # "resolved"
    BY <2>2, <1>5 DEF Settle, GateTypeOK
  <2> QED
    BY <2>1, <2>2
<1> QED
  BY <1>4, <1>6, <1>7, <1>2

\* A drain resolves at once only when the counter is zero.
LEMMA DrainStep ==
    ASSUME GateInv, NEW d \in Drains, DrainCall(d) \/ DrainTimeout(d) \/ DrainConsumed(d)
    PROVE  GateInv'
<1> USE DEF GateInv
<1>1. CASE DrainCall(d)
  BY <1>1, InFlightZero DEF DrainCall, gate, flows, IsOpen, GateTypeOK, DrainStates, InFlightExact,
                            NoLostWakeup, DrainedMeansQuiet, ScopeFence, CoverFence
<1>2. CASE DrainTimeout(d)
  BY <1>2 DEF DrainTimeout, gate, flows, history, GateTypeOK, DrainStates, InFlightExact,
              NoLostWakeup, DrainedMeansQuiet, ScopeFence, CoverFence
<1>3. CASE DrainConsumed(d)
  BY <1>3 DEF DrainConsumed, gate, flows, GateTypeOK, DrainStates, InFlightExact,
              NoLostWakeup, DrainedMeansQuiet, ScopeFence, CoverFence
<1> QED
  BY <1>1, <1>2, <1>3

\* The invariant is inductive.
LEMMA GateSteps == GateInv /\ [GateNext]_gateVars => GateInv'
<1> SUFFICES ASSUME GateInv, [GateNext]_gateVars PROVE GateInv'
  OBVIOUS
<1>1. CASE UNCHANGED gateVars
  BY <1>1 DEF gateVars, GateInv, GateTypeOK, InFlightExact, NoLostWakeup, DrainedMeansQuiet,
              ScopeFence, CoverFence
<1>2. CASE GateNext
  BY <1>2, AdmissionStep, ScopeStep, DispatchStep, SettleStep, DrainStep DEF GateNext
<1> QED
  BY <1>1, <1>2

-----------------------------------------------------------------------------
\* The inductive invariant holds in every reachable state.
THEOREM GateInvariance == GateSpec => []GateInv
  BY GateStarts, GateSteps, PTL DEF GateSpec

\* Type correctness of the gate.
THEOREM GateTypes == GateSpec => []GateTypeOK
  BY GateInvariance, PTL DEF GateInv

\* pendingDispatches() counts the unsettled sends exactly.
THEOREM CountsInFlight == GateSpec => []InFlightExact
  BY GateInvariance, PTL DEF GateInv

\* A drain that waits has a send to wait for.
THEOREM WakesDrains == GateSpec => []NoLostWakeup
  BY GateInvariance, PTL DEF GateInv

\* A drain resolved under a gate held closed leaves nothing in flight.
THEOREM DrainIsQuiet == GateSpec => []DrainedMeansQuiet
  BY GateInvariance, PTL DEF GateInv

\* A scope admitted before a block or a serving-token change never sends again.
THEOREM FencesStaleScopes == GateSpec => StaleScopesSendNothing
<1>1. GateInv /\ [GateNext]_gateVars
        => [\A w \in stale \cap scoped : w \notin sending => w \notin sending']_gateVars
  <2> SUFFICES ASSUME GateInv, GateNext, NEW w \in stale \cap scoped, w \notin sending, w \in sending'
               PROVE  FALSE
    OBVIOUS
  <2>1. PICK v \in Works : Dispatch(v) /\ v = w
    BY DEF GateNext, Block, Release, ActivateServingToken, EnterScope, LeaveScope, Dispatch, Settle,
           DrainCall, DrainTimeout, DrainConsumed, flows
  <2>2. revision[w] = generation /\ revision[w] < generation
    BY <2>1 DEF Dispatch, AssertOpen, GateInv, ScopeFence
  <2> QED
    BY <2>2 DEF GateInv, GateTypeOK
<1> QED
  BY <1>1, GateInvariance, PTL DEF GateSpec, StaleScopesSendNothing
=================================================================================
