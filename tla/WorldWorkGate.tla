---------------------------- MODULE WorldWorkGate ----------------------------
(***************************************************************************)
(* The admission and fencing boundary of the Core process                  *)
(* (server/core/world/WorldWorkGate.ts).  Keyed blockers close the gate;   *)
(* every block, release and serving-token change moves to a new            *)
(* generation.  A request captures the generation when it is admitted, and *)
(* its later Foundry sends are refused once the generation has moved on.   *)
(* A drain waits until no admitted send is still in flight.                *)
(*                                                                         *)
(* A unit of work stands for one asynchronous flow: a request handler run  *)
(* by withWorldWorkScope, or background code that sends outside any scope. *)
(* The names that every module has carry the prefix Gate here, so that a   *)
(* module can extend this one beside another component.                    *)
(***************************************************************************)
EXTENDS Naturals, FiniteSets

CONSTANTS
    Keys,           \* blocker keys ("context-refresh", "module-upgrade", ...)
    Works,          \* asynchronous flows that may send to Foundry
    Drains,         \* callers of drain()
    MaxGeneration   \* bound on the generation counter

ASSUME BoundNat == MaxGeneration \in Nat

VARIABLES
    blockers,       \* keys of the blockers Map
    generation,     \* the counter every change of admission increments
    inFlight,       \* the inFlight counter
    scoped,         \* works running inside withWorldWorkScope
    revision,       \* the generation each scoped work captured
    sending,        \* works whose send() has not settled
    drain,          \* "idle", "waiting" (a done callback is registered), "resolved", "rejected"
    stale,          \* history: scopes that lived through a block or a serving-token change
    covered         \* history: drains called under a closed gate that has stayed closed

gate    == <<blockers, generation>>
flows   == <<scoped, revision, sending, inFlight>>
drains  == <<drain>>
history == <<stale, covered>>
gateVars == <<blockers, generation, inFlight, scoped, revision, sending, drain, stale, covered>>

IsOpen == blockers = {}

\* Faults: the blockers are not consulted; the captured revision is not compared.
AssertOpenIgnoringBlockers(w) == w \in scoped => revision[w] = generation
AssertOpenIgnoringRevision(w) == IsOpen

\* assertOpen(revision): the revision is undefined outside a scope.
AssertOpen(w) == IsOpen /\ (w \in scoped => revision[w] = generation)

GateInit ==
    /\ blockers = {}
    /\ generation = 0
    /\ inFlight = 0
    /\ scoped = {}
    /\ revision = [w \in Works |-> 0]
    /\ sending = {}
    /\ drain = [d \in Drains |-> "idle"]
    /\ stale = {}
    /\ covered = {}

NextGeneration ==
    /\ generation < MaxGeneration
    /\ generation' = generation + 1

-----------------------------------------------------------------------------
(* Admission *)

Block(k) ==
    /\ NextGeneration
    /\ blockers' = blockers \cup {k}
    /\ stale' = scoped
    /\ UNCHANGED <<flows, drains, covered>>

Release(k) ==
    /\ k \in blockers
    /\ NextGeneration
    /\ blockers' = blockers \ {k}
    /\ covered' = IF blockers' = {} THEN {} ELSE covered
    /\ UNCHANGED <<flows, drains, stale>>

ActivateServingToken ==
    /\ NextGeneration
    /\ stale' = scoped
    /\ UNCHANGED <<blockers, flows, drains, covered>>

-----------------------------------------------------------------------------
(* Work *)

\* withWorldWorkScope captures the current generation, and throws on a closed gate.
EnterScope(w) ==
    /\ w \notin scoped \cup sending
    /\ IsOpen
    /\ scoped' = scoped \cup {w}
    /\ revision' = [revision EXCEPT ![w] = generation]
    /\ UNCHANGED <<gate, sending, inFlight, drains, history>>

LeaveScope(w) ==
    /\ w \in scoped \ sending
    /\ scoped' = scoped \ {w}
    /\ stale' = stale \ {w}
    /\ UNCHANGED <<gate, revision, sending, inFlight, drains, covered>>

\* dispatch: the assertion and the increment run in one turn, send() is then awaited.
Dispatch(w) ==
    /\ w \notin sending
    /\ AssertOpen(w)
    /\ inFlight' = inFlight + 1
    /\ sending' = sending \cup {w}
    /\ UNCHANGED <<gate, scoped, revision, drains, history>>

\* The finally block: the last send to settle wakes every registered drain.
Settle(w) ==
    /\ w \in sending
    /\ inFlight' = inFlight - 1
    /\ sending' = sending \ {w}
    /\ drain' = [d \in Drains |-> IF inFlight' = 0 /\ drain[d] = "waiting"
                                  THEN "resolved" ELSE drain[d]]
    /\ UNCHANGED <<gate, scoped, revision, history>>

-----------------------------------------------------------------------------
(* Draining *)

DrainCall(d) ==
    /\ drain[d] = "idle"
    /\ drain' = [drain EXCEPT ![d] = IF inFlight = 0 THEN "resolved" ELSE "waiting"]
    /\ covered' = IF IsOpen THEN covered ELSE covered \cup {d}
    /\ UNCHANGED <<gate, flows, stale>>

DrainTimeout(d) ==
    /\ drain[d] = "waiting"
    /\ drain' = [drain EXCEPT ![d] = "rejected"]
    /\ UNCHANGED <<gate, flows, history>>

\* The caller has consumed the outcome and may drain again.
DrainConsumed(d) ==
    /\ drain[d] \in {"resolved", "rejected"}
    /\ drain' = [drain EXCEPT ![d] = "idle"]
    /\ covered' = covered \ {d}
    /\ UNCHANGED <<gate, flows, stale>>

-----------------------------------------------------------------------------
GateNext ==
    \/ \E k \in Keys : Block(k) \/ Release(k)
    \/ ActivateServingToken
    \/ \E w \in Works : EnterScope(w) \/ LeaveScope(w) \/ Dispatch(w) \/ Settle(w)
    \/ \E d \in Drains : DrainCall(d) \/ DrainTimeout(d) \/ DrainConsumed(d)

GateSpec == GateInit /\ [][GateNext]_gateVars

-----------------------------------------------------------------------------
(* Properties *)

DrainStates == {"idle", "waiting", "resolved", "rejected"}

\* Types of the variables; WorldWorkGate.ts declares them.
GateTypeOK ==
    /\ blockers \subseteq Keys
    /\ generation \in Nat
    /\ inFlight \in Nat
    /\ scoped \subseteq Works
    /\ revision \in [Works -> Nat]
    /\ sending \subseteq Works
    /\ drain \in [Drains -> DrainStates]
    /\ stale \subseteq Works
    /\ covered \subseteq Drains

\* pendingDispatches() is exactly the number of sends that have not settled:
\* maintenance decides from it whether the world is quiet.
InFlightExact == inFlight = Cardinality(sending)

\* No wake-up is lost: a drain still waiting has a send to wait for.
NoLostWakeup == \A d \in Drains : drain[d] = "waiting" => sending # {}

\* A drain that resolved under a gate held closed since the call leaves nothing
\* in flight: no send slipped in behind it.
DrainedMeansQuiet ==
    \A d \in covered : drain[d] = "resolved" => sending = {}

\* A scope admitted before a block or a serving-token change never sends again,
\* not even after the gate reopens.
StaleScopesSendNothing ==
    [][\A w \in stale \cap scoped : w \notin sending => w \notin sending']_gateVars
=============================================================================
