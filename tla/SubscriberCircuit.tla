-------------------------- MODULE SubscriberCircuit --------------------------
(***************************************************************************)
(* CircuitBreakerWrapper of src/events/circuit-breaker.ts: one subscriber   *)
(* of the emitter, wrapped.  Deliveries overlap: each is one onEvent() call, *)
(* suspended while it waits for the subscriber or for its own timer.  A call *)
(* that settles changes the circuit and emits the circuit event in one go.   *)
(***************************************************************************)
EXTENDS Integers, Sequences, SequencesExt

CONSTANTS
  Deliveries,       \* bound: the onEvent() calls
  OpenThreshold,    \* config.openThreshold
  RecoveryWindow    \* config.recoveryWindowMs, in ticks of the clock

ASSUME CircuitAssumption == OpenThreshold \in Nat \ {0} /\ RecoveryWindow \in Nat

VARIABLES
  circuit,      \* [state, failures, age]: age is the time since _lastFailureAt
  deliveries,   \* each call: "new", "waiting", "delivered", "failed", "dropped"
  outcomes,     \* history: the settled calls in the order they settled
  announced     \* history: the circuit event emitted last, or "none"

circuitVars == <<circuit, deliveries, outcomes, announced>>

CircuitInit ==
  /\ circuit = [state |-> "CLOSED", failures |-> 0, age |-> RecoveryWindow]
  /\ deliveries = [d \in Deliveries |-> "new"]
  /\ outcomes = <<>> /\ announced = "none"

\* checkRecovery, which every delivery starts with.
Recovered(c) ==
  IF c.state = "OPEN" /\ c.age >= RecoveryWindow
    THEN [c EXCEPT !.state = "HALF_OPEN"] ELSE c

\* An open circuit drops the event: onEvent() resolves as if delivered.
OnEvent(d) ==
  /\ deliveries[d] = "new"
  /\ circuit' = Recovered(circuit)
  /\ deliveries' = [deliveries EXCEPT ![d] =
                      IF circuit'.state = "OPEN" THEN "dropped" ELSE "waiting"]
  /\ UNCHANGED <<outcomes, announced>>

\* _onSuccess: only a half-open circuit closes; the count starts anew anyway.
OnSuccess(d) ==
  /\ deliveries[d] = "waiting"
  /\ circuit' = [circuit EXCEPT !.failures = 0,
                   !.state = IF @ = "HALF_OPEN" THEN "CLOSED" ELSE @]
  /\ announced' = IF circuit.state = "HALF_OPEN" THEN "circuit_closed" ELSE announced
  /\ deliveries' = [deliveries EXCEPT ![d] = "delivered"]
  /\ outcomes' = Append(outcomes, "delivered")

\* mutant: a failure while half-open counts like one while closed.
NeedsThreshold == circuit.state # "OPEN" /\ circuit.failures + 1 >= OpenThreshold

Opens ==
  \/ circuit.state = "HALF_OPEN"
  \/ circuit.state = "CLOSED" /\ circuit.failures + 1 >= OpenThreshold

\* _onFailure: the subscriber rejected, or the timer of this call fired first.
\* A failure that comes in while the circuit is open moves the window.
OnFailure(d) ==
  /\ deliveries[d] = "waiting"
  /\ circuit' = [state |-> IF Opens THEN "OPEN" ELSE circuit.state,
                 failures |-> circuit.failures + 1, age |-> 0]
  /\ announced' = IF Opens THEN "circuit_opened" ELSE announced
  /\ deliveries' = [deliveries EXCEPT ![d] = "failed"]
  /\ outcomes' = Append(outcomes, "failed")

CircuitTick ==
  /\ circuit.age < RecoveryWindow
  /\ circuit' = [circuit EXCEPT !.age = @ + 1]
  /\ UNCHANGED <<deliveries, outcomes, announced>>

CircuitNext ==
  \/ \E d \in Deliveries : OnEvent(d) \/ OnSuccess(d) \/ OnFailure(d)
  \/ CircuitTick

CircuitSpec == CircuitInit /\ [][CircuitNext]_circuitVars

----------------------------------------------------------------------------
(* Properties *)

\* The failures since the last success, whatever the circuit did meanwhile.
Streak ==
  CHOOSE n \in 0..Len(outcomes) :
    /\ \A i \in (Len(outcomes) - n + 1)..Len(outcomes) : outcomes[i] = "failed"
    /\ n < Len(outcomes) => outcomes[Len(outcomes) - n] # "failed"

\* The circuit events alone tell whether the circuit lets everything by.
AnnouncedState == announced = "circuit_opened" <=> circuit.state # "CLOSED"

\* Fewer failures than the threshold since the last success.
Healthy == circuit.failures = Streak /\ Streak < OpenThreshold

\* Calls begun under one state of the circuit settle under another, and still:
\* the circuit events never leave a listener believing in a closed circuit
\* that drops or probes, a closed circuit is a healthy one, the first call to
\* settle decides a probing circuit, an open one only ever turns to probing,
\* and no event is dropped once the window since the last failure is over.
CircuitHonest ==
  [][/\ AnnouncedState' /\ (circuit'.state = "CLOSED" => Healthy')
     /\ circuit.state = "HALF_OPEN" /\ outcomes' # outcomes =>
          circuit'.state = IF Last(outcomes') = "failed" THEN "OPEN" ELSE "CLOSED"
     /\ circuit.state = "OPEN" => circuit'.state # "CLOSED"
     /\ \A d \in Deliveries :
          deliveries[d] = "new" /\ deliveries'[d] = "dropped" =>
            circuit.state = "OPEN" /\ circuit.age < RecoveryWindow
    ]_circuitVars
=============================================================================
