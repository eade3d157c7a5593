--------------------------- MODULE CircuitBreaker ---------------------------
(***************************************************************************)
(* CircuitBreakerMiddleware of src/middleware/circuit-breaker.ts: the       *)
(* CircuitRecord of one (module_id, caller_id) key and the calls that pass  *)
(* through its before(), after() and onError().  Keys share nothing, so one *)
(* record is modelled.                                                      *)
(*                                                                          *)
(* The hooks are synchronous, hence one action each; between the hooks of   *)
(* one call any hook of another may run.  What Executor.call and            *)
(* MiddlewareManager do around them decides which hook comes next, and      *)
(* whether one comes at all: a cancellation skips on_error, and an inner    *)
(* middleware that answers on_error hides the error from this one.          *)
(*                                                                          *)
(* Date.now() - openedAt is kept up to RecoveryWindow, beyond which no      *)
(* comparison tells two values apart.                                       *)
(***************************************************************************)
EXTENDS Integers, Sequences, FiniteSets

CONSTANTS
  Callers,        \* calls that may be in flight at once; each may come again
  WindowSize,     \* options.windowSize
  MinSamples,     \* options.minSamples, before the constructor's clamp
  RateNum,        \* options.openThreshold = RateNum / RateDen
  RateDen,
  RecoveryWindow, \* options.recoveryWindowMs, in ticks
  Bypasses        \* ways in which a call ends without the breaker learning
                  \* its outcome

ASSUME BreakerAssumption ==
  /\ WindowSize \in Nat \ {0}
  /\ MinSamples \in Nat \ {0}
  /\ RateNum \in Nat /\ RateDen \in Nat \ {0} /\ RateNum <= RateDen
  /\ RecoveryWindow \in Nat
  /\ Bypasses \subseteq {"cancelled", "answered", "nested"}

VARIABLES
  state,          \* CircuitRecord.state
  buf,            \* RollingWindow._buf, _head, _len, _errors
  head,
  len,
  errors,
  sinceOpenedAt,  \* Date.now() - openedAt, or Never when openedAt is null
  probeInFlight,  \* CircuitRecord.probeInFlight
  at,             \* [Callers -> where the call is]
  published,      \* [Callers -> context.data[CTX_CIRCUIT_STATE]]
  recent,         \* history: the last WindowSize outcomes, oldest first
  cooling,        \* history: ticks since the circuit last opened, Never
                  \* once it has closed or was reset
  probes          \* history: calls let in since the circuit turned HALF_OPEN

window == <<buf, head, len, errors, recent>>
circuit == <<state, sinceOpenedAt, probeInFlight, cooling, probes>>
vars == <<window, circuit, at, published>>

Never == -1
Ticks == 0 .. RecoveryWindow
States == {"CLOSED", "OPEN", "HALF_OPEN"}

\* The constructor clamps min_samples to window_size.
UnclampedSamples == MinSamples                                     \* mutant
EffectiveMinSamples ==
  IF MinSamples > WindowSize THEN WindowSize ELSE MinSamples

Indices == 0 .. WindowSize - 1
EmptyBuf == [i \in Indices |-> FALSE]

----------------------------------------------------------------------------
(* RollingWindow *)

\* The window that keeps the last WindowSize outcomes of a history.
LastOf(s) == IF Len(s) > WindowSize THEN Tail(s) ELSE s

NeverEvicted == FALSE                                              \* mutant
EvictedError == len = WindowSize /\ buf[head]

NextHead == (head + 1) % WindowSize

Record(isError) ==
  /\ IF len < WindowSize
       THEN /\ buf' = [buf EXCEPT ![len] = isError]
            /\ len' = len + 1
            /\ UNCHANGED head
       ELSE /\ buf' = [buf EXCEPT ![head] = isError]
            /\ head' = NextHead
            /\ UNCHANGED len
  /\ errors' = errors - (IF EvictedError THEN 1 ELSE 0)
                      + (IF isError THEN 1 ELSE 0)
  /\ recent' = LastOf(Append(recent, isError))

\* errorRate >= openThreshold over at least min_samples outcomes.
TripsAt(e, n) == n >= EffectiveMinSamples /\ e * RateDen >= RateNum * n

----------------------------------------------------------------------------
(* CircuitRecord *)

Init ==
  /\ state = "CLOSED" /\ sinceOpenedAt = Never /\ probeInFlight = FALSE
  /\ buf = EmptyBuf /\ head = 0 /\ len = 0 /\ errors = 0 /\ recent = <<>>
  /\ at = [c \in Callers |-> "idle"]
  /\ published = [c \in Callers |-> "none"]
  /\ cooling = Never /\ probes = 0

\* _maybeHalfOpen: the state the next decision is taken in.
Recovered ==
  state = "OPEN" /\ sinceOpenedAt # Never /\ sinceOpenedAt >= RecoveryWindow

EffectiveState == IF Recovered THEN "HALF_OPEN" ELSE state

\* _openCircuit
KeepsOldOpenedAt ==                                                \* mutant
  /\ state' = "OPEN" /\ probeInFlight' = FALSE
  /\ sinceOpenedAt' = IF sinceOpenedAt = Never THEN 0 ELSE sinceOpenedAt
  /\ cooling' = 0 /\ probes' = 0
OpenCircuit ==
  /\ state' = "OPEN" /\ sinceOpenedAt' = 0 /\ probeInFlight' = FALSE
  /\ cooling' = 0 /\ probes' = 0

\* _closeCircuit
CloseCircuit ==
  /\ state' = "CLOSED" /\ sinceOpenedAt' = Never /\ probeInFlight' = FALSE
  /\ cooling' = Never /\ probes' = 0

----------------------------------------------------------------------------
(* The hooks *)

\* before(): refused while OPEN, or HALF_OPEN with a probe under way.  The
\* refusal reaches on_error as a CircuitBreakerOpenError, which is ignored.
TwoProbes == EffectiveState # "OPEN"                                \* mutant
MayEnter ==
  \/ EffectiveState = "CLOSED"
  \/ EffectiveState = "HALF_OPEN" /\ (Recovered \/ ~probeInFlight)

Before(c) ==
  /\ at[c] = "idle"
  /\ published' = [published EXCEPT ![c] = EffectiveState]
  /\ state' = EffectiveState
  /\ IF MayEnter THEN at' = [at EXCEPT ![c] = "running"] ELSE UNCHANGED at
  /\ IF EffectiveState = "HALF_OPEN" /\ MayEnter
       THEN /\ probeInFlight' = TRUE
            /\ probes' = IF Recovered THEN 1 ELSE probes + 1
       ELSE UNCHANGED <<probeInFlight, probes>>
  /\ UNCHANGED <<window, sinceOpenedAt, cooling>>

\* after(): a success, of whichever call, closes a HALF_OPEN circuit.
After(c) ==
  /\ at[c] = "running"
  /\ at' = [at EXCEPT ![c] = "closing"]
  /\ Record(FALSE)
  /\ IF state = "HALF_OPEN"
       THEN /\ CloseCircuit
            /\ published' = [published EXCEPT ![c] = "CLOSED"]
       ELSE UNCHANGED <<circuit, published>>

\* onError() with any other error than CircuitBreakerOpenError, of the
\* module, of another middleware, or of an outer after() once ours has run.
OnError(c) ==
  /\ at[c] \in {"running", "closing"}
  /\ at' = [at EXCEPT ![c] = "idle"]
  /\ Record(TRUE)
  /\ IF \/ state = "HALF_OPEN"
        \/ state = "CLOSED" /\ TripsAt(errors', len')
       THEN /\ OpenCircuit
            /\ published' = [published EXCEPT ![c] = "OPEN"]
       ELSE UNCHANGED <<circuit, published>>

----------------------------------------------------------------------------
(* Around the hooks *)

\* The after() chain ran to its end and the call returned its output.
Return(c) ==
  /\ at[c] = "closing"
  /\ at' = [at EXCEPT ![c] = "idle"]
  /\ UNCHANGED <<window, circuit, published>>

\* The call was cancelled: Executor.call throws before executeOnError.
Cancelled(c) ==
  /\ "cancelled" \in Bypasses
  /\ at[c] \in {"running", "closing"}
  /\ at' = [at EXCEPT ![c] = "idle"]
  /\ UNCHANGED <<window, circuit, published>>

\* A middleware that ran later answered on_error with a RetrySignal or a
\* recovery object: executeOnError returns without calling ours.  After a
\* RetrySignal the same call comes to before() again.
Answered(c) ==
  /\ "answered" \in Bypasses
  /\ at[c] \in {"running", "closing"}
  /\ at' = [at EXCEPT ![c] = "idle"]
  /\ UNCHANGED <<window, circuit, published>>

\* The module failed because a module it called was refused by a breaker:
\* the CircuitBreakerOpenError is another circuit's, and onError ignores it.
Nested(c) ==
  /\ "nested" \in Bypasses
  /\ at[c] = "running"
  /\ at' = [at EXCEPT ![c] = "idle"]
  /\ UNCHANGED <<window, circuit, published>>

\* getState() takes the OPEN circuit to HALF_OPEN when it is time.
GetState ==
  /\ Recovered
  /\ state' = "HALF_OPEN" /\ probeInFlight' = FALSE
  /\ probes' = 0
  /\ UNCHANGED <<window, sinceOpenedAt, cooling, at, published>>

\* reset(): the record is dropped; the next hook makes a new one.
Reset ==
  /\ state' = "CLOSED" /\ sinceOpenedAt' = Never /\ probeInFlight' = FALSE
  /\ buf' = EmptyBuf /\ head' = 0 /\ len' = 0 /\ errors' = 0
  /\ recent' = <<>> /\ cooling' = Never /\ probes' = 0
  /\ UNCHANGED <<at, published>>

Aged(d) == IF d \in 0 .. RecoveryWindow - 1 THEN d + 1 ELSE d
Tick ==
  /\ sinceOpenedAt' = Aged(sinceOpenedAt)
  /\ cooling' = Aged(cooling)
  /\ UNCHANGED <<window, state, probeInFlight, at, published, probes>>

CallStep(c) ==
  \/ Before(c) \/ After(c) \/ OnError(c) \/ Return(c)
  \/ Cancelled(c) \/ Answered(c) \/ Nested(c)

Next == (\E c \in Callers : CallStep(c)) \/ GetState \/ Reset \/ Tick

Spec == Init /\ [][Next]_vars

\* Time passes, callers keep coming, and a call that was let in ends, one way
\* or another: timeouts bound every step of the pipeline that runs it.
Ends(c) == After(c) \/ OnError(c) \/ Return(c) \/ Cancelled(c) \/ Answered(c)
           \/ Nested(c)
FairSpec ==
  /\ Spec
  /\ WF_vars(Tick)
  /\ \A c \in Callers : WF_vars(Before(c)) /\ WF_vars(Ends(c))

----------------------------------------------------------------------------
(* Properties *)

TypeOK ==
  /\ state \in States
  /\ buf \in [Indices -> BOOLEAN]
  /\ head \in Indices /\ len \in 0 .. WindowSize /\ errors \in 0 .. WindowSize
  /\ sinceOpenedAt \in Ticks \cup {Never}
  /\ probeInFlight \in BOOLEAN
  /\ at \in [Callers -> {"idle", "running", "closing"}]
  /\ published \in [Callers -> States \cup {"none"}]
  /\ cooling \in Ticks \cup {Never}
  /\ probes \in Nat

Failures(s) == Cardinality({i \in DOMAIN s : s[i]})

\* The rolling window holds exactly the last windowSize outcomes since the
\* record was made, and _errors is the number of failures among them,
\* however often the buffer has wrapped round.
WindowExact ==
  /\ len = Len(recent)
  /\ errors = Failures(recent)

\* Between a HALF_OPEN circuit and its next change of state before() lets in
\* at most one call, and probeInFlight says whether it has.
OneProbe ==
  /\ probes <= 1
  /\ probeInFlight <=> (state = "HALF_OPEN" /\ probes = 1)

\* A circuit is not left CLOSED by a failure that reaches the threshold: if
\* the last outcome is a failure and the window has minSamples outcomes, or as
\* many as it can hold, the rate of failures in it is below openThreshold.
ClosedIsHealthy ==
  (/\ state = "CLOSED"
   /\ recent # <<>> /\ recent[Len(recent)]
   /\ Len(recent) >= MinSamples \/ Len(recent) = WindowSize)
    => Failures(recent) * RateDen < RateNum * Len(recent)

\* The cool-down: once the circuit has opened, no call is let in before
\* recoveryWindowMs has passed since the last opening, unless reset() or a
\* close came in between.
CoolsDown ==
  [][\A c \in Callers : (at[c] = "idle" /\ at'[c] = "running")
       => cooling \in {Never, RecoveryWindow}]_vars

\* A HALF_OPEN circuit with a probe under way is decided sooner or later:
\* it does not refuse every call for ever.
ProbeSettles == (state = "HALF_OPEN" /\ probeInFlight)
                  ~> ~(state = "HALF_OPEN" /\ probeInFlight)
=============================================================================
