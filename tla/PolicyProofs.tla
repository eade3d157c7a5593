---------------------------- MODULE PolicyProofs ----------------------------
(***************************************************************************)
(* What decides whether and how modules are called, and stays decided: the  *)
(* circuit breaker in front of them, the settings that the control modules  *)
(* keep and the rules that an ACL takes in (CircuitBreaker, RuntimeControl, *)
(* ACLRules).                                                               *)
(***************************************************************************)
EXTENDS CircuitBreaker, RuntimeControl, ACLRules, FiniteSetTheorems, WellFoundedInduction, TLAPS

----------------------------------------------------------------------------
(***************************************************************************)
(* Type correctness of CircuitBreaker, the exactness of its rolling window, *)
(* the single probe, the threshold and the cool-down, for every number of   *)
(* callers and every option the constructor accepts.                        *)
(*                                                                          *)
(* The invariant has three parts that do not depend on each other: the ring *)
(* buffer read from _head is the recent history; the clocks agree with the  *)
(* state; and the CLOSED state agrees with the window.                      *)
(***************************************************************************)

\* The cell of the ring that holds the i-th oldest outcome.
Cell(i) ==
  IF head + i <= WindowSize THEN head + i - 1 ELSE head + i - 1 - WindowSize

WindowTypes ==
  /\ buf \in [Indices -> BOOLEAN]
  /\ head \in Indices /\ len \in 0 .. WindowSize
  /\ recent \in Seq(BOOLEAN)

\* _head stays at 0 until the buffer is full; read from there on it holds
\* the recent outcomes, and _errors counts the failures among them.
WindowInv ==
  /\ WindowTypes
  /\ Len(recent) = len
  /\ len < WindowSize => head = 0
  /\ \A i \in 1 .. len : recent[i] = buf[Cell(i)]
  /\ errors = Failures(recent)

CallTypes ==
  /\ at \in [Callers -> {"idle", "running", "closing"}]
  /\ published \in [Callers -> States \cup {"none"}]

\* openedAt is null exactly in the CLOSED state, it is what the cool-down is
\* measured from, and an OPEN circuit turns HALF_OPEN only when it is over.
Clocks ==
  /\ state \in States
  /\ sinceOpenedAt \in Ticks \cup {Never}
  /\ cooling = sinceOpenedAt
  /\ state = "CLOSED" <=> sinceOpenedAt = Never
  /\ state = "HALF_OPEN" => sinceOpenedAt = RecoveryWindow

\* The probe is counted once and probeInFlight says whether it has been.
Probe ==
  /\ probeInFlight \in BOOLEAN
  /\ probes \in {0, 1}
  /\ probeInFlight <=> (state = "HALF_OPEN" /\ probes = 1)

CircuitInv == Clocks /\ Probe

IInv == WindowInv /\ CallTypes /\ CircuitInv /\ ClosedIsHealthy

----------------------------------------------------------------------------
(* The rolling window *)

LEMMA FailuresType ==
  ASSUME NEW s \in Seq(BOOLEAN)
  PROVE  /\ IsFiniteSet({i \in DOMAIN s : s[i]})
         /\ Failures(s) \in Nat /\ Failures(s) <= Len(s)
<1> DEFINE F == {i \in DOMAIN s : s[i]}
<1>1. DOMAIN s = 1 .. Len(s) /\ Len(s) \in Nat
  OBVIOUS
<1>2. IsFiniteSet(1 .. Len(s)) /\ Cardinality(1 .. Len(s)) = Len(s)
  BY <1>1, FS_Interval
<1>3. F \in SUBSET (1 .. Len(s))
  BY <1>1
<1>4. IsFiniteSet(F) /\ Cardinality(F) <= Len(s)
  BY <1>2, <1>3, FS_Subset
<1>5. Cardinality(F) \in Nat
  BY <1>4, FS_CardinalityType
<1> QED
  BY <1>4, <1>5 DEF Failures

LEMMA FailuresAppend ==
  ASSUME NEW s \in Seq(BOOLEAN), NEW b \in BOOLEAN
  PROVE  Failures(Append(s, b)) = Failures(s) + (IF b THEN 1 ELSE 0)
<1> DEFINE F == {i \in DOMAIN s : s[i]}
           n == Len(s) + 1
           G == {i \in DOMAIN Append(s, b) : Append(s, b)[i]}
<1>1. IsFiniteSet(F) /\ Cardinality(F) \in Nat
  BY FailuresType DEF Failures
<1>2. n \notin F
  OBVIOUS
<1>3. CASE b
  <2>1. G = F \cup {n}
    BY <1>3
  <2>2. Cardinality(G) = Cardinality(F) + 1
    <3> HIDE DEF F, n, G
    <3> QED
      BY <1>1, <1>2, <2>1, FS_AddElement
  <2> QED
    BY <1>3, <2>2 DEF Failures
<1>4. CASE ~b
  <2>1. G = F
    BY <1>4
  <2>2. Cardinality(G) = Cardinality(F) + 0
    <3> HIDE DEF F, G
    <3> QED
      BY <1>1, <2>1
  <2> QED
    BY <1>4, <2>2 DEF Failures
<1> QED
  BY <1>3, <1>4

LEMMA FailuresTail ==
  ASSUME NEW s \in Seq(BOOLEAN), s # <<>>
  PROVE  Failures(Tail(s)) = Failures(s) - (IF s[1] THEN 1 ELSE 0)
<1> DEFINE F == {i \in DOMAIN s : s[i]}
           R == F \ {1}
           G == {i \in DOMAIN Tail(s) : Tail(s)[i]}
           f == [i \in R |-> i - 1]
<1>1. IsFiniteSet(F) /\ Cardinality(F) \in Nat
  BY FailuresType DEF Failures
<1>2. /\ IsFiniteSet(R)
      /\ Cardinality(R) = Cardinality(F) - (IF s[1] THEN 1 ELSE 0)
  <2>1. 1 \in F <=> s[1]
    OBVIOUS
  <2> HIDE DEF F
  <2>2. /\ IsFiniteSet(R)
        /\ Cardinality(R) = IF 1 \in F THEN Cardinality(F) - 1 ELSE Cardinality(F)
    BY <1>1, FS_RemoveElement
  <2> QED
    BY <1>1, <2>1, <2>2
<1>3. /\ Len(s) \in Nat \ {0} /\ DOMAIN s = 1 .. Len(s)
      /\ DOMAIN Tail(s) = 1 .. (Len(s) - 1)
      /\ \A i \in 1 .. (Len(s) - 1) : Tail(s)[i] = s[i + 1]
  OBVIOUS
<1>4. f \in Bijection(R, G)
  <2>1. f \in [R -> G]
    <3> SUFFICES ASSUME NEW i \in R PROVE i - 1 \in G
      OBVIOUS
    <3>1. i - 1 \in 1 .. (Len(s) - 1) /\ i = (i - 1) + 1 /\ s[i]
      BY <1>3
    <3> QED
      BY <1>3, <3>1
  <2>2. \A i, j \in R : f[i] = f[j] => i = j
    BY <1>3
  <2>3. \A j \in G : \E i \in R : f[i] = j
    <3> SUFFICES ASSUME NEW j \in G PROVE j + 1 \in R /\ f[j + 1] = j
      OBVIOUS
    <3>1. j \in 1 .. (Len(s) - 1) /\ s[j + 1]
      BY <1>3
    <3>2. j + 1 \in R
      BY <1>3, <3>1
    <3> QED
      BY <3>1, <3>2
  <2> QED
    BY <2>1, <2>2, <2>3 DEF Bijection, Injection, Surjection, IsInjective
<1>5. Cardinality(G) = Cardinality(R)
  <2> HIDE DEF F, R, G, f
  <2>1. ExistsBijection(R, G)
    BY <1>4 DEF ExistsBijection
  <2> QED
    BY <1>2, <2>1, FS_Bijection
<1> QED
  BY <1>2, <1>5 DEF Failures

LEMMA FailuresBound ==
  \A s \in Seq(BOOLEAN) : Failures(s) \in Nat /\ Failures(s) <= Len(s)
BY FailuresType

LEMMA FailuresEmpty == Failures(<<>>) = 0
<1>1. <<>> \in Seq(BOOLEAN) /\ Len(<<>>) = 0
  OBVIOUS
<1>2. Failures(<<>>) \in Nat /\ Failures(<<>>) <= 0
  BY <1>1, FailuresBound
<1> QED
  BY <1>2

LEMMA NextHeadWraps ==
  ASSUME head \in Indices
  PROVE  NextHead = IF head + 1 = WindowSize THEN 0 ELSE head + 1
BY BreakerAssumption DEF NextHead, Indices

\* While the buffer fills up, the outcome goes to the cell past the last.
LEMMA RecordGrows ==
  ASSUME WindowInv, NEW b \in BOOLEAN, Record(b), len < WindowSize
  PROVE  WindowInv'
<1> USE BreakerAssumption DEF WindowInv, WindowTypes, Indices
<1>1. /\ buf' = [buf EXCEPT ![len] = b] /\ len' = len + 1 /\ head' = 0
      /\ head = 0 /\ len \in Indices
  BY DEF Record
<1>2. recent' = Append(recent, b)
  BY DEF Record, LastOf
<1>3. /\ buf' \in [Indices -> BOOLEAN] /\ head' \in Indices
      /\ len' \in 0 .. WindowSize
  BY <1>1
<1>4. recent' \in Seq(BOOLEAN) /\ Len(recent') = len'
  BY <1>1, <1>2
<1>5. \A i \in 1 .. len' : recent'[i] = buf'[Cell(i)']
  <2> SUFFICES ASSUME NEW i \in 1 .. len' PROVE recent'[i] = buf'[i - 1]
    BY <1>1 DEF Cell
  <2>1. CASE i = len'
    BY <1>1, <1>2, <2>1
  <2>2. CASE i # len'
    <3>1. i \in 1 .. len /\ i - 1 # len /\ i - 1 \in Indices
      BY <1>1, <2>2
    <3>2. recent'[i] = recent[i]
      BY <1>2, <3>1
    <3>3. recent[i] = buf[i - 1]
      BY <1>1, <3>1 DEF Cell
    <3> QED
      BY <1>1, <3>1, <3>2, <3>3
  <2> QED
    BY <2>1, <2>2
<1>6. errors' = Failures(recent')
  <2>1. errors' = errors + (IF b THEN 1 ELSE 0)
    <3>1. ~EvictedError
      BY DEF EvictedError
    <3>2. errors \in Nat
      BY FailuresType
    <3> QED
      BY <3>1, <3>2 DEF Record
  <2> QED
    BY <1>2, <2>1, FailuresAppend
<1> QED
  BY <1>1, <1>3, <1>4, <1>5, <1>6

\* Once it is full, the outcome overwrites the oldest one, which leaves.
LEMMA RecordWraps ==
  ASSUME WindowInv, NEW b \in BOOLEAN, Record(b), len = WindowSize
  PROVE  WindowInv'
<1> USE BreakerAssumption DEF WindowInv, WindowTypes, Indices
<1>1. /\ buf' = [buf EXCEPT ![head] = b] /\ len' = len
      /\ head' = IF head + 1 = WindowSize THEN 0 ELSE head + 1
  BY NextHeadWraps DEF Record
<1> DEFINE s == Append(recent, b)
<1>2. /\ s \in Seq(BOOLEAN) /\ Len(s) = WindowSize + 1 /\ s # <<>>
      /\ s[WindowSize + 1] = b
      /\ \A i \in 1 .. WindowSize : s[i] = recent[i]
  OBVIOUS
<1>3. recent' = Tail(s)
  BY <1>2 DEF Record, LastOf
<1>4. /\ recent' \in Seq(BOOLEAN) /\ Len(recent') = len'
      /\ \A i \in 1 .. WindowSize : recent'[i] = s[i + 1]
  <2> HIDE DEF s
  <2> QED
    BY <1>1, <1>2, <1>3
<1>5. /\ buf' \in [Indices -> BOOLEAN] /\ head' \in Indices
      /\ len' \in 0 .. WindowSize
  BY <1>1
<1>6. \A i \in 1 .. len' : recent'[i] = buf'[Cell(i)']
  <2> SUFFICES ASSUME NEW i \in 1 .. WindowSize
               PROVE  recent'[i] = buf'[Cell(i)']
    BY <1>1
  <2>1. CASE i = WindowSize
    <3>1. Cell(i)' = head
      BY <1>1, <2>1 DEF Cell
    <3>2. recent'[i] = b
      BY <1>2, <1>4, <2>1
    <3> QED
      BY <1>1, <3>1, <3>2
  <2>2. CASE i < WindowSize
    <3>1. i + 1 \in 1 .. len
      BY <2>2
    <3>2. Cell(i)' = Cell(i + 1) /\ Cell(i + 1) \in Indices
          /\ Cell(i + 1) # head
      BY <1>1, <2>2 DEF Cell
    <3>3. recent'[i] = recent[i + 1]
      BY <1>2, <1>4, <3>1
    <3>4. recent[i + 1] = buf[Cell(i + 1)]
      BY <3>1
    <3> QED
      BY <1>1, <3>2, <3>3, <3>4
  <2> QED
    BY <2>1, <2>2
<1>7. errors' = Failures(recent')
  <2>1. EvictedError = s[1]
    <3>1. 1 \in 1 .. len /\ Cell(1) = head
      BY DEF Cell
    <3>2. recent[1] = buf[head]
      BY <3>1
    <3> QED
      BY <1>2, <3>2 DEF EvictedError
  <2>2. errors' = errors - (IF s[1] THEN 1 ELSE 0) + (IF b THEN 1 ELSE 0)
    BY <2>1 DEF Record
  <2>3. Failures(s) = errors + (IF b THEN 1 ELSE 0) /\ errors \in Nat
    BY FailuresAppend, FailuresType
  <2>4. Failures(Tail(s)) = Failures(s) - (IF s[1] THEN 1 ELSE 0)
    BY <1>2, FailuresTail
  <2> HIDE DEF s
  <2> QED
    BY <1>3, <2>2, <2>3, <2>4
<1> QED
  BY <1>1, <1>4, <1>5, <1>6, <1>7

LEMMA RecordStep ==
  ASSUME WindowInv, NEW b \in BOOLEAN, Record(b)
  PROVE  WindowInv' /\ recent' # <<>> /\ recent'[Len(recent')] = b
<1> USE BreakerAssumption
<1>1. WindowInv'
  <2>1. len < WindowSize \/ len = WindowSize
    BY DEF WindowInv, WindowTypes
  <2> QED
    BY <2>1, RecordGrows, RecordWraps
<1>2. recent \in Seq(BOOLEAN) /\ recent' = LastOf(Append(recent, b))
  BY DEF WindowInv, WindowTypes, Record
<1> DEFINE s == Append(recent, b)
<1>3. /\ s \in Seq(BOOLEAN) /\ s # <<>> /\ s[Len(s)] = b
  BY <1>2
<1>4. CASE Len(s) > WindowSize
  <2> HIDE DEF s
  <2>1. recent' = Tail(s) /\ Len(Tail(s)) = Len(s) - 1 /\ Len(s) - 1 >= 1
    BY <1>2, <1>3, <1>4 DEF LastOf, s
  <2>2. Tail(s)[Len(s) - 1] = s[Len(s)]
    BY <1>3, <2>1
  <2>3. recent' # <<>>
    <3>1. recent' \in Seq(BOOLEAN) /\ Len(recent') >= 1
      BY <1>1, <2>1 DEF WindowInv, WindowTypes
    <3> QED
      BY <3>1
  <2>4. recent'[Len(recent')] = b
    BY <1>3, <2>1, <2>2
  <2> QED
    BY <1>1, <2>1, <2>3, <2>4
<1>5. CASE ~(Len(s) > WindowSize)
  BY <1>1, <1>2, <1>3, <1>5 DEF LastOf
<1> QED
  BY <1>4, <1>5


----------------------------------------------------------------------------
(* The steps *)

\* The part of the invariant that speaks of the circuit and its window.
CoreInv == WindowInv /\ CircuitInv /\ ClosedIsHealthy

LEMMA InitInv ==
  ASSUME Init
  PROVE  IInv
<1> USE BreakerAssumption DEF Init
<1>1. WindowInv
  <2>1. recent \in Seq(BOOLEAN) /\ Len(recent) = 0
    OBVIOUS
  <2>2. Failures(recent) = 0
    BY FailuresEmpty
  <2> QED
    BY <2>1, <2>2 DEF WindowInv, WindowTypes, EmptyBuf, Indices
<1>2. CallTypes
  BY DEF CallTypes, States
<1>3. CircuitInv
  BY DEF CircuitInv, Clocks, Probe, States, Ticks, Never
<1>4. ClosedIsHealthy
  BY DEF ClosedIsHealthy
<1> QED
  BY <1>1, <1>2, <1>3, <1>4 DEF IInv

LEMMA BeforeStep ==
  ASSUME CoreInv, NEW c \in Callers, Before(c)
  PROVE  CoreInv'
<1>1. UNCHANGED window /\ WindowInv'
  BY DEF CoreInv, Before, window, WindowInv, WindowTypes, Cell, Failures
<1>2. CircuitInv'
  <2>1. Clocks'
    BY BreakerAssumption
    DEF CoreInv, CircuitInv, Clocks, Before, EffectiveState, Recovered, MayEnter, States, Ticks, Never
  <2>2. Probe'
    <3> USE DEF CoreInv, CircuitInv, Probe, Before
    <3>1. CASE EffectiveState = "HALF_OPEN" /\ MayEnter
      <4>1. Recovered \/ (state = "HALF_OPEN" /\ ~probeInFlight)
        BY <3>1 DEF MayEnter, EffectiveState
      <4>2. probeInFlight' = TRUE /\ probes' = 1 /\ state' = "HALF_OPEN"
        BY <3>1, <4>1
      <4> QED
        BY <4>2
    <3>2. CASE ~(EffectiveState = "HALF_OPEN" /\ MayEnter)
      <4>1. UNCHANGED <<probeInFlight, probes>>
        BY <3>2
      <4>2. probeInFlight => state = "HALF_OPEN" /\ EffectiveState = "HALF_OPEN"
        BY DEF EffectiveState, Recovered
      <4>3. ~probeInFlight => ~(EffectiveState = "HALF_OPEN" /\ probes = 1)
        BY <3>2 DEF MayEnter, EffectiveState
      <4> QED
        BY <4>1, <4>2, <4>3
    <3> QED
      BY <3>1, <3>2
  <2> QED
    BY <2>1, <2>2 DEF CircuitInv
<1>3. ClosedIsHealthy'
  BY <1>1 DEF CoreInv, Before, EffectiveState, Recovered, ClosedIsHealthy,
     window, Failures
<1> QED
  BY <1>1, <1>2, <1>3 DEF CoreInv

LEMMA AfterStep ==
  ASSUME CoreInv, NEW c \in Callers, After(c)
  PROVE  CoreInv'
<1>1. WindowInv' /\ recent' # <<>> /\ recent'[Len(recent')] = FALSE
  BY RecordStep DEF CoreInv, After
<1>2. CircuitInv'
  <2>1. Clocks'
    BY BreakerAssumption
    DEF CoreInv, CircuitInv, Clocks, After, circuit, CloseCircuit, States, Ticks, Never
  <2>2. Probe'
    BY DEF CoreInv, CircuitInv, Clocks, Probe, After, circuit, CloseCircuit, States
  <2> QED
    BY <2>1, <2>2 DEF CircuitInv
<1>3. ClosedIsHealthy'
  BY <1>1 DEF ClosedIsHealthy
<1> QED
  BY <1>1, <1>2, <1>3 DEF CoreInv

\* A failure that leaves the circuit CLOSED was below the threshold.
LEMMA OnErrorStep ==
  ASSUME CoreInv, NEW c \in Callers, OnError(c)
  PROVE  CoreInv'
<1>1. WindowInv'
  BY RecordStep DEF CoreInv, OnError
<1>2. CircuitInv'
  <2>1. Clocks'
    BY BreakerAssumption
    DEF CoreInv, CircuitInv, Clocks, OnError, circuit, OpenCircuit, States, Ticks, Never
  <2>2. Probe'
    BY DEF CoreInv, CircuitInv, Clocks, Probe, OnError, circuit, OpenCircuit, States
  <2> QED
    BY <2>1, <2>2 DEF CircuitInv
<1>3. ClosedIsHealthy'
  <2> SUFFICES ASSUME state' = "CLOSED",
                      Len(recent') >= MinSamples \/ Len(recent') = WindowSize
               PROVE  Failures(recent') * RateDen < RateNum * Len(recent')
    BY DEF ClosedIsHealthy
  <2>1. ~TripsAt(errors', len')
    BY DEF CoreInv, CircuitInv, Clocks, OnError, OpenCircuit, circuit, States
  <2>2. /\ len' = Len(recent') /\ errors' = Failures(recent')
        /\ len' \in Nat /\ len' <= WindowSize /\ errors' \in Nat
    BY <1>1, FailuresBound, BreakerAssumption DEF WindowInv, WindowTypes
  <2>3. len' >= EffectiveMinSamples
    BY <2>2, BreakerAssumption DEF EffectiveMinSamples
  <2>4. ~(errors' * RateDen >= RateNum * len')
    BY <2>1, <2>3 DEF TripsAt
  <2>5. errors' * RateDen \in Int /\ RateNum * len' \in Int
    BY <2>2, BreakerAssumption
  <2>6. errors' * RateDen < RateNum * len'
    BY <2>4, <2>5
  <2> QED
    BY <2>2, <2>6
<1> QED
  BY <1>1, <1>2, <1>3 DEF CoreInv

LEMMA GetStateStep ==
  ASSUME CoreInv, GetState
  PROVE  CoreInv'
<1>1. UNCHANGED window /\ WindowInv'
  BY DEF CoreInv, GetState, window, WindowInv, WindowTypes, Cell, Failures
<1>2. CircuitInv'
  <2>1. Clocks'
    BY BreakerAssumption
    DEF CoreInv, CircuitInv, Clocks, GetState, Recovered, States, Ticks, Never
  <2>2. Probe'
    <3>1. /\ probeInFlight' = FALSE /\ probes' = 0 /\ 0 # 1
      BY DEF GetState
    <3> QED
      BY <3>1 DEF Probe
  <2> QED
    BY <2>1, <2>2 DEF CircuitInv
<1>3. ClosedIsHealthy'
  BY DEF GetState, ClosedIsHealthy
<1> QED
  BY <1>1, <1>2, <1>3 DEF CoreInv

LEMMA ResetStep ==
  ASSUME CoreInv, Reset
  PROVE  CoreInv'
<1>1. WindowInv'
  <2>1. recent' \in Seq(BOOLEAN) /\ Len(recent') = 0
    BY DEF Reset
  <2>2. Failures(recent') = 0
    BY FailuresEmpty DEF Reset
  <2> QED
    BY <2>1, <2>2, BreakerAssumption
    DEF Reset, WindowInv, WindowTypes, EmptyBuf, Indices
<1>2. CircuitInv'
  <2>1. Clocks'
    BY BreakerAssumption
    DEF CoreInv, CircuitInv, Clocks, Reset, States, Ticks, Never
  <2>2. Probe'
    BY DEF CoreInv, CircuitInv, Clocks, Probe, Reset, States
  <2> QED
    BY <2>1, <2>2 DEF CircuitInv
<1>3. ClosedIsHealthy'
  BY DEF Reset, ClosedIsHealthy
<1> QED
  BY <1>1, <1>2, <1>3 DEF CoreInv

LEMMA TickStep ==
  ASSUME CoreInv, Tick
  PROVE  CoreInv'
<1>1. UNCHANGED window /\ WindowInv'
  BY DEF CoreInv, Tick, window, WindowInv, WindowTypes, Cell, Failures
<1>2. CircuitInv'
  <2>1. Clocks'
    BY BreakerAssumption
    DEF CoreInv, CircuitInv, Clocks, Tick, Aged, States, Ticks, Never
  <2>2. Probe'
    BY DEF CoreInv, CircuitInv, Clocks, Probe, Tick, Aged, States
  <2> QED
    BY <2>1, <2>2 DEF CircuitInv
<1>3. ClosedIsHealthy'
  BY <1>1 DEF CoreInv, Tick, ClosedIsHealthy, window, Failures
<1> QED
  BY <1>1, <1>2, <1>3 DEF CoreInv

LEMMA QuietStep ==
  ASSUME CoreInv, UNCHANGED <<window, circuit>>
  PROVE  CoreInv'
BY DEF CoreInv, WindowInv, WindowTypes, Cell, Failures, CircuitInv,
   Clocks, Probe, ClosedIsHealthy, window, circuit

LEMMA NextInv ==
  ASSUME IInv, [Next]_vars
  PROVE  IInv'
<1> USE DEF IInv
<1>1. CoreInv'
  <2>1. CASE \E c \in Callers : CallStep(c)
    <3> PICK c \in Callers : CallStep(c)
      BY <2>1
    <3>1. CASE Before(c)
      BY <3>1, BeforeStep DEF CoreInv
    <3>2. CASE After(c)
      BY <3>2, AfterStep DEF CoreInv
    <3>3. CASE OnError(c)
      BY <3>3, OnErrorStep DEF CoreInv
    <3>4. CASE Return(c) \/ Cancelled(c) \/ Answered(c) \/ Nested(c)
      BY <3>4, QuietStep DEF CoreInv, Return, Cancelled, Answered, Nested
    <3> QED
      BY <3>1, <3>2, <3>3, <3>4 DEF CallStep
  <2>2. CASE GetState
    BY <2>2, GetStateStep DEF CoreInv
  <2>3. CASE Reset
    BY <2>3, ResetStep DEF CoreInv
  <2>4. CASE Tick
    BY <2>4, TickStep DEF CoreInv
  <2>5. CASE UNCHANGED vars
    BY <2>5, QuietStep DEF CoreInv, vars
  <2> QED
    BY <2>1, <2>2, <2>3, <2>4, <2>5 DEF Next
<1>2. CallTypes'
  <2>1. EffectiveState \in States
    BY DEF CircuitInv, Clocks, EffectiveState, States
  <2> QED
    BY <2>1 DEF CallTypes, vars, Next, CallStep, Before, After, OnError,
       Return, Cancelled, Answered, Nested, GetState, Reset, Tick, States
<1> QED
  BY <1>1, <1>2 DEF CoreInv

THEOREM Invariance == Spec => []IInv
<1>1. Init => IInv
  BY InitInv
<1>2. IInv /\ [Next]_vars => IInv'
  BY NextInv
<1> QED
  BY <1>1, <1>2, PTL DEF Spec

----------------------------------------------------------------------------
(* What follows *)

\* Every field keeps its type: in particular _errors, which the code counts
\* up and down, stays between 0 and windowSize.
THEOREM TypeCorrect == Spec => []TypeOK
<1>1. IInv => TypeOK
  <2> SUFFICES ASSUME IInv PROVE TypeOK
    OBVIOUS
  <2>1. errors \in 0 .. WindowSize
    BY FailuresBound, BreakerAssumption DEF IInv, WindowInv, WindowTypes
  <2> QED
    BY <2>1 DEF IInv, WindowInv, WindowTypes, CallTypes, CircuitInv, Clocks,
       Probe, TypeOK
<1> QED
  BY <1>1, Invariance, PTL

\* The rolling window holds exactly the last windowSize outcomes, however
\* often record() has wrapped round.
THEOREM WindowIsExact == Spec => []WindowExact
<1>1. IInv => WindowExact
  BY DEF IInv, WindowInv, WindowExact
<1> QED
  BY <1>1, Invariance, PTL

\* before() lets in at most one call between a HALF_OPEN circuit and its next
\* change of state.
THEOREM SingleProbe == Spec => []OneProbe
<1>1. IInv => OneProbe
  BY DEF IInv, CircuitInv, Probe, OneProbe
<1> QED
  BY <1>1, Invariance, PTL

\* A failure never leaves the circuit CLOSED at or above the threshold.
THEOREM ThresholdRespected == Spec => []ClosedIsHealthy
<1>1. IInv => ClosedIsHealthy
  BY DEF IInv
<1> QED
  BY <1>1, Invariance, PTL

\* No call is let in before recoveryWindowMs has passed since the circuit
\* last opened.
THEOREM CoolDownRespected == Spec => CoolsDown
<1>1. IInv /\ [Next]_vars
        => [\A c \in Callers : (at[c] = "idle" /\ at'[c] = "running")
              => cooling \in {Never, RecoveryWindow}]_vars
  <2> SUFFICES ASSUME IInv, [Next]_vars, NEW c \in Callers,
                      at[c] = "idle", at'[c] = "running"
               PROVE  cooling \in {Never, RecoveryWindow}
    OBVIOUS
  <2>1. PICK d \in Callers : Before(d) /\ MayEnter
    <3>1. at \in [Callers -> {"idle", "running", "closing"}]
      BY DEF IInv, CallTypes
    <3> QED
      BY <3>1 DEF Next, vars, CallStep, Before, After, OnError, Return,
         Cancelled, Answered, Nested, GetState, Reset, Tick
  <2>2. state = "CLOSED" \/ state = "HALF_OPEN" \/ Recovered
    BY <2>1 DEF MayEnter, EffectiveState
  <2> QED
    BY <2>2, BreakerAssumption
    DEF IInv, CircuitInv, Clocks, Recovered, Ticks, Never
<1> QED
  BY <1>1, Invariance, PTL DEF Spec, CoolsDown

----------------------------------------------------------------------------
(***************************************************************************)
(* What the control modules were told is what a restart finds: for any      *)
(* settings, constraints, sections and modules, either mode, every kind of  *)
(* store, one that cannot be read at a start too, and any number of calls,   *)
(* failures and restarts.                                                   *)
(*                                                                          *)
(* Only an asynchronous store has writes under way.  Two of them disturb    *)
(* each other (Alone), so that a write which is about to replace the whole  *)
(* set has seen everything whose fate is still claimed (Covered).           *)
(***************************************************************************)

Overrides == {Config_(key) : key \in DOMAIN BaseSettings} \cup {Toggle_(m) : m \in Toggled}

SectionKeys == {Config_(s) : s \in DOMAIN Sections}

\* The keys a set of overrides has a section of.
Above(overrides) == {Sections[s] : s \in {x \in DOMAIN Sections : Config_(x) \in DOMAIN overrides}}

\* An entry that a control module may have written.
Sound(k, v) ==
  /\ k \in Overrides \cup SectionKeys
  /\ k[1] = "toggle" => v \in {Off, On}
  /\ k[1] = "config" => Accepted(k[2], v)

AllSound(overrides) == \A k \in DOMAIN overrides : Sound(k, overrides[k])

Shaped(known) ==
  /\ known = [settings |-> known.settings, disabled |-> known.disabled, plane |-> known.plane]
  /\ known.settings = [key \in DOMAIN BaseSettings |-> known.settings[key]]

\* What an override amounts to in a state; InForce is that of live.
ValueIn(known, k) ==
  IF k[1] = "toggle" THEN (IF k[2] \in known.disabled THEN Off ELSE On) ELSE known.settings[k[2]]

\* Off the keys in gone.
LegalSettings(settings, gone) ==
  /\ \A key \in DOMAIN Legal \ gone : settings[key] \in Legal[key]
  /\ \A key \in Restricted \ gone : settings[key] = BaseSettings[key]

\* The configuration and the overrides beside the store obey the constraints.
LegalStart ==
  /\ LegalSettings(BaseSettings, {})
  /\ \A key \in DOMAIN Legal : Config_(key) \in DOMAIN OldFile => OldFile[Config_(key)] \in Legal[key]
  /\ \A key \in Restricted : Config_(key) \notin DOMAIN OldFile
  /\ Above(OldFile) = {}

----------------------------------------------------------------------------
(* Overrides *)

LEMMA OverrideParts ==
  ASSUME NEW x
  PROVE  /\ Config_(x)[1] = "config" /\ Config_(x)[2] = x /\ Config_(x)[1] # "toggle"
         /\ Toggle_(x)[1] = "toggle" /\ Toggle_(x)[2] = x /\ Toggle_(x)[1] # "config"
  BY DEF Config_, Toggle_

LEMMA OverrideKinds ==
  ASSUME NEW k \in Overrides
  PROVE  \/ k[2] \in DOMAIN BaseSettings /\ k = Config_(k[2]) /\ k[1] = "config" /\ k[1] # "toggle"
         \/ k[2] \in Toggled /\ k = Toggle_(k[2]) /\ k[1] = "toggle" /\ k[1] # "config"
  BY OverrideParts DEF Overrides

\* A section is neither a setting nor a toggle, and nothing refuses it.
LEMMA SectionParts ==
  ASSUME NEW k \in SectionKeys
  PROVE  /\ k[1] = "config" /\ k[1] # "toggle" /\ k[2] \in DOMAIN Sections /\ k = Config_(k[2])
         /\ k \notin Overrides /\ \A v : Sound(k, v)
<1>1. PICK x \in DOMAIN Sections : k = Config_(x)
  BY DEF SectionKeys
<1>2. k[1] = "config" /\ k[1] # "toggle" /\ k[2] = x
  BY <1>1, OverrideParts
<1>3. x \notin DOMAIN BaseSettings /\ x \notin DOMAIN Legal /\ x \notin Restricted
  BY ControlAssumption
<1>4. k \notin Overrides
  BY <1>2, <1>3, OverrideKinds
<1>5. \A v : Accepted(x, v)
  BY <1>3 DEF Accepted
<1>6. \A v : Sound(k, v)
  BY <1>2, <1>5 DEF Sound
<1> QED
  BY <1>1, <1>2, <1>4, <1>6

LEMMA OffOn == Off # On
  BY DEF Off, On

LEMMA SetSound ==
  ASSUME NEW k, NEW v, NEW f, Sound(k, v), AllSound(f)
  PROVE  AllSound(SetOverride(f, k, v))
  BY DEF AllSound, SetOverride

----------------------------------------------------------------------------
(* Restoring *)

LEMMA Applied ==
  ASSUME NEW known, Shaped(known), NEW f, NEW new \in ApplyOverrides(known, f)
  PROVE  /\ Shaped(new)
         /\ \A k \in DOMAIN f : /\ k \in Overrides /\ Sound(k, f[k])
                                /\ k[1] = "config" => k[2] \notin Above(f)
                                => ValueIn(new, k) = f[k]
         /\ \A key \in DOMAIN BaseSettings : key \notin Above(f) =>
              new.settings[key] = IF Config_(key) \in DOMAIN f THEN f[Config_(key)] ELSE known.settings[key]
<1> DEFINE D == {m \in Toggled : IF Toggle_(m) \in DOMAIN f
                                   THEN f[Toggle_(m)] = Off ELSE m \in known.disabled}
<1>1. PICK S \in Restorings(known, f) : new = [known EXCEPT !.settings = S, !.disabled = D]
  BY DEF ApplyOverrides
<1>2. DOMAIN known.settings = DOMAIN BaseSettings
  BY DEF Shaped
<1>3. /\ S = [key \in DOMAIN BaseSettings |-> S[key]]
      /\ \A key \in DOMAIN BaseSettings : S[key] \in Sayings(known, f, key)
  BY <1>2 DEF Restorings
<1> HIDE DEF D
<1>4. new = [settings |-> S, disabled |-> D, plane |-> known.plane]
  <2>1. PICK s, d, p : known = [settings |-> s, disabled |-> d, plane |-> p]
    BY DEF Shaped
  <2>2. known.plane = p
    BY <2>1
  <2>3. PICK t : t = [known EXCEPT !.settings = S]
    OBVIOUS
  <2>4. t = [settings |-> S, disabled |-> d, plane |-> p]
    BY <2>1, <2>3
  <2>5. [t EXCEPT !.disabled = D] = [settings |-> S, disabled |-> D, plane |-> p]
    BY <2>4
  <2>6. [known EXCEPT !.settings = S, !.disabled = D] = [t EXCEPT !.disabled = D]
    BY <2>3
  <2> QED
    BY <1>1, <2>2, <2>5, <2>6
<1>5. new.settings = S /\ new.disabled = D
  BY <1>4
<1>6. Shaped(new)
  BY <1>3, <1>4, <1>5 DEF Shaped
<1>7. ASSUME NEW key \in DOMAIN BaseSettings, key \notin Above(f)
      PROVE  S[key] = IF Config_(key) \in DOMAIN f THEN f[Config_(key)] ELSE known.settings[key]
  <2>1. \A x \in DOMAIN Sections : Sections[x] = key => Config_(x) \notin DOMAIN f
    BY <1>7 DEF Above
  <2>2. S[key] \in Sayings(known, f, key)
    BY <1>3
  <2>3. CASE Config_(key) \in DOMAIN f
    BY <2>1, <2>2, <2>3 DEF Sayings
  <2>4. CASE Config_(key) \notin DOMAIN f
    BY <2>1, <2>2, <2>4 DEF Sayings
  <2> QED
    BY <2>3, <2>4
<1>8. ASSUME NEW k \in DOMAIN f, k \in Overrides, Sound(k, f[k]), k[1] = "config" => k[2] \notin Above(f)
      PROVE  ValueIn(new, k) = f[k]
  <2>1. CASE k[1] = "config"
    <3>1. k[2] \in DOMAIN BaseSettings /\ k = Config_(k[2]) /\ k[1] # "toggle"
      BY <1>8, <2>1, OverrideKinds
    <3>2. S[k[2]] = f[k]
      BY <1>7, <1>8, <2>1, <3>1
    <3> QED
      BY <1>5, <3>1, <3>2 DEF ValueIn
  <2>2. CASE k[1] = "toggle"
    <3>1. k[2] \in Toggled /\ k = Toggle_(k[2]) /\ f[k] \in {Off, On}
      BY <1>8, <2>2, OverrideKinds DEF Sound
    <3>2. k[2] \in D <=> f[k] = Off
      BY <3>1 DEF D
    <3> QED
      BY <1>5, <2>2, <3>1, <3>2, OffOn DEF ValueIn
  <2> QED
    BY <1>8, <2>1, <2>2, OverrideKinds
<1> QED
  BY <1>5, <1>6, <1>7, <1>8

\* A process that starts has in force what it read of its synchronous store, and
\* obeys the constraints if what it started from did, but for what a section says.
LEMMA BootedState ==
  ASSUME NEW w, NEW old \in {OldFile, <<>>}, NEW overrides, AllSound(overrides),
         NEW booted \in Booted(w, old, overrides)
  PROVE  /\ Shaped(booted)
         /\ w.store \in {"file", "custom"} =>
              \A k \in DOMAIN overrides : k \in Overrides /\ (k[1] = "config" => k[2] \notin Above(overrides))
                                          => ValueIn(booted, k) = overrides[k]
         /\ LegalStart => LegalSettings(booted.settings, Above(overrides))
<1>1. PICK fresh : fresh = [settings |-> BaseSettings, disabled |-> {}, plane |-> TRUE]
  OBVIOUS
<1>2. Shaped(fresh) /\ fresh.settings = BaseSettings
  BY <1>1, ControlAssumption DEF Shaped
<1>3. PICK beside, restored, plane :
             /\ beside = fresh \/ beside \in ApplyOverrides(fresh, old)
             /\ \/ restored = beside /\ w.store \notin {"file", "custom"}
                \/ restored \in ApplyOverrides(beside, overrides)
             /\ booted = [restored EXCEPT !.plane = plane]
  <2>1. PICK B : B = IF w.store \in {"custom", "async"} THEN ApplyOverrides(fresh, old) ELSE {fresh}
    OBVIOUS
  <2>2. PICK R : R = IF w.store \in {"file", "custom"} THEN UNION {ApplyOverrides(b, overrides) : b \in B} ELSE B
    OBVIOUS
  <2>3. \E restored \in R : \E plane : booted = [restored EXCEPT !.plane = plane]
    BY <1>1, <2>1, <2>2 DEF Booted
  <2>4. PICK restored \in R : \E plane : booted = [restored EXCEPT !.plane = plane]
    BY <2>3
  <2>5. \E beside \in B : \/ restored = beside /\ w.store \notin {"file", "custom"}
                          \/ restored \in ApplyOverrides(beside, overrides)
    BY <2>2, <2>4
  <2>6. \A b \in B : b = fresh \/ b \in ApplyOverrides(fresh, old)
    BY <2>1
  <2> QED
    BY <2>4, <2>5, <2>6
<1>4. Shaped(beside)
  <2>1. CASE beside = fresh
    BY <1>2, <2>1
  <2>2. CASE beside \in ApplyOverrides(fresh, old)
    BY <1>2, <2>2, Applied
  <2> QED
    BY <1>3, <2>1, <2>2
<1>5. LegalStart => LegalSettings(beside.settings, {})
  <2>1. CASE beside = fresh
    BY <1>2, <2>1 DEF LegalStart
  <2>2. CASE beside \in ApplyOverrides(fresh, old)
    <3> SUFFICES ASSUME LegalStart PROVE LegalSettings(beside.settings, {})
      OBVIOUS
    <3>1. Above(old) = {}
      BY DEF LegalStart, Above
    <3>2. \A key \in DOMAIN BaseSettings :
            beside.settings[key] = IF Config_(key) \in DOMAIN old THEN old[Config_(key)] ELSE BaseSettings[key]
      BY <1>2, <2>2, <3>1, Applied
    <3>3. DOMAIN Legal \subseteq DOMAIN BaseSettings /\ Restricted \subseteq DOMAIN BaseSettings
      BY ControlAssumption
    <3>4. \A key \in DOMAIN Legal : Config_(key) \in DOMAIN old => old[Config_(key)] \in Legal[key]
      BY DEF LegalStart
    <3>5. \A key \in Restricted : Config_(key) \notin DOMAIN old
      BY DEF LegalStart
    <3>6. LegalSettings(BaseSettings, {})
      BY DEF LegalStart
    <3> QED
      BY <3>2, <3>3, <3>4, <3>5, <3>6 DEF LegalSettings
  <2> QED
    BY <1>3, <2>1, <2>2
<1>6. Shaped(restored)
  <2>1. CASE restored = beside
    BY <1>4, <2>1
  <2>2. CASE restored \in ApplyOverrides(beside, overrides)
    BY <1>4, <2>2, Applied
  <2> QED
    BY <1>3, <2>1, <2>2
<1>7. LegalStart => LegalSettings(restored.settings, Above(overrides))
  <2>1. CASE restored = beside
    BY <1>5, <2>1 DEF LegalSettings
  <2>2. CASE restored \in ApplyOverrides(beside, overrides)
    <3> SUFFICES ASSUME LegalStart PROVE LegalSettings(restored.settings, Above(overrides))
      OBVIOUS
    <3>1. \A key \in DOMAIN BaseSettings : key \notin Above(overrides) =>
            restored.settings[key] = IF Config_(key) \in DOMAIN overrides THEN overrides[Config_(key)]
                                     ELSE beside.settings[key]
      BY <1>4, <2>2, Applied
    <3>2. \A key : Config_(key) \in DOMAIN overrides => Accepted(key, overrides[Config_(key)])
      BY OverrideParts DEF AllSound, Sound
    <3>3. DOMAIN Legal \subseteq DOMAIN BaseSettings /\ Restricted \subseteq DOMAIN BaseSettings
      BY ControlAssumption
    <3> QED
      BY <1>5, <3>1, <3>2, <3>3 DEF LegalSettings, Accepted
  <2> QED
    BY <1>3, <2>1, <2>2
<1>8. w.store \in {"file", "custom"} =>
        \A k \in DOMAIN overrides : k \in Overrides /\ (k[1] = "config" => k[2] \notin Above(overrides))
                                    => ValueIn(restored, k) = overrides[k]
  <2>1. CASE w.store \notin {"file", "custom"}
    BY <2>1
  <2>2. CASE restored \in ApplyOverrides(beside, overrides)
    BY <1>4, <2>2, Applied DEF AllSound
  <2> QED
    BY <1>3, <2>1, <2>2
<1>9. booted.settings = restored.settings /\ booted.disabled = restored.disabled /\ Shaped(booted)
  BY <1>3, <1>6 DEF Shaped
<1> QED
  BY <1>7, <1>8, <1>9 DEF ValueIn
----------------------------------------------------------------------------
(* The invariant *)

IsWrite(w) ==
  /\ \E i, k, v, b, s : w = [id |-> i, key |-> k, value |-> v, saving |-> b, seen |-> s]
  /\ Sound(w.key, w.value)
  /\ w.saving => AllSound(w.seen)

\* What is written, or about to be, of a section is one that was reached.
ReachedBy(overrides) == Above(overrides) \subseteq reached
Reaching ==
  /\ ReachedBy(kept) /\ reached \subseteq DOMAIN BaseSettings
  /\ \A w \in writes : /\ w.key \in SectionKeys => Sections[w.key[2]] \in reached
                       /\ w.saving => ReachedBy(w.seen)

\* Two writes under way disturb each other.
Alone == \A w, x \in writes : w # x => w.key \in unkept

\* A write that is about to replace the whole set has seen what must be kept.
Covered == \A w \in writes : w.saving => given \ unkept \subseteq DOMAIN w.seen

Wired ==
  /\ wiring.store \in {"none", "file", "custom", "async"}
  /\ wiring.mode = "" => wiring.store = "none"
  /\ wiring.store = "none" => given = {}
  /\ wiring.store # "async" => writes = {}

Entries ==
  /\ Shaped(live)
  /\ AllSound(kept)
  /\ \A w \in writes : IsWrite(w)
  /\ given \subseteq Overrides \cup SectionKeys
  /\ LegalStart => LegalSettings(live.settings, reached)

\* In a synchronous store an override is what is in force.
Kept ==
  \A k \in given \ unkept :
    \/ \E w \in writes : w.key = k
    \/ /\ k \in DOMAIN kept
       /\ wiring.store # "async" /\ k \notin unread /\ ~Reached(k) => kept[k] = ValueIn(live, k)

ControlInv == Wired /\ Entries /\ Reaching /\ Alone /\ Covered /\ Kept

LEMMA ControlStart ==
  ASSUME ControlInit
  PROVE  ControlInv
<1>1. wiring.mode = "" /\ wiring.store = "none" /\ writes = {} /\ given = {} /\ kept = <<>> /\ reached = {}
  BY DEF ControlInit
<1>2. PICK start : start = [settings |-> BaseSettings, disabled |-> {}, plane |-> FALSE]
  OBVIOUS
<1>3. Shaped(start) /\ start.settings = BaseSettings
  BY <1>2, ControlAssumption DEF Shaped
<1>4. live = start
  BY <1>2 DEF ControlInit
<1>5. Wired /\ Alone /\ Covered /\ Kept
  BY <1>1 DEF Wired, Alone, Covered, Kept
<1>6. AllSound(kept)
  <2>1. AllSound(<<>>)
    BY DEF AllSound
  <2> QED
    BY <1>1, <2>1
<1>7. Entries
  BY <1>1, <1>3, <1>4, <1>6 DEF Entries, LegalStart
<1>8. Reaching
  <2>1. Above(<<>>) = {}
    BY DEF Above
  <2> QED
    BY <1>1, <2>1 DEF Reaching, ReachedBy
<1> QED
  BY <1>5, <1>7, <1>8 DEF ControlInv

----------------------------------------------------------------------------
(* The control calls *)

\* live' differs from live at k alone, and at the key that a section k is of.
Sets(k) ==
  /\ Shaped(live')
  /\ \A x \in Overrides : x # k /\ (x[1] = "config" => x[2] \notin reached')
                          => ValueIn(live', x) = ValueIn(live, x)
  /\ LegalStart => LegalSettings(live'.settings, reached')
  /\ reached \subseteq reached' /\ reached' \subseteq DOMAIN BaseSettings
  /\ k \in SectionKeys => Sections[k[2]] \in reached'

\* The call leaves v at k, if k is a setting or a toggle.
SetsTo(k, v) == Sound(k, v) /\ Sets(k) /\ (k \in Overrides => ValueIn(live', k) = v)

LEMMA SetReaches ==
  ASSUME NEW f, NEW k, NEW v, NEW R, Above(f) \subseteq R, k \in SectionKeys => Sections[k[2]] \in R
  PROVE  Above(SetOverride(f, k, v)) \subseteq R
<1>1. ASSUME NEW x \in DOMAIN Sections, Config_(x) \in DOMAIN SetOverride(f, k, v)
      PROVE  Sections[x] \in R
  <2>1. CASE Config_(x) = k
    BY <1>1, <2>1, OverrideParts DEF SectionKeys
  <2>2. CASE Config_(x) \in DOMAIN f
    BY <1>1, <2>2 DEF Above
  <2> QED
    BY <1>1, <2>1, <2>2 DEF SetOverride
<1> QED
  BY <1>1 DEF Above

LEMMA SetSetting ==
  ASSUME Entries, Reaching, NEW key \in DOMAIN BaseSettings, NEW v, Accepted(key, v),
         live' = [live EXCEPT !.settings[key] = v], reached' = reached
  PROVE  SetsTo(Config_(key), v)
<1>1. PICK s, d, p : live = [settings |-> s, disabled |-> d, plane |-> p]
  BY DEF Entries, Shaped
<1>2. live.settings = s /\ live.disabled = d /\ s = [x \in DOMAIN BaseSettings |-> s[x]]
  BY <1>1 DEF Entries, Shaped
<1>3. PICK t : t = [s EXCEPT ![key] = v]
  OBVIOUS
<1>4. live' = [settings |-> t, disabled |-> d, plane |-> p]
  BY <1>1, <1>3
<1>5. live'.settings = t /\ live'.disabled = d
  BY <1>4
<1>6. \A x \in DOMAIN BaseSettings : t[x] = IF x = key THEN v ELSE s[x]
  BY <1>2, <1>3
<1>7. Shaped(live')
  <2>1. t = [x \in DOMAIN BaseSettings |-> t[x]]
    BY <1>2, <1>3
  <2> QED
    BY <1>4, <1>5, <2>1 DEF Shaped
<1>8. ASSUME NEW x \in Overrides, x # Config_(key)
      PROVE  ValueIn(live', x) = ValueIn(live, x)
  BY <1>2, <1>5, <1>6, <1>8, OverrideKinds DEF ValueIn
<1>9. LegalStart => LegalSettings(live'.settings, reached')
  BY <1>2, <1>5, <1>6, ControlAssumption DEF Entries, LegalSettings, Accepted
<1>10. ValueIn(live', Config_(key)) = v
  BY <1>5, <1>6, OverrideParts DEF ValueIn
<1>11. Sound(Config_(key), v)
  BY OverrideParts DEF Sound, Overrides
<1>12. Config_(key) \notin SectionKeys
  BY SectionParts DEF Overrides
<1> QED
  BY <1>7, <1>8, <1>9, <1>10, <1>11, <1>12 DEF Sets, SetsTo, Reaching

LEMMA SetSection ==
  ASSUME Entries, Reaching, NEW section \in DOMAIN Sections, NEW v,
         live' = [live EXCEPT !.settings[Sections[section]] = v] \/ live' = live,
         reached' = reached \cup {Sections[section]}
  PROVE  SetsTo(Config_(section), v)
<1>1. Config_(section) \in SectionKeys /\ Sections[section] \in DOMAIN BaseSettings
  BY ControlAssumption DEF SectionKeys
<1>2. PICK s, d, p : live = [settings |-> s, disabled |-> d, plane |-> p]
  BY DEF Entries, Shaped
<1>3. live.settings = s /\ live.disabled = d /\ s = [x \in DOMAIN BaseSettings |-> s[x]]
  BY <1>2 DEF Entries, Shaped
<1>4. PICK t : live' = [settings |-> t, disabled |-> d, plane |-> p]
               /\ t = [x \in DOMAIN BaseSettings |-> t[x]]
               /\ \A x \in DOMAIN BaseSettings : x # Sections[section] => t[x] = s[x]
  <2>1. CASE live' = live
    BY <1>2, <1>3, <2>1
  <2>2. CASE live' = [live EXCEPT !.settings[Sections[section]] = v]
    <3>1. PICK t : t = [s EXCEPT ![Sections[section]] = v]
      OBVIOUS
    <3>2. live' = [settings |-> t, disabled |-> d, plane |-> p]
      BY <1>2, <2>2, <3>1
    <3>3. t = [x \in DOMAIN BaseSettings |-> t[x]] /\ \A x \in DOMAIN BaseSettings : x # Sections[section] => t[x] = s[x]
      BY <1>3, <3>1
    <3> QED
      BY <3>2, <3>3
  <2> QED
    BY <2>1, <2>2
<1>5. live'.settings = t /\ live'.disabled = d
  BY <1>4
<1>6. Shaped(live')
  BY <1>4, <1>5 DEF Shaped
<1>7. ASSUME NEW x \in Overrides, x[1] = "config" => x[2] \notin reached'
      PROVE  ValueIn(live', x) = ValueIn(live, x)
  BY <1>3, <1>4, <1>5, <1>7, OverrideKinds DEF ValueIn
<1>8. LegalStart => LegalSettings(live'.settings, reached')
  <2> SUFFICES ASSUME LegalStart PROVE LegalSettings(live'.settings, reached')
    OBVIOUS
  <2>1. LegalSettings(s, reached)
    BY <1>3 DEF Entries
  <2>2. DOMAIN Legal \subseteq DOMAIN BaseSettings /\ Restricted \subseteq DOMAIN BaseSettings
    BY ControlAssumption
  <2>3. \A key \in DOMAIN BaseSettings \ reached' : t[key] = s[key]
    BY <1>4
  <2> QED
    BY <1>5, <2>1, <2>2, <2>3 DEF LegalSettings
<1>9. Config_(section)[2] = section
  BY OverrideParts
<1>10. Sound(Config_(section), v) /\ Config_(section) \notin Overrides
  BY <1>1, SectionParts
<1>11. reached \subseteq reached' /\ reached' \subseteq DOMAIN BaseSettings
  BY <1>1 DEF Reaching
<1>12. Sets(Config_(section))
  BY <1>6, <1>7, <1>8, <1>9, <1>11 DEF Sets
<1> QED
  BY <1>10, <1>12 DEF SetsTo

LEMMA SetToggle ==
  ASSUME Entries, Reaching, NEW m \in Toggled, NEW enabled \in BOOLEAN,
         live' = [live EXCEPT !.disabled = IF enabled THEN @ \ {m} ELSE @ \cup {m}], reached' = reached
  PROVE  SetsTo(Toggle_(m), IF enabled THEN On ELSE Off)
<1>1. PICK s, d, p : live = [settings |-> s, disabled |-> d, plane |-> p]
  BY DEF Entries, Shaped
<1>2. live.settings = s /\ live.disabled = d
  BY <1>1
<1>3. PICK e : e = IF enabled THEN d \ {m} ELSE d \cup {m}
  OBVIOUS
<1>4. live' = [settings |-> s, disabled |-> e, plane |-> p]
  BY <1>1, <1>3
<1>5. live'.settings = s /\ live'.disabled = e
  BY <1>4
<1>6. Shaped(live')
  BY <1>2, <1>4, <1>5 DEF Entries, Shaped
<1>7. ASSUME NEW x \in Overrides, x # Toggle_(m)
      PROVE  ValueIn(live', x) = ValueIn(live, x)
  BY <1>2, <1>3, <1>5, <1>7, OverrideKinds DEF ValueIn
<1>8. ValueIn(live', Toggle_(m)) = IF enabled THEN On ELSE Off
  BY <1>3, <1>5, OverrideParts DEF ValueIn
<1>9. Sound(Toggle_(m), IF enabled THEN On ELSE Off)
  BY OverrideParts DEF Sound, Overrides
<1>10. Toggle_(m) \notin SectionKeys
  BY SectionParts, OverrideParts
<1>11. LegalStart => LegalSettings(live'.settings, reached')
  BY <1>2, <1>5 DEF Entries
<1> QED
  BY <1>6, <1>7, <1>8, <1>9, <1>10, <1>11 DEF Sets, SetsTo, Reaching

\* What a call did not set stays as it was, unless a section was written over it.
LEMMA SetsStay ==
  ASSUME NEW k, Sets(k), NEW x \in Overrides \cup SectionKeys, x # k, ~Reached(x)'
  PROVE  ~Reached(x) /\ ValueIn(live', x) = ValueIn(live, x)
<1>1. x \in Overrides /\ (x[1] = "config" => x[2] \notin reached')
  BY SectionParts DEF Reached
<1> QED
  BY <1>1 DEF Sets, Reached

\* A value is in force and was not written.
LEMMA UnwrittenStep ==
  ASSUME ControlInv, NEW k, Sets(k), unkept' = unkept \cup {k},
         UNCHANGED <<wiring, kept, writes, given, unread>>
  PROVE  ControlInv'
<1>1. given' \ unkept' \subseteq given \ unkept /\ k \notin given' \ unkept'
  OBVIOUS
<1>2. Kept'
  <2>1. ASSUME NEW x \in given' \ unkept', ~\E w \in writes' : w.key = x
        PROVE  x \in DOMAIN kept' /\ (wiring'.store # "async" /\ x \notin unread' /\ ~Reached(x)'
                                     => kept'[x] = ValueIn(live', x))
    BY <1>1, <2>1, SetsStay DEF Kept, ControlInv, Entries
  <2> QED
    BY <2>1 DEF Kept
<1>3. Wired' /\ Alone' /\ Covered'
  BY <1>1 DEF Wired, Alone, Covered, ControlInv
<1>4. Entries' /\ Reaching'
  BY DEF Entries, Reaching, ReachedBy, ControlInv, Sets
<1> QED
  BY <1>2, <1>3, <1>4 DEF ControlInv

\* A synchronous write, which may lose others.
LEMMA SyncStep ==
  ASSUME ControlInv, NEW k, NEW v, SetsTo(k, v),
         wiring.store \in {"file", "custom"}, given' = given \cup {k}, unread' = unread \ {k},
         NEW o \in SyncOutcomes(k, v), kept' = o.kept, unkept' = (unkept \ {k}) \cup o.lost,
         UNCHANGED <<wiring, writes>>
  PROVE  ControlInv'
<1>1. writes = {} /\ wiring.store # "async"
  BY DEF ControlInv, Wired
<1>2. \/ kept' = SetOverride(kept, k, v) /\ o.lost = {}
      \/ kept' = kept /\ o.lost = {k}
      \/ kept' = SetOverride(<<>>, k, v) /\ o.lost = DOMAIN kept \ {k}
  BY DEF SyncOutcomes
<1>3. AllSound(<<>>)
  BY DEF AllSound
<1>4. AllSound(kept')
  BY <1>2, <1>3, SetSound DEF ControlInv, Entries, SetsTo
<1>5. ASSUME NEW x \in given' \ unkept'
      PROVE  x \in DOMAIN kept' /\ (x \notin unread' /\ ~Reached(x)' => kept'[x] = ValueIn(live', x))
  <2>1. CASE x = k
    <3>1. x \in DOMAIN kept' /\ kept'[x] = v
      BY <1>2, <1>5, <2>1 DEF SetOverride
    <3>2. ~Reached(x)' => x \in Overrides
      BY <2>1, SectionParts DEF Reached, SetsTo, Sound
    <3> QED
      BY <2>1, <3>1, <3>2 DEF SetsTo
  <2>2. CASE x # k
    <3>1. x \in given \ unkept /\ x \notin o.lost
      BY <1>5, <2>2
    <3>2. x \in DOMAIN kept /\ (x \notin unread /\ ~Reached(x) => kept[x] = ValueIn(live, x))
      BY <1>1, <3>1 DEF ControlInv, Kept
    <3>3. ~Reached(x)' => ~Reached(x) /\ ValueIn(live', x) = ValueIn(live, x)
      BY <2>2, <3>1, SetsStay DEF ControlInv, Entries, SetsTo
    <3>4. kept' = kept \/ kept' = SetOverride(kept, k, v)
      BY <1>2, <2>2, <3>1, <3>2
    <3>5. x \in DOMAIN kept' /\ kept'[x] = kept[x]
      BY <2>2, <3>2, <3>4 DEF SetOverride
    <3>6. x \notin unread' => x \notin unread
      BY <2>2
    <3> QED
      BY <3>2, <3>3, <3>5, <3>6
  <2> QED
    BY <2>1, <2>2
<1>6. Kept'
  BY <1>5 DEF Kept
<1>7. Wired' /\ Alone' /\ Covered'
  BY <1>1 DEF Wired, Alone, Covered, ControlInv
<1>8. Entries'
  BY <1>1, <1>4 DEF Entries, ControlInv, Sets, SetsTo, Sound
<1>9. Reaching'
  <2>1. Above(kept) \subseteq reached'
    BY DEF ControlInv, Reaching, ReachedBy, SetsTo, Sets
  <2>2. Above(<<>>) = {}
    BY DEF Above
  <2>3. Above(kept') \subseteq reached'
    BY <1>2, <2>1, <2>2, SetReaches DEF SetsTo, Sets
  <2> QED
    BY <1>1, <2>3 DEF Reaching, ReachedBy, SetsTo, Sets
<1> QED
  BY <1>6, <1>7, <1>8, <1>9 DEF ControlInv

\* An asynchronous write begins; one that is under way disturbs it.
LEMMA AsyncStep ==
  ASSUME ControlInv, NEW k, NEW v, SetsTo(k, v), wiring.store = "async",
         given' = given \cup {k}, StartWrite(k, v), UNCHANGED wiring
  PROVE  ControlInv'
<1>1. PICK new : new = [id |-> controls, key |-> k, value |-> v, saving |-> FALSE, seen |-> <<>>]
  OBVIOUS
<1>2. writes' = writes \cup {new} /\ kept' = kept
  BY <1>1 DEF StartWrite
<1>3. IsWrite(new) /\ new.key = k /\ new.saving = FALSE
  BY <1>1 DEF IsWrite, SetsTo
<1>4. unkept' = IF writes = {} THEN unkept \ {k} ELSE unkept \cup {k} \cup {w.key : w \in writes}
  BY DEF StartWrite
<1>5. Alone'
  <2>1. CASE writes = {}
    BY <1>2, <2>1 DEF Alone
  <2>2. CASE writes # {}
    BY <1>2, <1>3, <1>4, <2>2 DEF Alone
  <2> QED
    BY <2>1, <2>2
<1>6. Covered'
  <2>1. CASE writes = {}
    BY <1>2, <1>3, <2>1 DEF Covered
  <2>2. CASE writes # {}
    <3>1. given' \ unkept' \subseteq given \ unkept
      BY <1>4, <2>2
    <3> QED
      BY <1>2, <1>3, <3>1 DEF Covered, ControlInv
  <2> QED
    BY <2>1, <2>2
<1>7. Kept'
  <2>1. ASSUME NEW x \in given' \ unkept'
        PROVE  (\E w \in writes' : w.key = x) \/ x \in DOMAIN kept'
    <3>1. CASE x = k
      BY <1>2, <1>3, <3>1
    <3>2. CASE x # k
      <4>1. x \in given \ unkept
        BY <1>4, <2>1, <3>2
      <4> QED
        BY <1>2, <4>1 DEF ControlInv, Kept
    <3> QED
      BY <3>1, <3>2
  <2> QED
    BY <2>1 DEF Kept
<1>8. Wired'
  BY <1>2 DEF Wired, ControlInv
<1>9. Entries'
  BY <1>2, <1>3 DEF Entries, ControlInv, Sets, SetsTo, Sound
<1>10. Reaching'
  BY <1>2, <1>3 DEF Reaching, ReachedBy, ControlInv, Sets, SetsTo
<1> QED
  BY <1>5, <1>6, <1>7, <1>8, <1>9, <1>10 DEF ControlInv

LEMMA PersistStep ==
  ASSUME ControlInv, NEW k, NEW v, SetsTo(k, v), Persist(k, v), UNCHANGED wiring
  PROVE  ControlInv'
<1>1. CASE wiring.store = "none"
  <2>1. given = {} /\ UNCHANGED <<wiring, given, kept, writes, unkept>>
    BY <1>1 DEF ControlInv, Wired, Persist
  <2> QED
    BY <2>1 DEF ControlInv, Wired, Entries, Reaching, ReachedBy, Alone, Covered, Kept, Sets, SetsTo
<1>2. CASE wiring.store = "async"
  BY <1>2, AsyncStep DEF Persist
<1>3. CASE wiring.store \in {"file", "custom"}
  BY <1>3, SyncStep DEF Persist
<1> QED
  BY <1>1, <1>2, <1>3 DEF ControlInv, Wired

LEMMA ToggleStep ==
  ASSUME ControlInv, NEW m \in Toggled, NEW e \in BOOLEAN, ToggleFeature(m, e)
  PROVE  ControlInv'
<1>1. PICK v : v = IF e THEN On ELSE Off
  OBVIOUS
<1>2. SetsTo(Toggle_(m), v)
  BY <1>1, SetToggle DEF ControlInv, ToggleFeature
<1>3. CASE Persist(Toggle_(m), v)
  BY <1>2, <1>3, PersistStep DEF ToggleFeature
<1>4. CASE unkept' = unkept \cup {Toggle_(m)} /\ UNCHANGED <<kept, writes, given, unread>>
  BY <1>2, <1>4, UnwrittenStep DEF ToggleFeature, SetsTo
<1> QED
  BY <1>1, <1>3, <1>4 DEF ToggleFeature

----------------------------------------------------------------------------
(* The writes of an asynchronous store *)

LEMMA LoadStep ==
  ASSUME ControlInv, NEW w \in writes, LoadAnswers(w)
  PROVE  ControlInv'
<1>1. PICK seen : seen = SetOverride(kept, w.key, w.value)
  OBVIOUS
<1>2. PICK new : new = [w EXCEPT !.saving = TRUE, !.seen = seen]
  OBVIOUS
<1>3. /\ writes' = (writes \ {w}) \cup {new}
      /\ UNCHANGED <<wiring, live, kept, unkept, given, unread, reached>>
  BY <1>1, <1>2 DEF LoadAnswers
<1>4. IsWrite(w) /\ AllSound(kept)
  BY DEF ControlInv, Entries
<1>5. new.key = w.key /\ new.seen = seen /\ new.value = w.value
  BY <1>2, <1>4 DEF IsWrite
<1>6. AllSound(seen) /\ DOMAIN seen = DOMAIN kept \cup {w.key}
  BY <1>1, <1>4, SetSound DEF IsWrite, SetOverride
<1>7. IsWrite(new)
  <2>1. PICK i, k, v, b, s : w = [id |-> i, key |-> k, value |-> v, saving |-> b, seen |-> s]
    BY <1>4 DEF IsWrite
  <2>2. new = [id |-> i, key |-> k, value |-> v, saving |-> TRUE, seen |-> seen]
    BY <1>2, <2>1
  <2> QED
    BY <1>4, <1>5, <1>6, <2>2 DEF IsWrite
<1>8. Alone'
  BY <1>3, <1>5 DEF ControlInv, Alone
<1>9. given \ unkept \subseteq DOMAIN seen
  <2>1. ASSUME NEW k \in given \ unkept, k \notin DOMAIN kept
        PROVE  k = w.key
    <3>1. PICK x \in writes : x.key = k
      BY <2>1 DEF ControlInv, Kept
    <3> QED
      BY <2>1, <3>1 DEF ControlInv, Alone
  <2> QED
    BY <1>6, <2>1
<1>10. Covered'
  BY <1>3, <1>5, <1>9 DEF ControlInv, Covered
<1>11. Kept'
  BY <1>3, <1>5 DEF ControlInv, Kept, Reached
<1>12. Wired' /\ Entries'
  BY <1>3, <1>7 DEF ControlInv, Wired, Entries
<1>13. Reaching'
  <2>1. Above(seen) \subseteq reached
    BY <1>1, SetReaches DEF ControlInv, Reaching, ReachedBy
  <2> QED
    BY <1>3, <1>5, <2>1 DEF ControlInv, Reaching, ReachedBy
<1> QED
  BY <1>8, <1>10, <1>11, <1>12, <1>13 DEF ControlInv

LEMMA SaveStep ==
  ASSUME ControlInv, NEW w \in writes, SaveDone(w)
  PROVE  ControlInv'
<1>1. /\ w.saving /\ kept' = w.seen /\ writes' = writes \ {w}
      /\ UNCHANGED <<wiring, live, unkept, given, reached>>
  BY DEF SaveDone
<1>2. wiring.store = "async"
  BY DEF ControlInv, Wired
<1>3. given \ unkept \subseteq DOMAIN kept'
  BY <1>1 DEF ControlInv, Covered
<1>4. Kept'
  BY <1>1, <1>2, <1>3 DEF Kept
<1>5. AllSound(kept')
  BY <1>1 DEF ControlInv, Entries, IsWrite
<1>6. Wired' /\ Entries' /\ Alone' /\ Covered'
  BY <1>1, <1>5 DEF ControlInv, Wired, Entries, Alone, Covered
<1>7. Reaching'
  BY <1>1 DEF ControlInv, Reaching, ReachedBy
<1> QED
  BY <1>4, <1>6, <1>7 DEF ControlInv

LEMMA FailStep ==
  ASSUME ControlInv, NEW w \in writes, WriteFails(w)
  PROVE  ControlInv'
<1>1. /\ writes' = writes \ {w} /\ unkept' = unkept \cup {w.key}
      /\ UNCHANGED <<wiring, live, kept, given, unread, reached>>
  BY DEF WriteFails
<1>2. given' \ unkept' \subseteq given \ unkept /\ w.key \notin given' \ unkept'
  BY <1>1
<1>3. Kept'
  BY <1>1, <1>2 DEF ControlInv, Kept, Reached
<1>4. Wired' /\ Entries' /\ Alone' /\ Covered'
  BY <1>1, <1>2 DEF ControlInv, Wired, Entries, Alone, Covered
<1>5. Reaching'
  BY <1>1 DEF ControlInv, Reaching, ReachedBy
<1> QED
  BY <1>3, <1>4, <1>5 DEF ControlInv

----------------------------------------------------------------------------
(* The process *)

LEMMA LegalWithin ==
  ASSUME NEW settings, NEW gone, NEW R, gone \subseteq R, LegalSettings(settings, gone)
  PROVE  LegalSettings(settings, R)
  BY DEF LegalSettings

LEMMA StartStep ==
  ASSUME ControlInv, ProcessStarts
  PROVE  ControlInv'
<1>1. given = {} /\ writes = {} /\ wiring' \in Wirings
      /\ UNCHANGED <<kept, writes, unkept, given, reached>>
  BY DEF ControlInv, Wired, ProcessStarts
<1>2. PICK old \in {OldFile, <<>>} : live' \in Booted(wiring', old, kept)
  BY DEF ProcessStarts
<1>3. Shaped(live') /\ (LegalStart => LegalSettings(live'.settings, reached))
  BY <1>2, BootedState, LegalWithin DEF ControlInv, Entries, Reaching, ReachedBy
<1>4. wiring'.store \in {"none", "file", "custom", "async"} /\ wiring'.mode # ""
  BY <1>1 DEF Wirings
<1>5. Wired' /\ Alone' /\ Covered' /\ Kept'
  BY <1>1, <1>4 DEF Wired, Alone, Covered, Kept
<1>6. Entries'
  BY <1>1, <1>3 DEF ControlInv, Entries
<1>7. Reaching'
  BY <1>1 DEF ControlInv, Reaching, ReachedBy
<1> QED
  BY <1>5, <1>6, <1>7 DEF ControlInv

\* Writes that were under way are lost, or arrive late; what was read of the store
\* is in force again.
LEMMA RestartStep ==
  ASSUME ControlInv, Restart
  PROVE  ControlInv'
<1>1. /\ writes' \subseteq writes /\ unkept' = unkept \cup {w.key : w \in writes \ writes'}
      /\ UNCHANGED <<wiring, kept, given, reached>>
  BY DEF Restart
<1>2. PICK old \in {OldFile, <<>>}, read \in {kept, <<>>} :
             live' \in Booted(wiring, old, read) /\ unread' = DOMAIN kept \ DOMAIN read
  BY DEF Restart
<1>3. AllSound(read) /\ Above(read) \subseteq reached
  <2>1. AllSound(<<>>) /\ Above(<<>>) = {}
    BY DEF AllSound, Above
  <2> QED
    BY <2>1 DEF ControlInv, Entries, Reaching, ReachedBy
<1>4. /\ Shaped(live') /\ (LegalStart => LegalSettings(live'.settings, reached))
      /\ wiring.store \in {"file", "custom"} =>
           \A k \in DOMAIN read : k \in Overrides /\ (k[1] = "config" => k[2] \notin reached)
                                  => ValueIn(live', k) = read[k]
  <2>1. Shaped(live') /\ (LegalStart => LegalSettings(live'.settings, Above(read)))
    BY <1>2, <1>3, BootedState
  <2>2. wiring.store \in {"file", "custom"} =>
          \A k \in DOMAIN read : k \in Overrides /\ (k[1] = "config" => k[2] \notin Above(read))
                                 => ValueIn(live', k) = read[k]
    BY <1>2, <1>3, BootedState
  <2>3. LegalStart => LegalSettings(live'.settings, reached)
    BY <1>3, <2>1, LegalWithin
  <2> QED
    BY <1>3, <2>1, <2>2, <2>3
<1>5. ASSUME NEW k \in given' \ unkept', ~\E w \in writes' : w.key = k
      PROVE  k \in DOMAIN kept' /\ (wiring'.store # "async" /\ k \notin unread' /\ ~Reached(k)'
                                   => kept'[k] = ValueIn(live', k))
  <2>1. k \in given \ unkept /\ ~\E w \in writes : w.key = k
    BY <1>1, <1>5
  <2>2. k \in DOMAIN kept /\ k \in Overrides \cup SectionKeys
    BY <2>1 DEF ControlInv, Kept, Entries
  <2>3. wiring.store # "none"
    BY <2>1 DEF ControlInv, Wired
  <2>4. ASSUME wiring.store # "async", k \notin unread', ~Reached(k)'
        PROVE  kept[k] = ValueIn(live', k)
    <3>1. k \in DOMAIN read /\ read[k] = kept[k]
      BY <1>2, <2>2, <2>4
    <3>2. k \in Overrides /\ (k[1] = "config" => k[2] \notin reached)
      BY <1>1, <2>2, <2>4, SectionParts DEF Reached
    <3>3. wiring.store \in {"file", "custom"}
      BY <2>3, <2>4 DEF ControlInv, Wired
    <3> QED
      BY <1>4, <3>1, <3>2, <3>3
  <2> QED
    BY <1>1, <2>2, <2>4
<1>6. Kept'
  BY <1>5 DEF Kept
<1>7. Wired' /\ Alone' /\ Covered'
  BY <1>1 DEF ControlInv, Wired, Alone, Covered
<1>8. Entries'
  BY <1>1, <1>4 DEF ControlInv, Entries
<1>9. Reaching'
  BY <1>1 DEF ControlInv, Reaching, ReachedBy
<1> QED
  BY <1>6, <1>7, <1>8, <1>9 DEF ControlInv

----------------------------------------------------------------------------
(* The theorems *)

LEMMA ControlStep ==
  ASSUME ControlInv, [ControlNext]_controlVars
  PROVE  ControlInv'
<1>1. CASE ProcessStarts \/ Restart
  BY <1>1, StartStep, RestartStep
<1>2. ASSUME NEW k \in DOMAIN BaseSettings, NEW v \in NewValues, UpdateConfig(k, v)
      PROVE  ControlInv'
  <2>1. SetsTo(Config_(k), v)
    BY <1>2, SetSetting DEF ControlInv, UpdateConfig
  <2> QED
    BY <1>2, <2>1, PersistStep DEF UpdateConfig
<1>3. ASSUME NEW m \in Toggled, NEW e \in BOOLEAN, ToggleFeature(m, e)
      PROVE  ControlInv'
  BY <1>3, ToggleStep
<1>4. ASSUME NEW w \in writes, LoadAnswers(w) \/ SaveDone(w) \/ WriteFails(w)
      PROVE  ControlInv'
  BY <1>4, LoadStep, SaveStep, FailStep
<1>5. CASE (\E k \in DOMAIN BaseSettings, v \in NewValues : UpdateRefused(k, v)) \/ UNCHANGED controlVars
  <2>1. UNCHANGED <<wiring, live, kept, writes, unkept, given, unread, reached>>
    BY <1>5 DEF UpdateRefused, controlVars
  <2> QED
    BY <2>1 DEF ControlInv, Wired, Entries, Reaching, ReachedBy, Alone, Covered, Kept, Reached
<1>6. ASSUME NEW section \in DOMAIN Sections, NEW v \in NewValues, UpdateSection(section, v)
      PROVE  ControlInv'
  <2>1. SetsTo(Config_(section), v)
    BY <1>6, SetSection DEF ControlInv, UpdateSection
  <2> QED
    BY <1>6, <2>1, PersistStep DEF UpdateSection
<1> QED
  BY <1>1, <1>2, <1>3, <1>4, <1>5, <1>6 DEF ControlNext

LEMMA KeptHolds ==
  ASSUME ControlInv
  PROVE  OverridesKept
  BY DEF ControlInv, Kept, OverridesKept, InForce, ValueIn

LEMMA ConstraintsHold ==
  ASSUME ControlInv, LegalStart
  PROVE  ConstraintsKept
<1>1. /\ \A key \in DOMAIN Legal \ reached : live.settings[key] \in Legal[key]
      /\ \A key \in Restricted \ reached : live.settings[key] = BaseSettings[key]
  BY DEF ControlInv, Entries, LegalSettings
<1>2. ASSUME NEW k \in DOMAIN kept, k[1] = "config"
      PROVE  Accepted(k[2], kept[k])
  BY <1>2 DEF ControlInv, Entries, AllSound, Sound
<1> QED
  BY <1>1, <1>2 DEF ConstraintsKept, Accepted

\* Whatever the store, and whoever fails or restarts: an override whose write is
\* over and was not disturbed is in the store, and there as it is in force unless
\* the last start did not read it, or a section was written that has the key.
THEOREM OverridesAreKept == ControlSpec => []OverridesKept
<1>1. ControlInv => OverridesKept
  BY KeptHolds
<1> QED
  BY <1>1, ControlStart, ControlStep, PTL DEF ControlSpec

\* From a configuration, and overrides beside the store, that obey the constraints:
\* no call and no restart brings in force, or into the store, what a constraint or
\* the list of restricted keys turns down, for a key changed by its own name, and
\* what was set survives.
THEOREM OverridesAreDurable ==
  ASSUME LegalStart
  PROVE  ControlSpec => []OverridesDurable
<1>1. ControlInv => OverridesDurable
  BY KeptHolds, ConstraintsHold DEF OverridesDurable
<1> QED
  BY <1>1, ControlStart, ControlStep, PTL DEF ControlSpec

----------------------------------------------------------------------------
(***************************************************************************)
(* ACLRules: the doors that judge a rule, the evaluations that read rules   *)
(* others may write to, and the sinks.                                      *)
(*                                                                          *)
(* The invariant says which objects are named, that an evaluation has read  *)
(* as far as it has come without a decision, of rules whose effect nobody   *)
(* can change, that what was decided last was decided by the first rule     *)
(* that could, and that a sink flags, loses and reports a failure together. *)
(***************************************************************************)

(* The doors *)

LEMMA LeastIndex ==
  ASSUME NEW S \in SUBSET Nat, S # {}
  PROVE  Min(S) \in S /\ \A y \in S : Min(S) <= y
<1>1. PICK n \in S : \A y \in S : ~(<<y, n>> \in OpToRel(<, Nat))
  BY NatLessThanWellFounded, WFMin
<1>2. \A y \in S : ~(y < n)
  BY <1>1 DEF OpToRel
<1>3. \A y \in S : n <= y
  BY <1>2
<1> QED
  BY <1>3 DEF Min

LEMMA RuleLists ==
  ASSUME NEW rs, IsRuleList(rs)
  PROVE  /\ Len(rs) \in Nat /\ DOMAIN rs = 1 .. Len(rs)
         /\ \A i \in 1 .. Len(rs) : IsRuleObject(rs[i])
  BY DEF IsRuleList

LEMMA FaultFound ==
  ASSUME NEW axes, NEW n \in Nat, DOMAIN axes = 1 .. n, NEW i \in 1 .. n, axes[i] # {}
  PROVE  FirstFault(axes) # NoFault
<1> DEFINE bad == {k \in DOMAIN axes : axes[k] # {}}
<1>1. bad \in SUBSET Nat /\ bad # {} /\ 0 \notin bad
  OBVIOUS
<1>2. Min(bad) \in bad
  BY <1>1, LeastIndex
<1>3. FirstFault(axes).rule = Min(bad)
  BY <1>1 DEF FirstFault
<1> QED
  BY <1>1, <1>2, <1>3 DEF NoFault

LEMMA NoneFound ==
  ASSUME NEW axes, \A i \in DOMAIN axes : axes[i] = {}
  PROVE  FirstFault(axes) = NoFault
  BY DEF FirstFault

LEMMA DoorsAgreeOn ==
  ASSUME ACLRulesAssumption, NEW d \in AclDocuments
  PROVE  /\ d.audit # "bad" /\ (\A i \in DOMAIN d.rules : FileAxes(d.rules[i]) = {}) =>
              FileFault(d) = ConstructorFault(d)
         /\ ConstructorFault(d) # NoFault => FileFault(d) # NoFault
<1>1. PICK rs : rs = d.rules /\ IsRuleList(rs)
  BY DEF ACLRulesAssumption
<1>2. PICK n \in Nat : DOMAIN rs = 1 .. n
  BY <1>1, RuleLists
<1> DEFINE both == [i \in DOMAIN rs |-> DoorAxes(rs[i]) \cup FileAxes(rs[i])]
           door1 == [i \in DOMAIN rs |-> DoorAxes(rs[i])]
<1>3. CASE d.default \notin Effects
  BY <1>3 DEF FileFault, ConstructorFault, NoFault
<1>4. CASE d.default \in Effects
  <2>1. ConstructorFault(d) = FirstFault(door1)
    BY <1>1, <1>4 DEF ConstructorFault
  <2>2. CASE d.audit = "bad"
    BY <2>2 DEF FileFault, NoFault
  <2>3. CASE d.audit # "bad"
    <3>1. FileFault(d) = FirstFault(both)
      BY <1>1, <1>4, <2>3 DEF FileFault
    <3>2. ASSUME \A i \in DOMAIN rs : FileAxes(rs[i]) = {} PROVE both = door1
      BY <3>2
    <3>3. ASSUME FirstFault(door1) # NoFault PROVE FirstFault(both) # NoFault
      <4>1. PICK i \in DOMAIN rs : door1[i] # {}
        BY <3>3, NoneFound
      <4>2. both[i] # {} /\ DOMAIN both = 1 .. n /\ i \in 1 .. n
        BY <1>2, <4>1
      <4> HIDE DEF both
      <4> QED
        BY <4>2, FaultFound
    <3> QED
      BY <1>1, <2>1, <3>1, <3>2, <3>3
  <2> QED
    BY <2>2, <2>3
<1> QED
  BY <1>3, <1>4

----------------------------------------------------------------------------
(* A rule that matches, and one that steps aside *)

\* Of an array one can read, the two readings are the same.
LEMMA ReadAsWritten ==
  ASSUME NEW f, ~Unreadable(f), NEW value, NEW system
  PROVE  MatchPatterns(f.items, value, system) <=> Written(f.items, value, system)
<1>1. CASE f.items[1] = "$not"
  <2>1. Len(f.items) = 2
    BY <1>1 DEF Unreadable, LegalShape
  <2>2. Operands(f.items) = {f.items[2]}
    BY <1>1, <2>1 DEF Operands, PatternOperators
  <2> QED
    BY <1>1, <2>1, <2>2 DEF MatchPatterns, Written
<1>2. CASE f.items[1] # "$not"
  BY <1>2 DEF MatchPatterns, Written
<1> QED
  BY <1>1, <1>2

LEMMA MatchSays ==
  ASSUME NEW r, NEW c
  PROVE  /\ MatchRule(r, c) = "match" => Addresses(r, c)
         /\ MatchRule(r, c) \notin {"match", "unevaluable"} =>
              /\ ~Unreadable(r.callers) /\ ~Unreadable(r.targets)
              /\ ~(r.conditions = "none" /\ Addresses(r, c))
<1>1. CASE Unreadable(r.callers) \/ Unreadable(r.targets)
  BY <1>1 DEF MatchRule
<1>2. CASE ~Unreadable(r.callers) /\ ~Unreadable(r.targets)
  <2>1. InScope(r, c) <=> Addresses(r, c)
    BY <1>2, ReadAsWritten DEF InScope, Addresses
  <2>2. MatchRule(r, c) = IF InScope(r, c) THEN ConditionsSay(r, c) ELSE "no_match"
    BY <1>2 DEF MatchRule
  <2>3. r.conditions = "none" => ConditionsSay(r, c) = "match"
    BY DEF ConditionsSay
  <2> QED
    BY <1>2, <2>1, <2>2, <2>3
<1> QED
  BY <1>1, <1>2

\* A decision over rules as they were read: none before it decides.
DecidedInOrder(v) ==
  v.access = "allow" =>
    /\ v.by # 0 => MatchRule(v.read[v.by], v.call) = "match"
    /\ \A i \in DOMAIN v.read : (v.by = 0 \/ i < v.by) => ~Decides(MatchRule(v.read[i], v.call), v.read[i])

LEMMA OrderedGrants ==
  ASSUME DecidedInOrder(verdict)
  PROVE  GrantsAsWritten
<1> SUFFICES ASSUME verdict.access = "allow" PROVE GrantsAsWritten
  BY DEF GrantsAsWritten
<1>1. verdict.by # 0 => Addresses(verdict.read[verdict.by], verdict.call)
  BY MatchSays DEF DecidedInOrder
<1>2. ASSUME NEW i \in DOMAIN verdict.read, verdict.by = 0 \/ i < verdict.by, verdict.read[i].effect = "deny"
      PROVE  /\ ~Unreadable(verdict.read[i].callers) /\ ~Unreadable(verdict.read[i].targets)
             /\ ~(verdict.read[i].conditions = "none" /\ Addresses(verdict.read[i], verdict.call))
  <2>1. MatchRule(verdict.read[i], verdict.call) \notin {"match", "unevaluable"}
    BY <1>2 DEF DecidedInOrder, Decides
  <2> QED
    BY <2>1, MatchSays
<1> QED
  BY <1>1, <1>2 DEF GrantsAsWritten

----------------------------------------------------------------------------
(* The objects, the lists and the evaluations that name them *)

Given == Addable \cup UNION {{d.rules[i] : i \in 1 .. Len(d.rules)} : d \in AclDocuments}
Held == UNION {{r[k] : k \in RuleFields} : r \in Given}
Values == Held \cup Assignable
RuleObjects == [RuleFields -> Values]

\* What an assignment to callers or targets leaves as it was.
Akin(r, q) == r.effect = q.effect

EvalShape ==
  {"pc", "call", "rules", "default", "sink", "idx", "outcome", "read", "pending"}
IsRunning(ev) == ev = [k \in EvalShape |-> ev[k]] /\ ev.pc = "running"

\* What an evaluation has read of a list of objects, n of them, and whom that
\* decided about; it acts on what it read, of objects that others may write to.
HasRead(rs, read, c, n) ==
  /\ rs \in Seq(1 .. Len(heap)) /\ n \in 0 .. Len(rs)
  /\ read \in Seq(RuleObjects) /\ Len(read) = n
  /\ \A i \in 1 .. n : Akin(read[i], heap[rs[i]])
Undecided(read, c, n) == \A i \in 1 .. n : ~Decides(MatchRule(read[i], c), read[i])

Running(ev) ==
  /\ IsRunning(ev)
  /\ HasRead(ev.rules, ev.read, ev.call, ev.idx) /\ ev.idx # 0
  /\ ev.outcome = MatchRule(ev.read[ev.idx], ev.call)
  /\ Undecided(ev.read, ev.call, ev.idx - 1)

Evaluating == \A e \in Evaluations : eval[e].pc # "idle" => Running(eval[e])

Named ==
  /\ file \in AclDocuments /\ heap \in Seq(RuleObjects) /\ list \in Seq(1 .. Len(heap))
  /\ eval = [e \in Evaluations |-> eval[e]]

Audits == {d.audit : d \in AclDocuments} \cup {"none"}
Sinks ==
  [callback : BOOLEAN, audit : Audits, flagged : SUBSET SinkFailures, lost : SUBSET SinkFailures,
   reports : [SinkFailures -> {0, 1}]]

\* A failure is flagged, lost and reported together.
Speaks(sk) == sk.flagged = sk.lost /\ \A f \in SinkFailures : sk.reports[f] = IF f \in sk.lost THEN 1 ELSE 0
SinksSpeak == sinks \in Seq(Sinks) /\ \A i \in 1 .. Len(sinks) : Speaks(sinks[i])

SinkInPlace == door # "none" => sinks # <<>>

RulesInv == Named /\ Evaluating /\ DecidedInOrder(verdict) /\ SinksSpeak /\ SinkInPlace

LEMMA GivenObjects ==
  ASSUME ACLRulesAssumption, NEW r \in Given
  PROVE  r \in RuleObjects
<1>1. IsRuleObject(r)
  <2>1. CASE r \in Addable
    BY <2>1 DEF ACLRulesAssumption
  <2>2. ASSUME NEW d \in AclDocuments, NEW i \in 1 .. Len(d.rules), r = d.rules[i] PROVE IsRuleObject(r)
    BY <2>2, RuleLists DEF ACLRulesAssumption
  <2>3. r \in Addable \/ \E d \in AclDocuments : r \in {d.rules[i] : i \in 1 .. Len(d.rules)}
    BY DEF Given
  <2> QED
    BY <2>1, <2>2, <2>3
<1>2. \A k \in RuleFields : r[k] \in Values
  <2>1. PICK own : own = {r[k] : k \in RuleFields}
    OBVIOUS
  <2>2. own \in {{q[k] : k \in RuleFields} : q \in Given}
    BY <2>1
  <2>3. own \subseteq Values
    BY <2>2 DEF Values, Held
  <2> QED
    BY <2>1, <2>3
<1> QED
  BY <1>1, <1>2 DEF IsRuleObject, RuleObjects

LEMMA DocumentObjects ==
  ASSUME ACLRulesAssumption, NEW d \in AclDocuments
  PROVE  d.rules \in Seq(RuleObjects)
<1>1. IsRuleList(d.rules)
  BY DEF ACLRulesAssumption
<1>2. \A i \in 1 .. Len(d.rules) : d.rules[i] \in RuleObjects
  BY GivenObjects DEF Given
<1> QED
  BY <1>1, <1>2 DEF IsRuleList

\* Whatever becomes of the objects, an evaluation under way keeps its place.
LEMMA EvaluationsStay ==
  ASSUME Evaluating, heap \in Seq(RuleObjects), heap' \in Seq(RuleObjects), Len(heap) <= Len(heap'),
         \A k \in 1 .. Len(heap) : Akin(heap'[k], heap[k]), eval' = eval
  PROVE  Evaluating'
<1> SUFFICES ASSUME NEW e \in Evaluations, eval[e].pc # "idle" PROVE Running(eval[e])'
  BY DEF Evaluating
<1>1. PICK ev : ev = eval[e] /\ Running(ev)
  BY DEF Evaluating
<1>2. PICK rs, read, c, n : rs = ev.rules /\ read = ev.read /\ c = ev.call /\ n = ev.idx
  OBVIOUS
<1>3. HasRead(rs, read, c, n)
  BY <1>1, <1>2 DEF Running
<1>4. HasRead(rs, read, c, n)'
  <2>1. Len(heap) \in Nat /\ Len(heap') \in Nat /\ rs \in Seq(1 .. Len(heap))
    BY <1>3 DEF HasRead
  <2>2. rs \in Seq(1 .. Len(heap'))
    BY <2>1
  <2>3. \A i \in 1 .. n : Akin(read[i], heap'[rs[i]])
    <3> SUFFICES ASSUME NEW i \in 1 .. n PROVE Akin(read[i], heap'[rs[i]])
      OBVIOUS
    <3>1. PICK k : k = rs[i] /\ k \in 1 .. Len(heap)
      BY <1>3, <2>1 DEF HasRead
    <3>2. Akin(read[i], heap[k]) /\ Akin(heap'[k], heap[k])
      BY <1>3, <3>1 DEF HasRead
    <3> QED
      BY <3>1, <3>2 DEF Akin
  <2> QED
    BY <1>3, <2>2, <2>3 DEF HasRead
<1>5. Running(ev)'
  BY <1>1, <1>2, <1>4 DEF Running
<1> QED
  BY <1>1, <1>5

\* A rule one more is read.
LEMMA ReadsOn ==
  ASSUME heap \in Seq(RuleObjects),
         NEW rs, NEW read, NEW c, NEW n, HasRead(rs, read, c, n), n < Len(rs), Undecided(read, c, n)
  PROVE  /\ HasRead(rs, Append(read, heap[rs[n + 1]]), c, n + 1)
         /\ Undecided(Append(read, heap[rs[n + 1]]), c, n)
         /\ Append(read, heap[rs[n + 1]])[n + 1] = heap[rs[n + 1]]
<1>1. PICK more, r : more = Append(read, r) /\ r = heap[rs[n + 1]]
  OBVIOUS
<1>2. n \in Nat /\ Len(rs) \in Nat /\ n + 1 \in 1 .. Len(rs)
  BY DEF HasRead
<1>3. r \in RuleObjects
  BY <1>1, <1>2 DEF HasRead
<1>4. /\ more \in Seq(RuleObjects) /\ Len(more) = n + 1 /\ more[n + 1] = r
      /\ \A i \in 1 .. n : more[i] = read[i]
  BY <1>1, <1>2, <1>3 DEF HasRead
<1>5. \A i \in 1 .. (n + 1) : Akin(more[i], heap[rs[i]])
  <2>1. 1 .. (n + 1) = 1 .. n \cup {n + 1}
    BY <1>2
  <2> QED
    BY <1>1, <1>4, <2>1 DEF HasRead, Akin
<1>6. HasRead(rs, more, c, n + 1)
  BY <1>2, <1>4, <1>5 DEF HasRead
<1>7. Undecided(more, c, n)
  BY <1>4 DEF Undecided
<1> QED
  BY <1>1, <1>4, <1>6, <1>7

----------------------------------------------------------------------------
(* The sinks *)

LEMMA DeliveredSpeaks ==
  ASSUME NEW sk \in Sinks, Speaks(sk), NEW access, NEW how \in {"given", "throws", "promise"}
  PROVE  Delivered(sk, access, how) \in Sinks /\ Speaks(Delivered(sk, access, how))
<1>1. PICK next : next = Delivered(sk, access, how)
  OBVIOUS
<1>2. CASE how = "given" \/ ~Takes(sk, access)
  BY <1>2 DEF Delivered
<1>3. CASE how # "given" /\ Takes(sk, access)
  <2>1. how \in SinkFailures
    BY <1>3 DEF SinkFailures
  <2>2. next = [sk EXCEPT !.flagged = @ \cup {how}, !.lost = @ \cup {how},
                          !.reports[how] = IF how \in sk.flagged THEN @ ELSE @ + 1]
    BY <1>1, <1>3 DEF Delivered
  <2>3. /\ next.flagged = sk.flagged \cup {how} /\ next.lost = sk.lost \cup {how}
        /\ next.callback = sk.callback /\ next.audit = sk.audit
        /\ next.reports = [sk.reports EXCEPT ![how] = IF how \in sk.flagged THEN @ ELSE @ + 1]
        /\ next = [callback |-> next.callback, audit |-> next.audit, flagged |-> next.flagged,
                   lost |-> next.lost, reports |-> next.reports]
    BY <2>2 DEF Sinks
  <2>4. \A f \in SinkFailures : next.reports[f] = IF f \in next.lost THEN 1 ELSE 0
    BY <2>1, <2>3 DEF Speaks, Sinks
  <2>5. next.reports \in [SinkFailures -> {0, 1}]
    <3>1. DOMAIN next.reports = SinkFailures /\ next.reports = [f \in SinkFailures |-> next.reports[f]]
      BY <2>3 DEF Sinks
    <3> QED
      BY <2>4, <3>1
  <2>6. next \in Sinks
    BY <2>1, <2>3, <2>5 DEF Sinks
  <2> QED
    BY <1>1, <2>3, <2>4, <2>6 DEF Speaks
<1> QED
  BY <1>2, <1>3

LEMMA SinksGoOn ==
  ASSUME SinksSpeak, NEW k, NEW access, NEW how \in {"given", "throws", "promise"},
         sinks' = [sinks EXCEPT ![k] = Delivered(@, access, how)]
  PROVE  SinksSpeak'
<1>1. CASE k \in DOMAIN sinks
  <2>1. PICK next : next = Delivered(sinks[k], access, how)
    OBVIOUS
  <2>2. sinks[k] \in Sinks /\ Speaks(sinks[k])
    BY <1>1 DEF SinksSpeak
  <2>3. next \in Sinks /\ Speaks(next)
    BY <2>1, <2>2, DeliveredSpeaks
  <2>4. sinks' = [sinks EXCEPT ![k] = next]
    BY <2>1
  <2> QED
    BY <1>1, <2>3, <2>4 DEF SinksSpeak
<1>2. CASE k \notin DOMAIN sinks
  <2>1. sinks' = sinks
    BY <1>2 DEF SinksSpeak
  <2> QED
    BY <2>1 DEF SinksSpeak
<1> QED
  BY <1>1, <1>2

LEMMA NewSinkSpeaks ==
  ASSUME NEW callback \in BOOLEAN, NEW audit \in Audits
  PROVE  NewSink(callback, audit) \in Sinks /\ Speaks(NewSink(callback, audit))
  BY DEF NewSink, Sinks, Speaks

----------------------------------------------------------------------------
(* The steps *)

\* A step that decides nothing and sends nothing, and what it leaves of the
\* objects and of the list.
LEMMA QuietlyEdits ==
  ASSUME RulesInv, file' \in AclDocuments, heap' \in Seq(RuleObjects), Len(heap) <= Len(heap'),
         \A k \in 1 .. Len(heap) : Akin(heap'[k], heap[k]), list' \in Seq(1 .. Len(heap')),
         eval' = eval, Quiet, SinksSpeak', SinkInPlace'
  PROVE  RulesInv'
<1>1. Evaluating'
  BY EvaluationsStay DEF RulesInv, Named
<1>2. DecidedInOrder(verdict)'
  BY DEF Quiet, NoVerdict, DecidedInOrder
<1>3. Named'
  BY DEF RulesInv, Named
<1> QED
  BY <1>1, <1>2, <1>3 DEF RulesInv

LEMMA HeapIsAkin == \A k \in 1 .. Len(heap) : Akin(heap[k], heap[k])
  BY DEF Akin

LEMMA TakesDocument ==
  ASSUME ACLRulesAssumption, RulesInv, NEW d \in AclDocuments, TakeRules(d),
         file' = file, eval' = eval, Quiet, SinksSpeak', SinkInPlace'
  PROVE  RulesInv'
<1>1. PICK rs : rs = d.rules /\ rs \in Seq(RuleObjects)
  BY DocumentObjects
<1>2. heap \in Seq(RuleObjects) /\ file \in AclDocuments
  BY DEF RulesInv, Named
<1>3. heap' = heap \o rs
  BY <1>1 DEF TakeRules
<1>4. /\ heap' \in Seq(RuleObjects) /\ Len(heap') = Len(heap) + Len(rs)
      /\ \A k \in 1 .. Len(heap) : heap'[k] = heap[k]
  BY <1>1, <1>2, <1>3
<1>5. list' = [i \in 1 .. Len(rs) |-> Len(heap) + i]
  BY <1>1 DEF TakeRules, Objects
<1>6. Len(heap) \in Nat /\ Len(rs) \in Nat
  BY <1>1, <1>2
<1>7. list' \in Seq(1 .. Len(heap'))
  <2>1. \A i \in 1 .. Len(rs) : Len(heap) + i \in 1 .. Len(heap')
    BY <1>4, <1>6
  <2> QED
    BY <1>5, <1>6, <2>1
<1> QED
  BY <1>2, <1>4, <1>6, <1>7, QuietlyEdits DEF Akin

LEMMA ConstructKeeps ==
  ASSUME ACLRulesAssumption, RulesInv, NEW callback \in BOOLEAN, Construct(callback)
  PROVE  RulesInv'
<1>1. "none" \in Audits /\ NewSink(callback, "none") \in Sinks /\ Speaks(NewSink(callback, "none"))
  BY NewSinkSpeaks DEF Audits
<1>2. SinksSpeak' /\ SinkInPlace'
  BY <1>1 DEF Construct, SinksSpeak, SinkInPlace
<1> QED
  BY <1>2, TakesDocument DEF Construct, RulesInv, Named

LEMMA LoadKeeps ==
  ASSUME ACLRulesAssumption, RulesInv, NEW callback \in BOOLEAN, LoadFile(callback)
  PROVE  RulesInv'
<1>1. PICK audit : audit = file.audit
  OBVIOUS
<1>2. audit \in Audits
  BY <1>1 DEF Audits, RulesInv, Named
<1>3. NewSink(callback, audit) \in Sinks /\ Speaks(NewSink(callback, audit))
  BY <1>2, NewSinkSpeaks
<1>4. sinks' = <<NewSink(callback, audit)>>
  BY <1>1 DEF LoadFile
<1>5. SinksSpeak' /\ SinkInPlace'
  BY <1>3, <1>4 DEF SinksSpeak, SinkInPlace
<1> QED
  BY <1>5, TakesDocument DEF LoadFile, RulesInv, Named

LEMMA ReloadKeeps ==
  ASSUME ACLRulesAssumption, RulesInv, ReloadFile
  PROVE  RulesInv'
<1>1. PICK audit, old : audit = file.audit /\ old = LiveSink
  OBVIOUS
<1>2. audit \in Audits /\ sinks \in Seq(Sinks) /\ sinks # <<>>
  BY <1>1 DEF Audits, RulesInv, Named, SinksSpeak, SinkInPlace, ReloadFile
<1>3. old \in Sinks
  BY <1>1, <1>2 DEF LiveSink
<1>4. old.callback \in BOOLEAN
  BY <1>3 DEF Sinks
<1>5. PICK next : next = NewSink(old.callback, audit)
  OBVIOUS
<1>6. next \in Sinks /\ Speaks(next)
  BY <1>2, <1>4, <1>5, NewSinkSpeaks
<1>7. sinks' = Append(sinks, next)
  BY <1>1, <1>5 DEF ReloadFile, Reconfigured
<1>8. SinksSpeak' /\ SinkInPlace'
  BY <1>2, <1>6, <1>7 DEF RulesInv, SinksSpeak, SinkInPlace
<1> QED
  BY <1>8, TakesDocument DEF ReloadFile, RulesInv, Named

\* The rest of them leave the sinks alone.
LEMMA EditFileKeeps ==
  ASSUME RulesInv, NEW d \in AclDocuments, EditFile(d)
  PROVE  RulesInv'
<1>1. SinksSpeak' /\ SinkInPlace'
  BY DEF RulesInv, SinksSpeak, SinkInPlace, EditFile
<1> QED
  BY <1>1, HeapIsAkin, QuietlyEdits DEF EditFile, Edit, RulesInv, Named

LEMMA AddRuleKeeps ==
  ASSUME ACLRulesAssumption, RulesInv, NEW r \in Addable, AddRule(r)
  PROVE  RulesInv'
<1>1. SinksSpeak' /\ SinkInPlace'
  BY DEF RulesInv, SinksSpeak, SinkInPlace, AddRule
<1>2. heap \in Seq(RuleObjects) /\ list \in Seq(1 .. Len(heap)) /\ file \in AclDocuments
  BY DEF RulesInv, Named
<1>3. r \in RuleObjects
  BY GivenObjects DEF Given
<1>4. heap' = Append(heap, r) /\ list' = <<Len(heap) + 1>> \o list
  BY DEF AddRule
<1>5. /\ heap' \in Seq(RuleObjects) /\ Len(heap) \in Nat /\ Len(heap') = Len(heap) + 1
      /\ \A k \in 1 .. Len(heap) : heap'[k] = heap[k]
  BY <1>2, <1>3, <1>4
<1>6. list' \in Seq(1 .. Len(heap'))
  <2>1. list \in Seq(1 .. Len(heap')) /\ Len(heap) + 1 \in 1 .. Len(heap')
    BY <1>2, <1>5
  <2> QED
    BY <1>4, <2>1
<1> QED
  BY <1>1, <1>2, <1>5, <1>6, QuietlyEdits DEF AddRule, Edit, Akin

LEMMA AddAgainKeeps ==
  ASSUME RulesInv, NEW o \in Range(list), AddAgain(o)
  PROVE  RulesInv'
<1>1. SinksSpeak' /\ SinkInPlace'
  BY DEF RulesInv, SinksSpeak, SinkInPlace, AddAgain
<1>2. heap \in Seq(RuleObjects) /\ list \in Seq(1 .. Len(heap)) /\ file \in AclDocuments
  BY DEF RulesInv, Named
<1>3. o \in 1 .. Len(heap)
  BY <1>2 DEF Range
<1>4. list' \in Seq(1 .. Len(heap)) /\ heap' = heap
  BY <1>2, <1>3 DEF AddAgain
<1> QED
  BY <1>1, <1>2, <1>4, HeapIsAkin, QuietlyEdits DEF AddAgain, Edit

LEMMA RemoveRuleKeeps ==
  ASSUME RulesInv, NEW r, NEW byConditions, RemoveRule(r, byConditions)
  PROVE  RulesInv'
<1> DEFINE named == {i \in DOMAIN list :
                       /\ heap[list[i]].callers = r.callers
                       /\ heap[list[i]].targets = r.targets
                       /\ byConditions => heap[list[i]].conditions = r.conditions}
<1>1. SinksSpeak' /\ SinkInPlace'
  BY DEF RulesInv, SinksSpeak, SinkInPlace, RemoveRule
<1>2. heap \in Seq(RuleObjects) /\ list \in Seq(1 .. Len(heap)) /\ file \in AclDocuments
  BY DEF RulesInv, Named
<1>3. PICK n, cut : n = Len(list) /\ cut = Min(named)
  OBVIOUS
<1>4. named # {} /\ named \subseteq 1 .. n /\ n \in Nat
  <2>1. named # {}
    BY DEF RemoveRule
  <2>2. DOMAIN list = 1 .. n /\ n \in Nat
    BY <1>2, <1>3
  <2> QED
    BY <2>1, <2>2
<1>5. list' = [i \in 1 .. n - 1 |-> IF i < cut THEN list[i] ELSE list[i + 1]]
  <2>1. list' = [i \in 1 .. Len(list) - 1 |-> IF i < Min(named) THEN list[i] ELSE list[i + 1]]
    BY DEF RemoveRule
  <2> HIDE DEF named
  <2> QED
    BY <1>3, <2>1
<1>6. n - 1 \in Nat /\ \A i \in 1 .. n - 1 : i \in 1 .. n /\ i + 1 \in 1 .. n
  BY <1>4
<1>7. \A i \in 1 .. n : list[i] \in 1 .. Len(heap)
  BY <1>2, <1>3
<1>8. list' \in Seq(1 .. Len(heap))
  <2>1. \A i \in 1 .. n - 1 : list'[i] \in 1 .. Len(heap)
    BY <1>5, <1>6, <1>7
  <2> QED
    BY <1>5, <1>6, <2>1
<1>9. heap' = heap /\ file' = file /\ eval' = eval /\ Quiet
  BY DEF RemoveRule, Edit
<1> QED
  BY <1>1, <1>2, <1>8, <1>9, HeapIsAkin, QuietlyEdits

LEMMA OneReplaced ==
  ASSUME NEW S, NEW q \in Seq(S), NEW k \in 1 .. Len(q), NEW x \in S
  PROVE  [q EXCEPT ![k] = x] \in Seq(S) /\ Len([q EXCEPT ![k] = x]) = Len(q)
  OBVIOUS

LEMMA AssignKeeps ==
  ASSUME RulesInv, NEW o \in Range(list), NEW field \in Fields, NEW value \in Assignable,
         Assign(o, field, value)
  PROVE  RulesInv'
<1>1. SinksSpeak' /\ SinkInPlace'
  BY DEF RulesInv, SinksSpeak, SinkInPlace, Assign
<1>2. heap \in Seq(RuleObjects) /\ list \in Seq(1 .. Len(heap)) /\ file \in AclDocuments
  BY DEF RulesInv, Named
<1>3. o \in 1 .. Len(heap)
  BY <1>2 DEF Range
<1>4. value \in Values /\ field \in RuleFields /\ field # "effect"
  <2>1. value \in Values
    BY DEF Values
  <2> QED
    BY <2>1 DEF Fields, RuleFields
<1>5. PICK next : next = [heap[o] EXCEPT ![field] = value]
  OBVIOUS
<1>6. heap' = [heap EXCEPT ![o] = next]
  BY <1>5 DEF Assign
<1>7. next \in RuleObjects /\ next.effect = heap[o].effect
  BY <1>2, <1>3, <1>4, <1>5 DEF RuleObjects, RuleFields
<1>8. heap' \in Seq(RuleObjects) /\ Len(heap') = Len(heap) /\ Len(heap) \in Nat
  BY <1>2, <1>3, <1>6, <1>7, OneReplaced
<1>9. \A k \in 1 .. Len(heap) : Akin(heap'[k], heap[k])
  BY <1>2, <1>3, <1>6, <1>7 DEF Akin
<1> QED
  <2>1. list' = list /\ file' = file /\ eval' = eval /\ Quiet
    BY DEF Assign, Edit
  <2> QED
    BY <1>1, <1>2, <1>8, <1>9, <2>1, QuietlyEdits

\* What checkAccess() decides was decided by the first rule that could.
LEMMA CheckDecides ==
  ASSUME ACLRulesAssumption, RulesInv, NEW c \in Calls, Check(c)
  PROVE  DecidedInOrder(verdict)'
<1> DEFINE read    == [i \in DOMAIN list |-> heap[list[i]]]
           outcome == [i \in DOMAIN list |-> MatchRule(read[i], c)]
           decisive == {i \in DOMAIN list : Decides(outcome[i], read[i])}
           by       == IF decisive = {} THEN 0 ELSE Min(decisive)
           passed   == {i \in DOMAIN list : by = 0 \/ i < by}
           pending  == \E i \in passed : Pends(outcome[i], read[i])
<1>1. \A i \in DOMAIN list : outcome[i] = MatchRule(read[i], c)
  OBVIOUS
<1>2. decisive \in SUBSET Nat /\ 0 \notin decisive /\ DOMAIN read = DOMAIN list
  BY DEF RulesInv, Named
<1>3. /\ by # 0 => by \in decisive
      /\ \A i \in DOMAIN list : by = 0 \/ i < by => i \notin decisive
  <2>1. CASE decisive = {}
    BY <2>1
  <2>2. CASE decisive # {}
    <3>1. by = Min(decisive)
      BY <2>2
    <3>2. decisive \subseteq DOMAIN list
      OBVIOUS
    <3> HIDE DEF decisive, by
    <3>3. by \in decisive /\ \A y \in decisive : by <= y
      BY <1>2, <2>2, <3>1, LeastIndex
    <3>4. by # 0 /\ by \in Nat
      BY <1>2, <3>3
    <3>5. \A i \in decisive : ~(i < by)
      BY <1>2, <3>3, <3>4
    <3> QED
      BY <3>3, <3>4, <3>5
  <2> QED
    BY <2>1, <2>2
<1>4. verdict' = IF by = 0 THEN Decided(c, 0, read, default, pending)
                 ELSE Decided(c, by, read, read[by].effect, pending \/ read[by].approval = "required")
  BY DEF Check
<1>5. \A i \in DOMAIN read : by = 0 \/ i < by => ~Decides(MatchRule(read[i], c), read[i])
  BY <1>2, <1>3
<1>6. by # 0 => Decides(MatchRule(read[by], c), read[by])
  BY <1>3
<1> HIDE DEF read, outcome, decisive, by, passed, pending
<1>7. by # 0 /\ read[by].effect = "allow" => MatchRule(read[by], c) = "match"
  BY <1>6 DEF Decides
<1>8. PICK gated : verdict' = Decided(c, by, read, IF by = 0 THEN default ELSE read[by].effect, gated)
  BY <1>4
<1> QED
  BY <1>5, <1>7, <1>8 DEF DecidedInOrder, Decided

LEMMA CheckKeeps ==
  ASSUME ACLRulesAssumption, RulesInv, NEW c \in Calls, Check(c)
  PROVE  RulesInv'
<1>1. DecidedInOrder(verdict)'
  BY CheckDecides
<1>2. PICK access, how : /\ how \in {"given", "throws", "promise"}
                         /\ sinks' = [sinks EXCEPT ![Len(sinks)] = Delivered(@, access, how)]
  <2>1. \E how \in Outcomes(LiveSink) :
          sinks' = [sinks EXCEPT ![Len(sinks)] = Delivered(@, verdict'.access, how)]
    BY DEF Check
  <2> QED
    BY <2>1 DEF Outcomes
<1>3. PICK k : k = Len(sinks)
  OBVIOUS
<1>4. sinks' = [sinks EXCEPT ![k] = Delivered(@, access, how)]
  BY <1>2, <1>3
<1>5. SinksSpeak' /\ SinkInPlace'
  <2>1. SinksSpeak'
    BY <1>2, <1>4, SinksGoOn DEF RulesInv
  <2>2. SinkInPlace'
    <3>1. DOMAIN sinks' = DOMAIN sinks /\ sinks \in Seq(Sinks) /\ sinks' \in Seq(Sinks) /\ door' = door
      BY <1>4, <2>1 DEF RulesInv, SinksSpeak, Check
    <3> QED
      BY <3>1 DEF RulesInv, SinkInPlace
  <2> QED
    BY <2>1, <2>2
<1>6. UNCHANGED <<file, heap, list, eval>>
  BY DEF Check
<1>7. Named' /\ Evaluating'
  BY <1>6, HeapIsAkin, EvaluationsStay DEF RulesInv, Named
<1> QED
  BY <1>1, <1>5, <1>7 DEF RulesInv

LEMMA ConcludesKeeps ==
  ASSUME RulesInv, NEW e \in Evaluations, NEW ev, NEW v, DecidedInOrder(v), Concludes(e, ev, v)
  PROVE  RulesInv'
<1>1. DecidedInOrder(verdict)'
  BY DEF Concludes, DecidedInOrder
<1>2. PICK k, access : k = ev.sink /\ access = v.access
  OBVIOUS
<1>3. PICK how \in {"given", "throws", "promise"} :
        sinks' = [sinks EXCEPT ![k] = Delivered(@, access, how)]
  <2>1. \E how \in Outcomes(sinks[k]) : sinks' = [sinks EXCEPT ![k] = Delivered(@, access, how)]
    BY <1>2 DEF Concludes
  <2> QED
    BY <2>1 DEF Outcomes
<1>4. SinksSpeak'
  BY <1>3, SinksGoOn DEF RulesInv
<1>5. SinkInPlace'
  <2>1. DOMAIN sinks' = DOMAIN sinks /\ sinks \in Seq(Sinks) /\ sinks' \in Seq(Sinks) /\ door' = door
    BY <1>3, <1>4 DEF RulesInv, SinksSpeak, Concludes
  <2> QED
    BY <2>1 DEF RulesInv, SinkInPlace
<1>6. /\ file' = file /\ heap' = heap /\ list' = list
      /\ eval' = [eval EXCEPT ![e] = Idle]
  BY DEF Concludes
<1>7. Named'
  BY <1>6 DEF RulesInv, Named
<1>8. Evaluating'
  <2> SUFFICES ASSUME NEW o \in Evaluations, eval'[o].pc # "idle" PROVE Running(eval[o])'
    BY DEF Evaluating
  <2>1. o # e /\ eval'[o] = eval[o]
    BY <1>6 DEF RulesInv, Named, Idle
  <2>2. Running(eval[o])
    BY <2>1 DEF RulesInv, Evaluating
  <2> QED
    BY <1>6, <2>1, <2>2 DEF Running, HasRead
<1> QED
  BY <1>1, <1>4, <1>5, <1>7, <1>8 DEF RulesInv

LEMMA AwaitsKeeps ==
  ASSUME ACLRulesAssumption, RulesInv, NEW e \in Evaluations, NEW ev, IsRunning(ev), NEW n,
         HasRead(ev.rules, ev.read, ev.call, n), n < Len(ev.rules), Undecided(ev.read, ev.call, n),
         Awaits(e, ev, n + 1)
  PROVE  RulesInv'
<1>1. PICK rs, read, c, r : rs = ev.rules /\ read = ev.read /\ c = ev.call /\ r = heap[rs[n + 1]]
  OBVIOUS
<1>2. PICK more, out : more = Append(read, r) /\ out = MatchRule(r, c)
  OBVIOUS
<1>3. PICK next : next = [ev EXCEPT !.idx = n + 1, !.outcome = out, !.read = more]
  OBVIOUS
<1>4. /\ eval' = [eval EXCEPT ![e] = next]
      /\ file' = file /\ heap' = heap /\ list' = list /\ door' = door /\ sinks' = sinks
      /\ verdict' = NoVerdict
  BY <1>1, <1>2, <1>3 DEF Awaits
<1>5. heap \in Seq(RuleObjects)
  BY DEF RulesInv, Named
<1>6. HasRead(rs, more, c, n + 1) /\ Undecided(more, c, n) /\ more[n + 1] = r
  <2>1. HasRead(rs, read, c, n) /\ n < Len(rs) /\ Undecided(read, c, n)
    BY <1>1
  <2>2. /\ HasRead(rs, Append(read, heap[rs[n + 1]]), c, n + 1)
        /\ Undecided(Append(read, heap[rs[n + 1]]), c, n)
        /\ Append(read, heap[rs[n + 1]])[n + 1] = heap[rs[n + 1]]
    BY <1>5, <2>1, ReadsOn
  <2>3. more = Append(read, r) /\ r = heap[rs[n + 1]]
    BY <1>1, <1>2
  <2> QED
    BY <2>2, <2>3, Zenon
<1>7. n \in Nat
  BY DEF HasRead
<1>8. /\ IsRunning(next) /\ next.rules = rs /\ next.read = more /\ next.call = c
      /\ next.idx = n + 1 /\ next.outcome = out
  BY <1>1, <1>3 DEF IsRunning, EvalShape
<1>9. Running(next)
  <2>1. n + 1 # 0 /\ (n + 1) - 1 = n
    BY <1>7
  <2>2. PICK m : m = n + 1
    OBVIOUS
  <2>3. HasRead(rs, more, c, m) /\ m # 0 /\ out = MatchRule(more[m], c) /\ Undecided(more, c, m - 1)
    BY <1>2, <1>6, <2>1, <2>2
  <2>4. next.idx = m
    BY <1>8, <2>2
  <2> QED
    BY <1>8, <2>3, <2>4 DEF Running
<1>10. Evaluating'
  <2> SUFFICES ASSUME NEW o \in Evaluations, eval'[o].pc # "idle" PROVE Running(eval[o])'
    BY DEF Evaluating
  <2>1. CASE o = e
    <3>1. eval'[o] = next
      BY <1>4, <2>1 DEF RulesInv, Named
    <3> QED
      BY <1>4, <1>9, <3>1 DEF Running, HasRead
  <2>2. CASE o # e
    <3>1. eval'[o] = eval[o]
      BY <1>4, <2>2 DEF RulesInv, Named
    <3>2. Running(eval[o])
      BY <3>1 DEF RulesInv, Evaluating
    <3> QED
      BY <1>4, <3>1, <3>2 DEF Running, HasRead
  <2> QED
    BY <2>1, <2>2
<1>11. DecidedInOrder(verdict)'
  BY <1>4 DEF DecidedInOrder, NoVerdict
<1>12. Named'
  BY <1>4 DEF RulesInv, Named
<1>13. SinksSpeak' /\ SinkInPlace'
  BY <1>4 DEF RulesInv, SinksSpeak, SinkInPlace
<1> QED
  BY <1>10, <1>11, <1>12, <1>13 DEF RulesInv

LEMMA AsyncBeginKeeps ==
  ASSUME ACLRulesAssumption, RulesInv, NEW e \in Evaluations, NEW c \in Calls, AsyncBegin(e, c)
  PROVE  RulesInv'
<1>1. PICK ev : ev = [pc |-> "running", call |-> c, rules |-> list, default |-> default,
                      sink |-> Len(sinks), idx |-> 0, outcome |-> "no_match", read |-> <<>>,
                      pending |-> FALSE]
  OBVIOUS
<1>2. IF list = <<>> THEN Concludes(e, ev, Decided(c, 0, <<>>, default, FALSE)) ELSE Awaits(e, ev, 1)
  BY <1>1 DEF AsyncBegin
<1>3. CASE list = <<>>
  <2>1. PICK v : v = Decided(c, 0, <<>>, default, FALSE)
    OBVIOUS
  <2>2. DecidedInOrder(v)
    BY <2>1 DEF DecidedInOrder, Decided
  <2> QED
    BY <1>2, <1>3, <2>1, <2>2, ConcludesKeeps
<1>4. CASE list # <<>>
  <2>1. list \in Seq(1 .. Len(heap))
    BY DEF RulesInv, Named
  <2>2. Len(list) \in Nat /\ 0 < Len(list)
    BY <1>4, <2>1
  <2>3. HasRead(list, <<>>, c, 0) /\ Undecided(<<>>, c, 0)
    BY <2>1, <2>2 DEF HasRead, Undecided
  <2>4. IsRunning(ev) /\ ev.rules = list /\ ev.read = <<>> /\ ev.call = c
    BY <1>1 DEF IsRunning, EvalShape
  <2>5. PICK n : n = 0
    OBVIOUS
  <2>6. Awaits(e, ev, n + 1)
    BY <1>2, <1>4, <2>5
  <2> QED
    BY <2>2, <2>3, <2>4, <2>5, <2>6, AwaitsKeeps
<1> QED
  BY <1>3, <1>4

LEMMA AsyncTurnKeeps ==
  ASSUME ACLRulesAssumption, RulesInv, NEW e \in Evaluations, AsyncTurn(e)
  PROVE  RulesInv'
<1>1. PICK cur : cur = eval[e] /\ Running(cur)
  BY DEF AsyncTurn, RulesInv, Evaluating
<1>2. PICK rs, read, c, n : rs = cur.rules /\ read = cur.read /\ c = cur.call /\ n = cur.idx
  OBVIOUS
<1>3. PICK r, last : r = heap[rs[n]] /\ last = read[n]
  OBVIOUS
<1>4. PICK out, pends : out = cur.outcome /\ pends = (cur.pending \/ Pends(out, r))
  OBVIOUS
<1>5. PICK ev : ev = [cur EXCEPT !.pending = pends]
  OBVIOUS
<1>6. /\ IsRunning(ev) /\ ev.rules = rs /\ ev.read = read /\ ev.call = c
      /\ ev.idx = n /\ ev.outcome = out
  BY <1>1, <1>2, <1>4, <1>5 DEF Running, IsRunning, EvalShape
<1>7. /\ HasRead(rs, read, c, n) /\ n # 0 /\ out = MatchRule(last, c) /\ Undecided(read, c, n - 1)
  BY <1>1, <1>2, <1>3, <1>4 DEF Running
<1>8. n \in 1 .. Len(rs) /\ Len(rs) \in Nat /\ Len(read) = n /\ read \in Seq(RuleObjects)
  BY <1>7 DEF HasRead
<1>9. Decides(out, r) <=> Decides(MatchRule(last, c), last)
  <2>1. Akin(last, r)
    BY <1>3, <1>7, <1>8 DEF HasRead
  <2> QED
    BY <1>7, <2>1 DEF Akin, Decides
<1>10. PICK gated, default0 : /\ gated = (ev.pending \/ r.approval = "required")
                             /\ default0 = ev.default
  OBVIOUS
<1>11. IF Decides(ev.outcome, r)
       THEN Concludes(e, ev, Decided(ev.call, ev.idx, ev.read, r.effect, gated))
       ELSE IF ev.idx = Len(ev.rules)
       THEN Concludes(e, ev, Decided(ev.call, 0, ev.read, default0, ev.pending))
       ELSE Awaits(e, ev, ev.idx + 1)
  BY <1>1, <1>2, <1>3, <1>4, <1>5, <1>10 DEF AsyncTurn
<1>12. CASE Decides(out, r)
  <2>1. PICK v : v = Decided(c, n, read, r.effect, gated)
    OBVIOUS
  <2>2. r.effect = "allow" => MatchRule(last, c) = "match"
    BY <1>7, <1>12 DEF Decides
  <2>3. \A i \in DOMAIN read : i < n => ~Decides(MatchRule(read[i], c), read[i])
    BY <1>7, <1>8 DEF Undecided
  <2>4. DecidedInOrder(v)
    BY <1>3, <1>8, <2>1, <2>2, <2>3 DEF DecidedInOrder, Decided
  <2>5. Concludes(e, ev, v)
    BY <1>6, <1>11, <1>12, <2>1
  <2> QED
    BY <2>4, <2>5, ConcludesKeeps
<1>13. ASSUME ~Decides(out, r) PROVE Undecided(read, c, n)
  BY <1>3, <1>7, <1>8, <1>9, <1>13 DEF Undecided
<1>14. CASE ~Decides(out, r) /\ n = Len(rs)
  <2>1. PICK v : v = Decided(c, 0, read, default0, ev.pending)
    OBVIOUS
  <2>2. DecidedInOrder(v)
    BY <1>8, <1>13, <1>14, <2>1 DEF DecidedInOrder, Decided, Undecided
  <2>3. Concludes(e, ev, v)
    BY <1>6, <1>11, <1>14, <2>1
  <2> QED
    BY <2>2, <2>3, ConcludesKeeps
<1>15. CASE ~Decides(out, r) /\ n # Len(rs)
  <2>1. Awaits(e, ev, n + 1)
    BY <1>6, <1>11, <1>15
  <2>2. n < Len(rs)
    BY <1>8, <1>15
  <2> QED
    BY <1>6, <1>7, <1>13, <1>15, <2>1, <2>2, AwaitsKeeps
<1> QED
  BY <1>12, <1>14, <1>15

LEMMA RulesStart ==
  ASSUME RulesInit
  PROVE  RulesInv
<1>1. Named
  BY DEF RulesInit, Named
<1>2. Evaluating
  BY DEF RulesInit, Evaluating, Idle
<1>3. DecidedInOrder(verdict)
  BY DEF RulesInit, DecidedInOrder, NoVerdict
<1>4. SinksSpeak /\ SinkInPlace
  BY DEF RulesInit, SinksSpeak, SinkInPlace
<1> QED
  BY <1>1, <1>2, <1>3, <1>4 DEF RulesInv

LEMMA RulesStep ==
  ASSUME ACLRulesAssumption, RulesInv, [RulesNext]_ruleVars
  PROVE  RulesInv'
<1>1. ASSUME NEW d \in AclDocuments, EditFile(d) PROVE RulesInv'
  BY <1>1, EditFileKeeps
<1>2. ASSUME NEW callback \in BOOLEAN, LoadFile(callback) \/ Construct(callback) PROVE RulesInv'
  BY <1>2, LoadKeeps, ConstructKeeps
<1>3. ASSUME ReloadFile PROVE RulesInv'
  BY <1>3, ReloadKeeps
<1>4. ASSUME NEW r \in Addable, AddRule(r) PROVE RulesInv'
  BY <1>4, AddRuleKeeps
<1>5. ASSUME NEW o \in Range(list), AddAgain(o) PROVE RulesInv'
  BY <1>5, AddAgainKeeps
<1>6. ASSUME NEW o \in Range(list), NEW byConditions \in BOOLEAN, RemoveRule(heap[o], byConditions)
      PROVE RulesInv'
  <2>1. PICK r : r = heap[o]
    OBVIOUS
  <2>2. RemoveRule(r, byConditions)
    BY <1>6, <2>1
  <2> QED
    BY <2>2, RemoveRuleKeeps
<1>7. ASSUME NEW o \in Range(list), NEW field \in Fields, NEW value \in Assignable, Assign(o, field, value)
      PROVE RulesInv'
  BY <1>7, AssignKeeps
<1>8. ASSUME NEW c \in Calls, Check(c) PROVE RulesInv'
  BY <1>8, CheckKeeps
<1>9. ASSUME NEW c \in Calls, NEW e \in Evaluations, AsyncBegin(e, c) PROVE RulesInv'
  BY <1>9, AsyncBeginKeeps
<1>10. ASSUME NEW e \in Evaluations, AsyncTurn(e) PROVE RulesInv'
  BY <1>10, AsyncTurnKeeps
<1>11. ASSUME UNCHANGED ruleVars PROVE RulesInv'
  BY <1>11 DEF ruleVars, RulesInv, Named, Evaluating, Running, HasRead, SinksSpeak, SinkInPlace
<1> QED
  BY <1>1, <1>2, <1>3, <1>4, <1>5, <1>6, <1>7, <1>8, <1>9, <1>10, <1>11 DEF RulesNext

LEMMA RulesHold == RulesSpec => []RulesInv
<1>1. RulesInit => RulesInv
  BY RulesStart
<1>2. RulesInv /\ [RulesNext]_ruleVars => RulesInv'
  BY ACLRulesAssumption, RulesStep
<1> QED
  BY <1>1, <1>2, PTL DEF RulesSpec

\* What validateRules() finds.
LEMMA PatternsThatMatchNothing ==
  ASSUME NEW f \in Fields, NEW items, ~Unreadable([list |-> TRUE, items |-> items]),
         NeverMatches(f, items), NEW c \in Askable
  PROVE  /\ f = "callers" => ~MatchPatterns(items, c.caller, c.system)
         /\ f = "targets" => ~MatchPatterns(items, c.target, c.system)
<1>1. c.caller \in {"m", "n", "@external"} /\ c.target \in {"m", "n"}
  BY DEF Askable
<1>2. CASE items[1] = "$not" /\ items[2] = "*"
  BY <1>2 DEF MatchPatterns, MatchPattern
<1>3. CASE items[1] # "$not" /\ \A p \in Operands(items) : p = "m?"
  BY <1>1, <1>3 DEF MatchPatterns, MatchPattern
<1>4. CASE items[1] # "$not" /\ f = "targets" /\ \A p \in Operands(items) : p = "@external"
  BY <1>1, <1>4 DEF MatchPatterns, MatchPattern
<1> QED
  BY <1>2, <1>3, <1>4 DEF NeverMatches

LEMMA FindingsAreFair ==
  ASSUME NEW r
  PROVE  /\ Faulty(r) => Findings(r) # {}
         /\ Findings(r) # {} => \A c \in Askable : MatchRule(r, c) # "match"
<1>1. ASSUME Faulty(r) PROVE Findings(r) # {}
  BY <1>1 DEF Faulty, Findings
<1>2. ASSUME NEW c \in Askable, Findings(r) # {} PROVE MatchRule(r, c) # "match"
  <2>1. CASE r.conditions \in {"unknown", "scalar"}
    BY <2>1 DEF MatchRule, ConditionsSay
  <2>2. CASE Unreadable(r.callers) \/ Unreadable(r.targets)
    BY <2>2 DEF MatchRule
  <2>3. ASSUME ~Unreadable(r.callers), ~Unreadable(r.targets), NEW f \in Fields, NeverMatches(f, r[f].items)
        PROVE  ~InScope(r, c)
    <3>1. PICK items : items = r[f].items
      OBVIOUS
    <3>2. f = "callers" \/ f = "targets"
      BY DEF Fields
    <3>3. ~Unreadable([list |-> TRUE, items |-> items])
      BY <2>3, <3>1, <3>2 DEF Unreadable
    <3>4. /\ f = "callers" => ~MatchPatterns(items, c.caller, c.system)
          /\ f = "targets" => ~MatchPatterns(items, c.target, c.system)
      BY <2>3, <3>1, <3>3, PatternsThatMatchNothing
    <3> QED
      BY <3>1, <3>2, <3>4 DEF InScope
  <2>4. ASSUME ~Unreadable(r.callers), ~Unreadable(r.targets), r.conditions \notin {"unknown", "scalar"}
        PROVE  \E f \in Fields : NeverMatches(f, r[f].items)
    BY <1>2, <2>4 DEF Findings, Fields
  <2> QED
    BY <2>1, <2>2, <2>3, <2>4 DEF MatchRule
<1> QED
  BY <1>1, <1>2

\* acl.ts, acl-file.ts: a rule that more than one door judges is refused by each
\* for the same first fault, and what a grant rests on is what the arrays of the
\* rule said, as they were read, with no unreadable or bare deny before it.
THEOREM RulesReadAsWritten == RulesSpec => []RulesMeanOneThing
<1>1. RulesInv => RulesMeanOneThing
  <2> SUFFICES ASSUME RulesInv PROVE RulesMeanOneThing
    OBVIOUS
  <2>1. GrantsAsWritten
    BY OrderedGrants DEF RulesInv
  <2>2. file \in AclDocuments
    BY DEF RulesInv, Named
  <2>3. FileSays[file] = FileFault(file) /\ ConstructorSays[file] = ConstructorFault(file)
    BY <2>2 DEF FileSays, ConstructorSays
  <2>4. DoorsAgree
    BY <2>2, <2>3, ACLRulesAssumption, DoorsAgreeOn DEF DoorsAgree
  <2> QED
    BY <2>1, <2>4 DEF RulesMeanOneThing
<1> QED
  BY <1>1, RulesHold, PTL

\* AuditSink, validateRules(): every sink reports its first failure of a kind
\* and no other, whatever sinks came before it; every rule an evaluation cannot
\* read is spoken of, and none that can match.
THEOREM FaultsAreTold == RulesSpec => [](AuditSpeaks /\ FindingsFair)
<1>1. RulesInv => AuditSpeaks /\ FindingsFair
  <2>1. RulesInv => AuditSpeaks
    BY DEF RulesInv, SinksSpeak, Speaks, AuditSpeaks, Range
  <2>2. FindingsFair
    BY FindingsAreFair DEF FindingsFair
  <2> QED
    BY <2>1, <2>2
<1> QED
  BY <1>1, RulesHold, PTL
=============================================================================
