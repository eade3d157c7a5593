----------------------------- MODULE EventProofs -----------------------------
(***************************************************************************)
(* No delivery of the EventEmitter is lost or has two keepers, for every    *)
(* set of events and subscribers, every maxAttempts, every maxPending and   *)
(* any number of flush() calls.                                             *)
(*                                                                          *)
(* The invariant has three parts besides the types.  Frames: what the emit() *)
(* calls on the stack still have to dispatch has not been started.  Told:   *)
(* what each phase of a delivery says of its attempts and of who has heard  *)
(* of it.  Kept: a delivery has at most one keeper, an unsettled one has    *)
(* one, and after shutdown() only the emit() calls it was called from feed  *)
(* _pending.                                                                *)
(*                                                                          *)
(* The second half is about the circuit of one wrapped subscriber, for      *)
(* every number of overlapping deliveries, threshold and recovery window.   *)
(***************************************************************************)
EXTENDS EventEmitter, SubscriberCircuit, FiniteSetTheorems, TLAPS

Frame == [event : Events, id : Ids \cup {NoId}, rest : SUBSET Subscribers]

----------------------------------------------------------------------------
(* The inductive invariant *)

\* The emit() calls under way are different ones; each calls a subscriber of
\* its own event, and has started nothing of what it still has to dispatch.
Frames ==
  /\ \A i \in DOMAIN stack : stack[i].event \in emitted
  /\ \A i, j \in DOMAIN stack : stack[i].event = stack[j].event => i = j
  /\ \A i \in DOMAIN stack : stack[i].id # NoId => stack[i].id[1] = stack[i].event
  /\ \A i \in DOMAIN stack : \A s \in stack[i].rest : phase[<<stack[i].event, s>>] = "none"
  /\ \A id \in Ids : id[1] \notin emitted => phase[id] = "none"

Unheard(id) == audience[id] = {} /\ told[id] = {} /\ id \notin overflow
LastAttempt(id) == attempt[id] = IF id \in overflow THEN 0 ELSE MaxAttempts[id[2]]

\* What each phase of a delivery says of its attempts and its listeners.
ToldAt(id) ==
  /\ phase[id] \in {"none", "calling", "sleeping"} => Unheard(id)
  /\ phase[id] = "none" => attempt[id] = 0
  /\ phase[id] = "sleeping" => attempt[id] < MaxAttempts[id[2]]
  /\ phase[id] \in {"deadLetter", "callback"} => LastAttempt(id)
  /\ phase[id] = "callback" =>
       told[id] = audience[id] /\ id[2] \in Callbacks /\ id \notin overflow
  /\ phase[id] # "settled" => id \notin acked \cup notified
  /\ phase[id] = "settled" =>
       IF id \in acked
         THEN audience[id] = {} /\ id \notin notified \cup overflow
         ELSE /\ told[id] = audience[id] /\ LastAttempt(id)
              /\ id \in notified <=> id[2] \in Callbacks /\ id \notin overflow
Told == \A id \in Ids : ToldAt(id)

Left(id) == \E f \in Waiters : id \in flush[f].left

\* One keeper at most; one at least while it is under way; none before.
KeptAt(id) ==
  /\ id \in pending => id \notin InFrames /\ id \notin abandoned /\ ~Left(id)
  /\ id \in InFrames => id \notin abandoned /\ ~Left(id)
  /\ id \in abandoned => ~Left(id)
  /\ \A f, g \in Waiters : id \in flush[f].left /\ id \in flush[g].left => f = g
  /\ phase[id] \notin {"none", "settled"} =>
       id \in pending \/ id \in InFrames \/ id \in abandoned \/ Left(id)
  /\ phase[id] = "none" =>
       id \notin pending /\ id \notin InFrames /\ id \notin abandoned /\ ~Left(id)
Kept == \A id \in Ids : KeptAt(id)

\* A flush() that waits for nothing, and what shutdown() leaves behind.
Drains ==
  /\ \A f \in Waiters : flush[f].phase # "waiting" => flush[f].left = {}
  /\ closed <=> flush["shutdown"].phase # "idle"
  /\ closed => \A i \in DOMAIN stack : stack[i].event \in during
  /\ closed => \A id \in pending : id[1] \in during

EInv == TypeOK /\ Frames /\ Told /\ Kept /\ Drains

----------------------------------------------------------------------------
(* The stack *)

LEMMA IdsArePairs ==
  /\ NoId \notin Ids
  /\ \A id \in Ids : id[1] \in Events /\ id[2] \in Subscribers /\ id = <<id[1], id[2]>>
BY DEF NoId, Ids

LEMMA TopFrame ==
  ASSUME TypeOK, ~Quiet
  PROVE  /\ Len(stack) \in DOMAIN stack /\ Top = stack[Len(stack)] /\ Top \in Frame
         /\ Len(stack) \in Nat \ {0}
<1>1. stack \in Seq(Frame) BY DEF TypeOK, Frame
<1>2. stack # <<>> BY DEF Quiet
<1>3. Len(stack) \in Nat \ {0} BY <1>1, <1>2
<1>4. Len(stack) \in DOMAIN stack /\ stack[Len(stack)] \in Frame BY <1>1, <1>3
<1> QED BY <1>3, <1>4 DEF Top

\* emit() goes to its next subscriber.
LEMMA GoesStack ==
  ASSUME TypeOK, NEW s \in Subscribers, Goes(s)
  PROVE  LET n == Len(stack) IN
         /\ stack' \in Seq(Frame) /\ DOMAIN stack' = DOMAIN stack /\ Len(stack') = n
         /\ \A i \in DOMAIN stack : i # n => stack'[i] = stack[i]
         /\ stack'[n] = [event |-> Top.event, id |-> <<Top.event, s>>, rest |-> Top.rest \ {s}]
         /\ s \in Top.rest /\ Top.id = NoId /\ n \in DOMAIN stack /\ Top = stack[n]
         /\ <<Top.event, s>> \in Ids /\ Top.event \in Events
         /\ InFrames' = InFrames \cup {<<Top.event, s>>}
<1> DEFINE n == Len(stack)
           new == [event |-> Top.event, id |-> <<Top.event, s>>, rest |-> Top.rest \ {s}]
<1>1. n \in DOMAIN stack /\ Top = stack[n] /\ Top \in Frame /\ s \in Top.rest /\ Top.id = NoId
  BY TopFrame DEF Goes
<1>2. <<Top.event, s>> \in Ids /\ Top.event \in Events /\ new \in Frame
  BY <1>1 DEF Frame, Ids
<1>3. stack' = [stack EXCEPT ![n] = new]
  BY DEF Goes
<1>4. stack \in Seq(Frame) BY DEF TypeOK, Frame
<1>5. /\ stack' \in Seq(Frame) /\ DOMAIN stack' = DOMAIN stack /\ Len(stack') = n
      /\ \A i \in DOMAIN stack : i # n => stack'[i] = stack[i]
      /\ stack'[n] = new
  BY <1>1, <1>2, <1>3, <1>4
<1>6. InFrames' = InFrames \cup {<<Top.event, s>>}
  BY <1>1, <1>2, <1>5, IdsArePairs DEF InFrames
<1> QED BY <1>1, <1>2, <1>5, <1>6

\* The promise of a call is tracked: the frame has no call any more.
LEMMA TrackStack ==
  ASSUME TypeOK, Frames, Track
  PROVE  LET n == Len(stack) IN
         /\ stack' \in Seq(Frame) /\ DOMAIN stack' = DOMAIN stack
         /\ \A i \in DOMAIN stack : stack'[i].event = stack[i].event
                                    /\ stack'[i].rest = stack[i].rest
                                    /\ (i # n => stack'[i].id = stack[i].id)
         /\ stack'[n].id = NoId /\ n \in DOMAIN stack
         /\ Top.id \in Ids /\ Top.id \in InFrames /\ Top.id[1] = stack[n].event
         /\ InFrames' = InFrames \ {Top.id}
<1> DEFINE n == Len(stack)
<1>1. n \in DOMAIN stack /\ Top = stack[n] /\ Top \in Frame /\ Top.id # NoId /\ Top.id \in Ids
  BY TopFrame DEF Track, Frame
<1>2. stack' = [stack EXCEPT ![n] = [Top EXCEPT !.id = NoId]]
  BY <1>1 DEF Track, Top
<1>3. stack \in Seq(Frame) BY DEF TypeOK, Frame
<1>4. [Top EXCEPT !.id = NoId] \in Frame BY <1>1 DEF Frame
<1>5. /\ stack' \in Seq(Frame) /\ DOMAIN stack' = DOMAIN stack
      /\ \A i \in DOMAIN stack : i # n => stack'[i] = stack[i]
      /\ stack'[n] = [Top EXCEPT !.id = NoId]
  BY <1>1, <1>2, <1>3, <1>4
<1>6. stack'[n].event = Top.event /\ stack'[n].rest = Top.rest /\ stack'[n].id = NoId
  BY <1>1, <1>5 DEF Frame
<1>7. Top.id[1] = stack[n].event /\ \A i \in DOMAIN stack : i # n => stack[i].id # Top.id
  BY <1>1 DEF Frames
<1>8. Top.id \in InFrames
  BY <1>1 DEF InFrames
<1>9. \A i \in DOMAIN stack : stack'[i].id = IF i = n THEN NoId ELSE stack[i].id
  BY <1>5, <1>6
<1>10. InFrames' = InFrames \ {Top.id}
  BY <1>1, <1>5, <1>7, <1>9 DEF InFrames
<1> QED BY <1>1, <1>5, <1>6, <1>7, <1>8, <1>10

\* emit() begins, and returns.
LEMMA EmitStack ==
  ASSUME TypeOK, NEW e \in Events, Emit(e)
  PROVE  LET n == Len(stack) + 1
             new == [event |-> e, id |-> NoId,
                     rest |-> {s \in subscribers : <<e, s>> \in Matches}] IN
         /\ stack' \in Seq(Frame) /\ DOMAIN stack' = DOMAIN stack \cup {n} /\ n \notin DOMAIN stack
         /\ \A i \in DOMAIN stack : stack'[i] = stack[i]
         /\ stack'[n] = new /\ InFrames' = InFrames
<1> DEFINE n == Len(stack) + 1
           new == [event |-> e, id |-> NoId,
                   rest |-> {s \in subscribers : <<e, s>> \in Matches}]
<1>1. stack \in Seq(Frame) /\ new \in Frame BY DEF TypeOK, Frame
<1>2. stack' = Append(stack, new) BY DEF Emit
<1>3. /\ stack' \in Seq(Frame) /\ DOMAIN stack' = DOMAIN stack \cup {n} /\ n \notin DOMAIN stack
      /\ \A i \in DOMAIN stack : stack'[i] = stack[i]
      /\ stack'[n] = new
  BY <1>1, <1>2
<1>4. InFrames' = InFrames BY <1>3 DEF InFrames
<1> QED BY <1>3, <1>4

LEMMA ReturnStack ==
  ASSUME TypeOK, EmitReturns
  PROVE  /\ stack' \in Seq(Frame) /\ DOMAIN stack' \subseteq DOMAIN stack
         /\ \A i \in DOMAIN stack' : stack'[i] = stack[i]
         /\ InFrames' = InFrames
<1> DEFINE n == Len(stack)
<1>1. stack \in Seq(Frame) /\ n \in Nat \ {0} /\ stack[n].id = NoId
  BY TopFrame DEF TypeOK, Frame, EmitReturns
<1>2. stack' = SubSeq(stack, 1, n - 1) BY DEF EmitReturns
<1>3. /\ stack' \in Seq(Frame) /\ DOMAIN stack = 1..n /\ DOMAIN stack' = 1..(n - 1)
      /\ \A i \in 1..(n - 1) : stack'[i] = stack[i]
  BY <1>1, <1>2
<1>4. InFrames' = InFrames
  BY <1>1, <1>3 DEF InFrames
<1> QED BY <1>1, <1>3, <1>4

----------------------------------------------------------------------------
(* One delivery moves *)

\* Delivery id leaves its first phase or goes on from another; no other moves.
Moves(id) ==
  /\ phase'[id] # "none"
  /\ \A u \in Ids : u # id =>
       /\ phase'[u] = phase[u] /\ attempt'[u] = attempt[u]
       /\ audience'[u] = audience[u] /\ told'[u] = told[u]
       /\ u \in overflow' <=> u \in overflow
       /\ u \in acked' <=> u \in acked
       /\ u \in notified' <=> u \in notified

LEMMA MovesTold ==
  ASSUME Told, NEW id \in Ids, Moves(id), ToldAt(id)'
  PROVE  Told'
BY DEF Told, ToldAt, Moves, Unheard, LastAttempt

LEMMA FramesTyped ==
  ASSUME TypeOK
  PROVE  \A i \in DOMAIN stack : stack[i] \in Frame
<1>1. stack \in Seq(Frame) BY DEF TypeOK, Frame
<1> QED BY <1>1

\* A delivery under way goes on: nobody else has to do with it.
LEMMA WorkKeeps ==
  ASSUME EInv, NEW id \in Ids, Moves(id), phase[id] \notin {"none", "settled"},
         UNCHANGED <<emitVars, pending, flushVars>>
  PROVE  Frames' /\ Kept' /\ Drains'
<1>1. UNCHANGED <<stack, emitted, pending, closed, flush, abandoned, during>>
  BY DEF emitVars, flushVars
<1>2. Frames'
  <2>1. \A i \in DOMAIN stack : \A s \in stack[i].rest : phase'[<<stack[i].event, s>>] = "none"
    <3> SUFFICES ASSUME NEW i \in DOMAIN stack, NEW s \in stack[i].rest
                 PROVE  phase'[<<stack[i].event, s>>] = "none"
      OBVIOUS
    <3>1. <<stack[i].event, s>> \in Ids BY FramesTyped DEF EInv, Frame, Ids
    <3>2. phase[<<stack[i].event, s>>] = "none" BY DEF EInv, Frames
    <3> QED BY <3>1, <3>2 DEF Moves
  <2>2. \A u \in Ids : u[1] \notin emitted => phase'[u] = "none"
    BY DEF EInv, Frames, Moves
  <2> QED BY <1>1, <2>1, <2>2 DEF EInv, Frames
<1>3. Kept'
  <2> SUFFICES ASSUME NEW u \in Ids PROVE KeptAt(u)'
    BY DEF Kept
  <2>1. InFrames' = InFrames /\ (Left(u)' <=> Left(u)) BY <1>1 DEF InFrames, Left
  <2>2. KeptAt(u) BY DEF EInv, Kept
  <2> QED BY <1>1, <2>1, <2>2 DEF KeptAt, Moves
<1>4. Drains' BY <1>1 DEF EInv, Drains
<1> QED BY <1>2, <1>3, <1>4

\* Whether a dead-letter listener is there or not.
LEMMA DeadLetterTold ==
  ASSUME TypeOK, NEW id \in Ids, NEW next \in Phases, DeadLetter(id, next)
  PROVE  LET listeners == subscribers \cap DlqListeners IN
         /\ audience' \in [Ids -> SUBSET Subscribers] /\ audience'[id] = listeners
         /\ phase' \in [Ids -> Phases]
         /\ phase'[id] = IF listeners = {} THEN next ELSE "deadLetter"
         /\ \A u \in Ids : u # id => phase'[u] = phase[u] /\ audience'[u] = audience[u]
BY DEF DeadLetter, TypeOK, Phases

LEMMA AcceptsStep ==
  ASSUME EInv, NEW id \in Ids, Accepts(id)
  PROVE  EInv'
<1> USE DEF EInv, Accepts
<1>1. Moves(id) BY DEF Moves, TypeOK
<1>2. TypeOK' BY DEF TypeOK, Phases, emitVars, flushVars
<1>3. ToldAt(id)' BY DEF Told, ToldAt, Unheard, LastAttempt, TypeOK
<1> QED BY <1>1, <1>2, <1>3, MovesTold, WorkKeeps

LEMMA FailsStep ==
  ASSUME EInv, NEW id \in Ids, Fails(id)
  PROVE  EInv'
<1> USE DEF EInv
<1>0. /\ phase[id] = "calling"
      /\ UNCHANGED <<emitVars, attempt, overflow, told, acked, notified, pending, flushVars>>
  BY DEF Fails
<1>1. ToldAt(id) /\ attempt[id] \in Nat /\ attempt[id] <= MaxAttempts[id[2]]
      /\ MaxAttempts[id[2]] \in Nat
  BY IdsArePairs, EmitterAssumption DEF Told, TypeOK
<1>2. CASE AttemptLeft(id)
  <2>1. phase' = [phase EXCEPT ![id] = "sleeping"] /\ audience' = audience
    BY <1>2 DEF Fails
  <2>2. Moves(id) BY <1>0, <2>1 DEF Moves, TypeOK
  <2>3. TypeOK' BY <1>0, <2>1 DEF TypeOK, Phases, emitVars, flushVars
  <2>4. ToldAt(id)'
    BY <1>0, <1>1, <1>2, <2>1 DEF ToldAt, Unheard, LastAttempt, AttemptLeft, TypeOK
  <2> QED BY <1>0, <2>2, <2>3, <2>4, MovesTold, WorkKeeps
<1>3. CASE ~AttemptLeft(id)
  <2>1. DeadLetter(id, AfterFailure(id)) BY <1>3 DEF Fails
  <2>2. AfterFailure(id) \in Phases BY DEF AfterFailure, Phases
  <2> DEFINE listeners == subscribers \cap DlqListeners
  <2>3. /\ audience' \in [Ids -> SUBSET Subscribers] /\ audience'[id] = listeners
        /\ phase' \in [Ids -> Phases]
        /\ phase'[id] = IF listeners = {} THEN AfterFailure(id) ELSE "deadLetter"
        /\ \A u \in Ids : u # id => phase'[u] = phase[u] /\ audience'[u] = audience[u]
    BY <2>1, <2>2, DeadLetterTold
  <2>4. Moves(id) BY <1>0, <2>3 DEF Moves, AfterFailure
  <2>5. TypeOK' BY <1>0, <2>3 DEF TypeOK, emitVars, flushVars
  <2>6. attempt[id] = MaxAttempts[id[2]] BY <1>1, <1>3 DEF AttemptLeft
  <2>7. ToldAt(id)'
    BY <1>0, <1>1, <2>3, <2>6 DEF ToldAt, Unheard, LastAttempt, AfterFailure
  <2> QED BY <1>0, <2>4, <2>5, <2>7, MovesTold, WorkKeeps
<1> QED BY <1>2, <1>3

LEMMA RetriesStep ==
  ASSUME EInv, NEW id \in Ids, Retries(id)
  PROVE  EInv'
<1> USE DEF EInv, Retries
<1>1. ToldAt(id) /\ attempt[id] \in Nat /\ attempt[id] < MaxAttempts[id[2]]
      /\ MaxAttempts[id[2]] \in Nat
  BY IdsArePairs, EmitterAssumption DEF Told, ToldAt, TypeOK
<1>2. Moves(id) BY DEF Moves, TypeOK
<1>3. attempt' \in [Ids -> Nat] /\ \A u \in Ids : attempt'[u] <= MaxAttempts[u[2]]
  BY <1>1 DEF TypeOK
<1>4. TypeOK' BY <1>3 DEF TypeOK, Phases, emitVars, flushVars
<1>5. ToldAt(id)' BY <1>1 DEF ToldAt, Unheard, LastAttempt, TypeOK
<1> QED BY <1>2, <1>4, <1>5, MovesTold, WorkKeeps

LEMMA DlqAnswersStep ==
  ASSUME EInv, NEW id \in Ids, DlqAnswers(id)
  PROVE  EInv'
<1> USE DEF EInv
<1>0. /\ phase[id] = "deadLetter"
      /\ UNCHANGED <<emitVars, attempt, overflow, audience, acked, notified, pending, flushVars>>
      /\ phase' = [phase EXCEPT ![id] = IF told'[id] # audience[id] THEN @
                                        ELSE IF id \in overflow THEN "settled"
                                        ELSE AfterFailure(id)]
  BY DEF DlqAnswers
<1>1. ToldAt(id) BY DEF Told
<1>2. PICK s \in audience[id] \ told[id] : told' = [told EXCEPT ![id] = @ \cup {s}]
  BY DEF DlqAnswers
<1>3. s \in Subscribers BY DEF TypeOK
<1>4. Moves(id) BY <1>0, <1>2 DEF Moves, TypeOK, AfterFailure
<1>5. TypeOK' BY <1>0, <1>2, <1>3 DEF TypeOK, Phases, AfterFailure, emitVars, flushVars
<1>6. ToldAt(id)'
  BY <1>0, <1>1, <1>2 DEF ToldAt, Unheard, LastAttempt, AfterFailure, TypeOK
<1> QED BY <1>0, <1>4, <1>5, <1>6, MovesTold, WorkKeeps

LEMMA CallbackEndsStep ==
  ASSUME EInv, NEW id \in Ids, CallbackEnds(id)
  PROVE  EInv'
<1> USE DEF EInv, CallbackEnds
<1>1. Moves(id) BY DEF Moves, TypeOK
<1>2. TypeOK' BY DEF TypeOK, Phases, emitVars, flushVars
<1>3. ToldAt(id)' BY DEF Told, ToldAt, Unheard, LastAttempt, TypeOK
<1> QED BY <1>1, <1>2, <1>3, MovesTold, WorkKeeps

----------------------------------------------------------------------------
(* emit() *)

\* The delivery that emit() starts had not been started, and is its own now.
LEMMA StartKeeps ==
  ASSUME EInv, NEW s \in Subscribers, Goes(s),
         NEW id \in Ids, id = <<Top.event, s>>, Moves(id),
         UNCHANGED <<emitted, pending, flushVars>>
  PROVE  Frames' /\ Kept' /\ Drains'
<1> DEFINE n == Len(stack)
<1> USE DEF EInv
<1>1. /\ DOMAIN stack' = DOMAIN stack /\ n \in DOMAIN stack /\ Top = stack[n]
      /\ \A i \in DOMAIN stack : i # n => stack'[i] = stack[i]
      /\ stack'[n] = [event |-> Top.event, id |-> id, rest |-> Top.rest \ {s}]
      /\ s \in Top.rest /\ id \in Ids /\ Top.event \in Events
      /\ InFrames' = InFrames \cup {id}
  BY GoesStack
<1>2. phase[id] = "none" /\ Top.event \in emitted BY <1>1 DEF Frames
<1>3. UNCHANGED <<closed, flush, abandoned, during>> BY DEF flushVars
<1>4. \A i \in DOMAIN stack : stack'[i].event = stack[i].event BY <1>1
<1>5. Frames'
  <2>1. \A i \in DOMAIN stack : stack'[i].id # NoId => stack'[i].id[1] = stack'[i].event
    BY <1>1 DEF Frames
  <2>2. ASSUME NEW i \in DOMAIN stack, NEW r \in stack'[i].rest
        PROVE  phase'[<<stack'[i].event, r>>] = "none"
    <3>1. r \in stack[i].rest /\ (i = n => r # s) BY <1>1
    <3>2. <<stack[i].event, r>> \in Ids BY <3>1, FramesTyped DEF Frame, Ids
    <3>3. <<stack[i].event, r>> # id BY <1>1, <3>1 DEF Frames
    <3>4. phase[<<stack[i].event, r>>] = "none" BY <3>1 DEF Frames
    <3> QED BY <1>4, <3>2, <3>3, <3>4 DEF Moves
  <2>3. \A u \in Ids : u[1] \notin emitted => phase'[u] = "none"
    BY <1>2 DEF Frames, Moves
  <2> QED BY <1>1, <1>4, <2>1, <2>2, <2>3 DEF Frames
<1>6. Kept'
  <2> SUFFICES ASSUME NEW u \in Ids PROVE KeptAt(u)'
    BY DEF Kept
  <2>1. (Left(u)' <=> Left(u)) BY <1>3 DEF Left
  <2>2. KeptAt(u) BY DEF Kept
  <2> QED BY <1>1, <1>2, <1>3, <2>1, <2>2 DEF KeptAt, Moves
<1>7. Drains' BY <1>1, <1>3, <1>4 DEF Drains
<1> QED BY <1>5, <1>6, <1>7

LEMMA DeliverStep ==
  ASSUME EInv, NEW s \in Subscribers, Deliver(s)
  PROVE  EInv'
<1> USE DEF EInv
<1>0. Goes(s) /\ UNCHANGED <<subscribers, emitted, overflow, told, acked, notified,
                             pending, flushVars>>
  BY DEF Deliver
<1> PICK id \in Ids : id = <<Top.event, s>>
  BY <1>0, GoesStack
<1>1. stack' \in Seq(Frame) /\ phase[id] = "none" /\ id[2] = s
  <2>1. /\ stack' \in Seq(Frame) /\ s \in Top.rest
        /\ Len(stack) \in DOMAIN stack /\ Top = stack[Len(stack)]
    BY <1>0, GoesStack
  <2>2. phase[<<Top.event, s>>] = "none" BY <2>1 DEF Frames
  <2> QED BY <2>1, <2>2
<1>2. ToldAt(id) /\ MaxAttempts[s] \in Nat BY <1>1, EmitterAssumption DEF Told
<1>3. CASE MaxAttempts[s] = 0
  <2>1. DeadLetter(id, AfterFailure(id)) /\ attempt' = attempt BY <1>3 DEF Deliver
  <2>2. AfterFailure(id) \in Phases BY DEF AfterFailure, Phases
  <2> DEFINE listeners == subscribers \cap DlqListeners
  <2>3. /\ audience' \in [Ids -> SUBSET Subscribers] /\ audience'[id] = listeners
        /\ phase' \in [Ids -> Phases]
        /\ phase'[id] = IF listeners = {} THEN AfterFailure(id) ELSE "deadLetter"
        /\ \A u \in Ids : u # id => phase'[u] = phase[u] /\ audience'[u] = audience[u]
    BY <1>1, <2>1, <2>2, DeadLetterTold
  <2>4. Moves(id) BY <1>0, <2>1, <2>3 DEF Moves, AfterFailure
  <2>5. TypeOK' BY <1>0, <1>1, <2>1, <2>3 DEF TypeOK, Frame, flushVars
  <2>6. ToldAt(id)'
    BY <1>0, <1>1, <1>2, <1>3, <2>1, <2>3 DEF ToldAt, Unheard, LastAttempt, AfterFailure
  <2> QED BY <1>0, <1>1, <2>4, <2>5, <2>6, MovesTold, StartKeeps
<1>4. CASE MaxAttempts[s] # 0
  <2>1. /\ phase' = [phase EXCEPT ![id] = "calling"]
        /\ attempt' = [attempt EXCEPT ![id] = 1] /\ audience' = audience
    BY <1>4 DEF Deliver
  <2>2. Moves(id) BY <1>0, <1>1, <2>1 DEF Moves, TypeOK
  <2>3. attempt' \in [Ids -> Nat] /\ \A u \in Ids : attempt'[u] <= MaxAttempts[u[2]]
    BY <1>1, <1>2, <1>4, <2>1 DEF TypeOK
  <2>4. phase' \in [Ids -> Phases] BY <2>1 DEF TypeOK, Phases
  <2>5. TypeOK' BY <1>0, <1>1, <2>1, <2>3, <2>4 DEF TypeOK, Frame, flushVars
  <2>6. ToldAt(id)' BY <1>0, <1>1, <1>2, <2>1 DEF ToldAt, Unheard, LastAttempt, TypeOK
  <2> QED BY <1>0, <1>1, <2>2, <2>5, <2>6, MovesTold, StartKeeps
<1> QED BY <1>3, <1>4

LEMMA OverflowStep ==
  ASSUME EInv, NEW s \in Subscribers, Overflow(s)
  PROVE  EInv'
<1> DEFINE listeners == subscribers \cap DlqListeners
<1> USE DEF EInv
<1>0. /\ Goes(s) /\ overflow' = overflow \cup {<<Top.event, s>>}
      /\ DeadLetter(<<Top.event, s>>, "settled")
      /\ UNCHANGED <<subscribers, emitted, attempt, told, acked, notified, pending, flushVars>>
  BY DEF Overflow
<1> PICK id \in Ids : id = <<Top.event, s>>
  BY <1>0, GoesStack
<1>1. stack' \in Seq(Frame) /\ phase[id] = "none" /\ id[2] = s
  <2>1. /\ stack' \in Seq(Frame) /\ s \in Top.rest
        /\ Len(stack) \in DOMAIN stack /\ Top = stack[Len(stack)]
    BY <1>0, GoesStack
  <2>2. phase[<<Top.event, s>>] = "none" BY <2>1 DEF Frames
  <2> QED BY <2>1, <2>2
<1>2. ToldAt(id) BY <1>1 DEF Told
<1>3. /\ audience' \in [Ids -> SUBSET Subscribers] /\ audience'[id] = listeners
      /\ phase' \in [Ids -> Phases]
      /\ phase'[id] = IF listeners = {} THEN "settled" ELSE "deadLetter"
      /\ \A u \in Ids : u # id => phase'[u] = phase[u] /\ audience'[u] = audience[u]
  BY <1>0, <1>1, DeadLetterTold, "settled" \in Phases DEF Phases
<1>4. Moves(id) BY <1>0, <1>3 DEF Moves
<1>5. TypeOK' BY <1>0, <1>1, <1>3 DEF TypeOK, Frame, flushVars
<1>6. ToldAt(id)'
  BY <1>0, <1>1, <1>2, <1>3 DEF ToldAt, Unheard, LastAttempt
<1> QED BY <1>0, <1>1, <1>4, <1>5, <1>6, MovesTold, StartKeeps

LEMMA EmitsStep ==
  ASSUME EInv, NEW e \in Events, Emit(e)
  PROVE  EInv'
<1> DEFINE n == Len(stack) + 1
           new == [event |-> e, id |-> NoId,
                   rest |-> {s \in subscribers : <<e, s>> \in Matches}]
<1> USE DEF EInv
<1>1. /\ stack' \in Seq(Frame) /\ DOMAIN stack' = DOMAIN stack \cup {n} /\ n \notin DOMAIN stack
      /\ \A i \in DOMAIN stack : stack'[i] = stack[i]
      /\ stack'[n] = new /\ InFrames' = InFrames
  BY EmitStack
<1>2. /\ e \notin emitted /\ ~closed /\ emitted' = emitted \cup {e}
      /\ UNCHANGED <<subscribers, deliveryVars, pending, flushVars>>
  BY DEF Emit
<1>3. TypeOK' BY <1>1, <1>2 DEF TypeOK, Frame, deliveryVars, flushVars
<1>4. Frames'
  <2>1. \A r \in new.rest : <<e, r>> \in Ids /\ phase[<<e, r>>] = "none"
    BY <1>2 DEF Frames, Ids, TypeOK
  <2> QED BY <1>1, <1>2, <2>1 DEF Frames, deliveryVars
<1>5. Told' BY <1>2 DEF Told, ToldAt, Unheard, LastAttempt, deliveryVars
<1>6. Kept' BY <1>1, <1>2 DEF Kept, KeptAt, Left, deliveryVars, flushVars
<1>7. Drains' BY <1>2 DEF Drains, flushVars
<1> QED BY <1>3, <1>4, <1>5, <1>6, <1>7

LEMMA TrackStep ==
  ASSUME EInv, Track
  PROVE  EInv'
<1> DEFINE n == Len(stack)
<1> USE DEF EInv
<1>1. /\ stack' \in Seq(Frame) /\ DOMAIN stack' = DOMAIN stack
      /\ \A i \in DOMAIN stack : stack'[i].event = stack[i].event
                                 /\ stack'[i].rest = stack[i].rest
                                 /\ (i # n => stack'[i].id = stack[i].id)
      /\ stack'[n].id = NoId /\ n \in DOMAIN stack
      /\ Top.id \in Ids /\ Top.id \in InFrames /\ Top.id[1] = stack[n].event
      /\ InFrames' = InFrames \ {Top.id}
  BY TrackStack
<1>2. /\ pending' = pending \cup {Top.id}
      /\ UNCHANGED <<subscribers, emitted, deliveryVars, flushVars>>
  BY DEF Track, Tracked
<1>3. TypeOK' BY <1>1, <1>2 DEF TypeOK, Frame, deliveryVars, flushVars
<1>4. Frames' BY <1>1, <1>2 DEF Frames, deliveryVars
<1>5. Told' BY <1>2 DEF Told, ToldAt, Unheard, LastAttempt, deliveryVars
<1>6. Kept' BY <1>1, <1>2 DEF Kept, KeptAt, Left, deliveryVars, flushVars
<1>7. Drains' BY <1>1, <1>2 DEF Drains, flushVars
<1> QED BY <1>3, <1>4, <1>5, <1>6, <1>7

LEMMA ReturnsStep ==
  ASSUME EInv, EmitReturns
  PROVE  EInv'
<1> USE DEF EInv
<1>1. /\ stack' \in Seq(Frame) /\ DOMAIN stack' \subseteq DOMAIN stack
      /\ \A i \in DOMAIN stack' : stack'[i] = stack[i]
      /\ InFrames' = InFrames
  BY ReturnStack
<1>2. UNCHANGED <<subscribers, emitted, deliveryVars, pending, flushVars>>
  BY DEF EmitReturns
<1>3. TypeOK' BY <1>1, <1>2 DEF TypeOK, Frame, deliveryVars, flushVars
<1>4. Frames' BY <1>1, <1>2 DEF Frames, deliveryVars
<1>5. Told' BY <1>2 DEF Told, ToldAt, Unheard, LastAttempt, deliveryVars
<1>6. Kept' BY <1>1, <1>2 DEF Kept, KeptAt, Left, deliveryVars, flushVars
<1>7. Drains' BY <1>1, <1>2 DEF Drains, flushVars
<1> QED BY <1>3, <1>4, <1>5, <1>6, <1>7

----------------------------------------------------------------------------
(* The subscriber list, _pending, flush() and shutdown() *)

LEMMA SubscribersStep ==
  ASSUME EInv, NEW s \in Subscribers, Subscribe(s) \/ Unsubscribe(s)
  PROVE  EInv'
<1>1. /\ subscribers' \subseteq Subscribers
      /\ UNCHANGED <<emitted, stack, deliveryVars, pending, flushVars>>
  BY DEF Subscribe, Unsubscribe, EInv, TypeOK
<1>2. TypeOK' BY <1>1 DEF EInv, TypeOK, deliveryVars, flushVars
<1> QED
  BY <1>1, <1>2
  DEF EInv, Frames, Told, ToldAt, Unheard, LastAttempt, Kept, KeptAt, InFrames, Left, Drains,
      deliveryVars, flushVars

LEMMA UntrackStep ==
  ASSUME EInv, NEW id \in Ids, Untrack(id)
  PROVE  EInv'
<1> USE DEF EInv
<1>1. /\ phase[id] = "settled" /\ pending' = pending \ {id}
      /\ UNCHANGED <<emitVars, deliveryVars, flushVars>>
  BY DEF Untrack
<1>2. TypeOK' BY <1>1 DEF TypeOK, emitVars, deliveryVars, flushVars
<1>3. Kept' BY <1>1 DEF Kept, KeptAt, InFrames, Left, emitVars, deliveryVars, flushVars
<1> QED
  BY <1>1, <1>2, <1>3
  DEF Frames, Told, ToldAt, Unheard, LastAttempt, Drains, emitVars, deliveryVars, flushVars

\* Who takes over _pending keeps what was in it.
LEMMA TakesKeeps ==
  ASSUME EInv, NEW f \in Waiters, NEW timed \in BOOLEAN, Takes(f, timed),
         UNCHANGED <<emitVars, deliveryVars, abandoned>>
  PROVE  /\ flush' \in [Waiters -> [phase : {"idle", "waiting", "done"},
                                    timed : BOOLEAN, left : SUBSET Ids]]
         /\ \A g \in Waiters : g # f => flush'[g] = flush[g]
         /\ flush[f].phase = "idle" /\ flush'[f].phase = "waiting" /\ pending' = {}
         /\ Kept'
<1> USE DEF EInv
<1>1. /\ flush' \in [Waiters -> [phase : {"idle", "waiting", "done"},
                                 timed : BOOLEAN, left : SUBSET Ids]]
      /\ \A g \in Waiters : g # f => flush'[g] = flush[g]
      /\ flush'[f] = [phase |-> "waiting", timed |-> timed, left |-> pending]
      /\ flush[f].phase = "idle" /\ pending' = {}
  BY DEF Takes, Remaining, TypeOK
<1>2. flush[f].left = {} BY <1>1 DEF Drains
<1>3. Kept'
  <2> SUFFICES ASSUME NEW u \in Ids PROVE KeptAt(u)'
    BY DEF Kept
  <2>1. Left(u)' <=> Left(u) \/ u \in pending BY <1>1, <1>2 DEF Left
  <2>2. KeptAt(u) /\ InFrames' = InFrames BY DEF Kept, InFrames, emitVars
  <2>3. \A g, h \in Waiters : u \in flush'[g].left /\ u \in flush'[h].left => g = h
    BY <1>1, <1>2, <2>2 DEF KeptAt, Left
  <2> QED BY <1>1, <2>1, <2>2, <2>3 DEF KeptAt, deliveryVars
<1> QED BY <1>1, <1>3

LEMMA FlushCallStep ==
  ASSUME EInv, NEW f \in Flushers, FlushCall(f)
  PROVE  EInv'
<1> USE DEF EInv
<1>1. PICK timed \in BOOLEAN : Takes(f, timed) BY DEF FlushCall
<1>2. UNCHANGED <<emitVars, deliveryVars, closed, abandoned, during>> BY DEF FlushCall
<1>3. f \in Waiters /\ f # "shutdown" /\ "shutdown" \in Waiters
  BY EmitterAssumption DEF Waiters
<1>4. /\ flush' \in [Waiters -> [phase : {"idle", "waiting", "done"},
                                 timed : BOOLEAN, left : SUBSET Ids]]
      /\ \A g \in Waiters : g # f => flush'[g] = flush[g]
      /\ flush[f].phase = "idle" /\ flush'[f].phase = "waiting" /\ pending' = {}
      /\ Kept'
  BY <1>1, <1>2, <1>3, TakesKeeps
<1>5. TypeOK' BY <1>2, <1>4 DEF TypeOK, emitVars, deliveryVars
<1>6. Drains' BY <1>2, <1>3, <1>4 DEF Drains, emitVars
<1> QED
  BY <1>2, <1>4, <1>5, <1>6
  DEF Frames, Told, ToldAt, Unheard, LastAttempt, emitVars, deliveryVars

LEMMA ShutdownCallStep ==
  ASSUME EInv, ShutdownCall
  PROVE  EInv'
<1> USE DEF EInv
<1>1. PICK timed \in BOOLEAN : Takes("shutdown", timed) BY DEF ShutdownCall
<1>2. /\ UNCHANGED <<emitVars, deliveryVars, abandoned>> /\ closed' = TRUE
      /\ during' = {stack[i].event : i \in DOMAIN stack}
  BY DEF ShutdownCall
<1>3. "shutdown" \in Waiters BY DEF Waiters
<1>4. /\ flush' \in [Waiters -> [phase : {"idle", "waiting", "done"},
                                 timed : BOOLEAN, left : SUBSET Ids]]
      /\ \A g \in Waiters : g # "shutdown" => flush'[g] = flush[g]
      /\ flush'["shutdown"].phase = "waiting" /\ pending' = {}
      /\ Kept'
  BY <1>1, <1>2, <1>3, TakesKeeps
<1>5. during' \subseteq Events BY <1>2, FramesTyped DEF Frame
<1>6. TypeOK' BY <1>2, <1>4, <1>5 DEF TypeOK, emitVars, deliveryVars
<1>7. Drains' BY <1>2, <1>3, <1>4 DEF Drains, emitVars
<1> QED
  BY <1>2, <1>4, <1>6, <1>7
  DEF Frames, Told, ToldAt, Unheard, LastAttempt, emitVars, deliveryVars

\* A flush() sees a delivery settle, gives one up, or returns.
LEMMA FlushStepKeeps ==
  ASSUME EInv, NEW f \in Waiters, FlushStep(f)
  PROVE  EInv'
<1> USE DEF EInv
<1>0. UNCHANGED <<emitVars, deliveryVars, pending, closed, during>>
  BY DEF FlushStep, FlushSees, FlushTimesOut, FlushReturns
<1>1. CASE FlushSees(f)
  <2>1. PICK id \in flush[f].left : phase[id] = "settled"
                                    /\ flush' = [flush EXCEPT ![f].left = @ \ {id}]
    BY <1>1 DEF FlushSees, Without
  <2>2. flush[f].phase = "waiting" /\ abandoned' = abandoned BY <1>1 DEF FlushSees
  <2>3. /\ \A g \in Waiters : g # f => flush'[g] = flush[g]
        /\ flush'[f].left = flush[f].left \ {id} /\ flush'[f].phase = "waiting"
        /\ flush' \in [Waiters -> [phase : {"idle", "waiting", "done"},
                                   timed : BOOLEAN, left : SUBSET Ids]]
        /\ id \in Ids
    BY <2>1, <2>2 DEF TypeOK
  <2>4. TypeOK' BY <1>0, <2>2, <2>3 DEF TypeOK, emitVars, deliveryVars
  <2>5. Kept'
    <3> SUFFICES ASSUME NEW u \in Ids PROVE KeptAt(u)'
      BY DEF Kept
    <3>1. KeptAt(u) /\ InFrames' = InFrames BY <1>0 DEF Kept, InFrames, emitVars
    <3>2. \A g \in Waiters : u \in flush'[g].left => u \in flush[g].left BY <2>3
    <3>3. u # id => \A g \in Waiters : u \in flush'[g].left <=> u \in flush[g].left BY <2>3
    <3> QED BY <1>0, <2>1, <2>2, <3>1, <3>2, <3>3 DEF KeptAt, Left, deliveryVars
  <2>6. Drains' BY <1>0, <2>2, <2>3 DEF Drains, Waiters, emitVars
  <2> QED
    BY <1>0, <2>4, <2>5, <2>6
    DEF Frames, Told, ToldAt, Unheard, LastAttempt, emitVars, deliveryVars
<1>2. CASE FlushTimesOut(f)
  <2>1. PICK id \in flush[f].left : /\ phase[id] # "settled"
                                    /\ flush' = [flush EXCEPT ![f].left = @ \ {id}]
                                    /\ abandoned' = abandoned \cup {id}
    BY <1>2 DEF FlushTimesOut
  <2>2. flush[f].phase = "waiting" BY <1>2 DEF FlushTimesOut
  <2>3. /\ \A g \in Waiters : g # f => flush'[g] = flush[g]
        /\ flush'[f].left = flush[f].left \ {id} /\ flush'[f].phase = "waiting"
        /\ flush' \in [Waiters -> [phase : {"idle", "waiting", "done"},
                                   timed : BOOLEAN, left : SUBSET Ids]]
        /\ id \in Ids
    BY <2>1, <2>2 DEF TypeOK
  <2>4. TypeOK' BY <1>0, <2>1, <2>3 DEF TypeOK, emitVars, deliveryVars
  <2>5. Kept'
    <3> SUFFICES ASSUME NEW u \in Ids PROVE KeptAt(u)'
      BY DEF Kept
    <3>1. KeptAt(u) /\ InFrames' = InFrames BY <1>0 DEF Kept, InFrames, emitVars
    <3>2. \A g \in Waiters : u \in flush'[g].left => u \in flush[g].left BY <2>3
    <3>3. u # id => \A g \in Waiters : u \in flush'[g].left <=> u \in flush[g].left BY <2>3
    <3>4. u = id => ~Left(u)' BY <2>3, <3>1, <3>2 DEF KeptAt, Left
    <3> QED BY <1>0, <2>1, <3>1, <3>2, <3>3, <3>4 DEF KeptAt, Left, deliveryVars
  <2>6. Drains' BY <1>0, <2>2, <2>3 DEF Drains, Waiters, emitVars
  <2> QED
    BY <1>0, <2>4, <2>5, <2>6
    DEF Frames, Told, ToldAt, Unheard, LastAttempt, emitVars, deliveryVars
<1>3. CASE FlushReturns(f)
  <2>1. /\ flush' = [flush EXCEPT ![f].phase = "done"] /\ abandoned' = abandoned
        /\ flush[f].phase = "waiting" /\ flush[f].left = {}
    BY <1>3 DEF FlushReturns
  <2>2. /\ \A g \in Waiters : g # f => flush'[g] = flush[g]
        /\ flush'[f].left = {} /\ flush'[f].phase = "done"
        /\ flush' \in [Waiters -> [phase : {"idle", "waiting", "done"},
                                   timed : BOOLEAN, left : SUBSET Ids]]
    BY <2>1 DEF TypeOK
  <2>3. \A g \in Waiters : flush'[g].left = flush[g].left BY <2>1, <2>2
  <2>4. TypeOK' BY <1>0, <2>1, <2>2 DEF TypeOK, emitVars, deliveryVars
  <2>5. Kept' BY <1>0, <2>1, <2>3 DEF Kept, KeptAt, Left, InFrames, emitVars, deliveryVars
  <2>6. Drains' BY <1>0, <2>1, <2>2 DEF Drains, Waiters, emitVars
  <2> QED
    BY <1>0, <2>4, <2>5, <2>6
    DEF Frames, Told, ToldAt, Unheard, LastAttempt, emitVars, deliveryVars
<1> QED BY <1>1, <1>2, <1>3 DEF FlushStep

----------------------------------------------------------------------------
(* The theorems *)

LEMMA EmitterInit == Init => EInv
<1> SUFFICES ASSUME Init PROVE EInv
  OBVIOUS
<1> USE DEF Init
<1>1. TypeOK
  <2>1. stack \in Seq([event : Events, id : Ids \cup {NoId}, rest : SUBSET Subscribers])
    OBVIOUS
  <2>2. \A id \in Ids : attempt[id] <= MaxAttempts[id[2]]
    BY IdsArePairs, EmitterAssumption
  <2> QED BY <2>1, <2>2 DEF TypeOK, Phases
<1>2. InFrames = {} BY DEF InFrames
<1>3. Frames /\ Told BY DEF Frames, Told, ToldAt, Unheard, LastAttempt
<1>4. Kept BY <1>2 DEF Kept, KeptAt, Left
<1>5. Drains BY DEF Drains, Waiters
<1> QED BY <1>1, <1>3, <1>4, <1>5 DEF EInv

LEMMA EmitterNext == EInv /\ [Next]_vars => EInv'
<1> SUFFICES ASSUME EInv, [Next]_vars PROVE EInv'
  OBVIOUS
<1>1. ASSUME NEW s \in Subscribers, Deliver(s) \/ Overflow(s) \/ Subscribe(s) \/ Unsubscribe(s)
      PROVE  EInv'
  BY <1>1, DeliverStep, OverflowStep, SubscribersStep
<1>2. ASSUME NEW id \in Ids, \/ Accepts(id) \/ Fails(id) \/ Retries(id) \/ DlqAnswers(id)
                             \/ CallbackEnds(id) \/ Untrack(id)
      PROVE  EInv'
  BY <1>2, AcceptsStep, FailsStep, RetriesStep, DlqAnswersStep, CallbackEndsStep, UntrackStep
<1>3. CASE UNCHANGED vars
  <2>1. TypeOK' BY <1>3 DEF vars, emitVars, deliveryVars, flushVars, EInv, TypeOK
  <2> QED
    BY <1>3, <2>1
    DEF vars, emitVars, deliveryVars, flushVars, EInv, Frames, Told, ToldAt, Unheard,
        LastAttempt, Kept, KeptAt, InFrames, Left, Drains
<1> QED
  BY <1>1, <1>2, <1>3, EmitsStep, TrackStep, ReturnsStep, FlushCallStep, ShutdownCallStep,
     FlushStepKeeps
  DEF Next, EmitStep

LEMMA EmitterInductive == Spec => []EInv
BY EmitterInit, EmitterNext, PTL DEF Spec

\* A delivery under way has exactly one keeper.
LEMMA OneKeeper == EInv => Accounted
<1> SUFFICES ASSUME EInv, NEW id \in Unsettled PROVE Cardinality(Keepers(id)) = 1
  BY DEF Accounted
<1>1. id \in Ids /\ phase[id] \notin {"none", "settled"} BY DEF Unsettled
<1>2. KeptAt(id) BY <1>1 DEF EInv, Kept
<1>3. \E k : Keepers(id) = {k}
  <2>1. CASE id \in pending
    <3>1. Keepers(id) = {"pending"} BY <1>2, <2>1 DEF Keepers, KeptAt, Left
    <3> QED BY <3>1
  <2>2. CASE id \in InFrames
    <3>1. Keepers(id) = {"emit"} BY <1>2, <2>2 DEF Keepers, KeptAt, Left
    <3> QED BY <3>1
  <2>3. CASE id \in abandoned
    <3>1. Keepers(id) = {"abandoned"} BY <1>2, <2>3 DEF Keepers, KeptAt, Left
    <3> QED BY <3>1
  <2>4. CASE Left(id)
    <3>1. PICK f \in Waiters : id \in flush[f].left BY <2>4 DEF Left
    <3>2. Keepers(id) = {f} BY <1>2, <2>4, <3>1 DEF Keepers, KeptAt
    <3> QED BY <3>2
  <2> QED BY <1>1, <1>2, <2>1, <2>2, <2>3, <2>4 DEF KeptAt
<1> QED BY <1>3, FS_Singleton

\* Every accepted event is accounted for at every moment: a delivery under way
\* has exactly one keeper, one that settled was accepted or told to everybody
\* concerned after its last attempt, and a shutdown() that has returned leaves
\* nothing behind but what others took or gave up.  For any events, subscribers,
\* attempts, capacity and number of flush() calls.
THEOREM NothingUnaccounted == Spec => []EventsAccounted
<1>1. EInv => NeverLost
  BY DEF EInv, Told, ToldAt, LastAttempt, NeverLost
<1>2. EInv => ShutdownDrains
  <2> SUFFICES ASSUME EInv, flush["shutdown"].phase = "done", NEW id \in Unsettled
               PROVE  \/ id[1] \in during
                      \/ id \in abandoned
                      \/ \E f \in Flushers : id \in flush[f].left
    BY DEF ShutdownDrains
  <2>1. id \in Ids /\ KeptAt(id) /\ phase[id] \notin {"none", "settled"}
    BY DEF Unsettled, EInv, Kept
  <2>2. closed /\ flush["shutdown"].left = {} BY DEF EInv, Drains, Waiters
  <2>3. id \in InFrames => id[1] \in during
    <3> SUFFICES ASSUME id \in InFrames PROVE id[1] \in during
      OBVIOUS
    <3>1. PICK i \in DOMAIN stack : stack[i].id = id /\ id # NoId BY DEF InFrames
    <3> QED BY <2>2, <3>1 DEF EInv, Frames, Drains
  <2>4. id \in pending => id[1] \in during BY <2>2 DEF EInv, Drains
  <2>5. Left(id) => \E f \in Flushers : id \in flush[f].left BY <2>2 DEF Left, Waiters
  <2> QED BY <2>1, <2>3, <2>4, <2>5 DEF KeptAt
<1>3. EInv => EventsAccounted BY <1>1, <1>2, OneKeeper DEF EInv, EventsAccounted
<1> QED BY <1>3, EmitterInductive, PTL

-----------------------------------------------------------------------------
(* The circuit of one wrapped subscriber *)

\* How a call settles.
Settled == {"delivered", "failed"}

CircuitTypes ==
  /\ circuit \in [state : {"CLOSED", "OPEN", "HALF_OPEN"}, failures : Nat,
                  age : 0..RecoveryWindow]
  /\ deliveries \in [Deliveries -> {"new", "waiting", "delivered", "failed", "dropped"}]
  /\ outcomes \in Seq(Settled)

\* The last n outcomes failed and the one before them, if any, did not.
IsStreak(s, n) ==
  /\ n \in 0..Len(s)
  /\ \A i \in (Len(s) - n + 1)..Len(s) : s[i] = "failed"
  /\ n < Len(s) => s[Len(s) - n] # "failed"

\* The counter of the circuit is the streak, in every state of the circuit.
CircuitInv ==
  /\ CircuitTypes
  /\ IsStreak(outcomes, circuit.failures)
  /\ circuit.state = "CLOSED" => circuit.failures < OpenThreshold
  /\ AnnouncedState

----------------------------------------------------------------------------
(* Streaks *)

LEMMA StreakUnique ==
  ASSUME NEW s \in Seq(Settled), NEW m, NEW n,
         IsStreak(s, m), IsStreak(s, n)
  PROVE  m = n
<1>1. ASSUME NEW k, NEW l, IsStreak(s, k), IsStreak(s, l), k < l PROVE FALSE
  <2>1. Len(s) \in Nat /\ k \in Nat /\ l \in Nat /\ l <= Len(s)
    BY <1>1 DEF IsStreak
  <2>2. Len(s) - k \in (Len(s) - l + 1)..Len(s) /\ k < Len(s)
    BY <1>1, <2>1
  <2> QED
    BY <1>1, <2>2 DEF IsStreak
<1>2. ~(m < n) /\ ~(n < m)
  BY <1>1
<1>3. m \in Nat /\ n \in Nat
  BY DEF IsStreak
<1> QED
  BY <1>2, <1>3

\* What Streak chooses is the streak there is.
LEMMA StreakChosen ==
  ASSUME NEW s \in Seq(Settled), NEW n, IsStreak(s, n)
  PROVE  n = CHOOSE m \in 0..Len(s) :
               /\ \A i \in (Len(s) - m + 1)..Len(s) : s[i] = "failed"
               /\ m < Len(s) => s[Len(s) - m] # "failed"
<1> DEFINE P(m) == /\ \A i \in (Len(s) - m + 1)..Len(s) : s[i] = "failed"
                   /\ m < Len(s) => s[Len(s) - m] # "failed"
           c == CHOOSE m \in 0..Len(s) : P(m)
<1>1. n \in 0..Len(s) /\ P(n)
  BY DEF IsStreak
<1>2. c \in 0..Len(s) /\ P(c)
  <2> HIDE DEF P
  <2> QED
    BY <1>1
<1>3. IsStreak(s, c)
  <2> HIDE DEF c
  <2> QED
    BY <1>2 DEF IsStreak
<1>4. n = c
  <2> HIDE DEF c
  <2> QED
    BY <1>3, StreakUnique
<1> QED
  BY <1>4

\* A success ends the streak, a failure makes it longer by one.
LEMMA StreakGoesOn ==
  ASSUME NEW s \in Seq(Settled), NEW n, IsStreak(s, n)
  PROVE  /\ Append(s, "delivered") \in Seq(Settled) /\ IsStreak(Append(s, "delivered"), 0)
         /\ Append(s, "failed") \in Seq(Settled) /\ IsStreak(Append(s, "failed"), n + 1)
<1>0. "delivered" \in Settled /\ "failed" \in Settled
  BY DEF Settled
<1>1. Len(s) \in Nat /\ n \in Nat /\ n <= Len(s)
  BY DEF IsStreak
<1>2. ASSUME NEW o \in Settled
      PROVE  /\ Len(Append(s, o)) = Len(s) + 1
             /\ Append(s, o)[Len(s) + 1] = o
             /\ \A i \in 1..Len(s) : Append(s, o)[i] = s[i]
  OBVIOUS
<1>3. IsStreak(Append(s, "delivered"), 0)
  BY <1>0, <1>1, <1>2 DEF IsStreak
<1>4. IsStreak(Append(s, "failed"), n + 1)
  <2> DEFINE r == Append(s, "failed")
  <2>1. \A i \in (Len(s) - n + 1)..(Len(s) + 1) : r[i] = "failed"
    BY <1>0, <1>1, <1>2 DEF IsStreak
  <2>2. n < Len(s) => r[Len(s) - n] # "failed"
    BY <1>0, <1>1, <1>2 DEF IsStreak
  <2>3. Len(r) - (n + 1) = Len(s) - n /\ Len(r) = Len(s) + 1 /\ n + 1 \in 0..Len(r)
    BY <1>0, <1>1, <1>2
  <2> HIDE DEF r
  <2> QED
    BY <1>1, <2>1, <2>2, <2>3 DEF IsStreak
<1> QED
  BY <1>0, <1>3, <1>4

----------------------------------------------------------------------------
(* The invariant of the circuit *)

LEMMA InitInv == CircuitInit => CircuitInv
<1> SUFFICES ASSUME CircuitInit PROVE CircuitInv
  OBVIOUS
<1> USE CircuitAssumption DEF CircuitInit
<1>1. CircuitTypes
  <2>1. outcomes \in Seq(Settled)
    OBVIOUS
  <2>2. deliveries \in [Deliveries -> {"new", "waiting", "delivered", "failed", "dropped"}]
    OBVIOUS
  <2>3. circuit \in [state : {"CLOSED", "OPEN", "HALF_OPEN"}, failures : Nat,
                     age : 0..RecoveryWindow]
    OBVIOUS
  <2> QED
    BY <2>1, <2>2, <2>3 DEF CircuitTypes
<1>2. IsStreak(outcomes, circuit.failures)
  <2>1. Len(outcomes) = 0 /\ circuit.failures = 0
    OBVIOUS
  <2> QED
    BY <2>1 DEF IsStreak
<1>3. AnnouncedState
  BY DEF AnnouncedState
<1> QED
  BY <1>1, <1>2, <1>3 DEF CircuitInv

LEMMA NextInv == CircuitInv /\ [CircuitNext]_circuitVars => CircuitInv'
<1> SUFFICES ASSUME CircuitInv, [CircuitNext]_circuitVars PROVE CircuitInv'
  OBVIOUS
<1> USE CircuitAssumption DEF CircuitInv, CircuitTypes
<1>1. ASSUME NEW d \in Deliveries, OnEvent(d) PROVE CircuitInv'
  BY <1>1 DEF OnEvent, Recovered, AnnouncedState, IsStreak
<1>2. ASSUME NEW d \in Deliveries, OnSuccess(d) PROVE CircuitInv'
  <2>1. IsStreak(outcomes', circuit'.failures)
    BY <1>2, StreakGoesOn DEF OnSuccess
  <2>2. circuit' \in [state : {"CLOSED", "OPEN", "HALF_OPEN"}, failures : Nat,
                      age : 0..RecoveryWindow]
    BY <1>2 DEF OnSuccess
  <2>3. outcomes' \in Seq(Settled)
    BY <1>2, StreakGoesOn DEF OnSuccess
  <2>4. AnnouncedState' /\ circuit'.failures = 0
    BY <1>2 DEF OnSuccess, AnnouncedState
  <2> QED
    BY <1>2, <2>1, <2>2, <2>3, <2>4 DEF OnSuccess
<1>3. ASSUME NEW d \in Deliveries, OnFailure(d) PROVE CircuitInv'
  <2>1. outcomes' \in Seq(Settled) /\ IsStreak(outcomes', circuit'.failures)
    BY <1>3, StreakGoesOn DEF OnFailure
  <2>2. circuit' \in [state : {"CLOSED", "OPEN", "HALF_OPEN"}, failures : Nat,
                      age : 0..RecoveryWindow]
    BY <1>3 DEF OnFailure
  <2>3. /\ circuit'.state = "CLOSED" => circuit'.failures < OpenThreshold
        /\ AnnouncedState'
    BY <1>3 DEF OnFailure, Opens, AnnouncedState
  <2> QED
    BY <1>3, <2>1, <2>2, <2>3 DEF OnFailure
<1>4. CASE CircuitTick
  BY <1>4 DEF CircuitTick, AnnouncedState, IsStreak
<1>5. CASE UNCHANGED circuitVars
  BY <1>5 DEF circuitVars, AnnouncedState, IsStreak
<1> QED
  BY <1>1, <1>2, <1>3, <1>4, <1>5 DEF CircuitNext

LEMMA Invariance == CircuitSpec => []CircuitInv
BY InitInv, NextInv, PTL DEF CircuitSpec

----------------------------------------------------------------------------
(* The theorem on the circuit *)

\* However deliveries overlap, the circuit events of CircuitBreakerWrapper
\* tell the truth, a closed circuit has had fewer failures in a row than its
\* threshold, the first call to settle decides a probing circuit, an open one
\* only turns to probing, and nothing is dropped once the window is over.
THEOREM CircuitIsHonest == CircuitSpec => CircuitHonest
<1>1. CircuitInv /\ CircuitInv' /\ [CircuitNext]_circuitVars =>
        [/\ AnnouncedState' /\ (circuit'.state = "CLOSED" => Healthy')
         /\ circuit.state = "HALF_OPEN" /\ outcomes' # outcomes =>
              circuit'.state = IF Last(outcomes') = "failed" THEN "OPEN" ELSE "CLOSED"
         /\ circuit.state = "OPEN" => circuit'.state # "CLOSED"
         /\ \A d \in Deliveries :
              deliveries[d] = "new" /\ deliveries'[d] = "dropped" =>
                circuit.state = "OPEN" /\ circuit.age < RecoveryWindow]_circuitVars
  <2> SUFFICES ASSUME CircuitInv, CircuitInv', CircuitNext
               PROVE  /\ AnnouncedState' /\ (circuit'.state = "CLOSED" => Healthy')
                      /\ circuit.state = "HALF_OPEN" /\ outcomes' # outcomes =>
                           circuit'.state = IF Last(outcomes') = "failed" THEN "OPEN"
                                            ELSE "CLOSED"
                      /\ circuit.state = "OPEN" => circuit'.state # "CLOSED"
                      /\ \A d \in Deliveries :
                           deliveries[d] = "new" /\ deliveries'[d] = "dropped" =>
                             circuit.state = "OPEN" /\ circuit.age < RecoveryWindow
    OBVIOUS
  <2> USE CircuitAssumption
  <2>1. AnnouncedState' /\ (circuit'.state = "CLOSED" => Healthy')
    <3>1. circuit'.failures = Streak'
      BY StreakChosen DEF CircuitInv, CircuitTypes, Streak
    <3> QED
      BY <3>1 DEF CircuitInv, Healthy
  <2>2. ASSUME circuit.state = "HALF_OPEN", outcomes' # outcomes
        PROVE  circuit'.state = IF Last(outcomes') = "failed" THEN "OPEN" ELSE "CLOSED"
    <3>1. PICK d \in Deliveries : OnSuccess(d) \/ OnFailure(d)
      BY <2>2 DEF CircuitNext, OnEvent, CircuitTick
    <3>2. \A o \in Settled : Last(Append(outcomes, o)) = o
      BY DEF Last, CircuitInv, CircuitTypes
    <3>3. CASE OnSuccess(d)
      <4>1. Last(outcomes') = "delivered"
        BY <3>2, <3>3 DEF OnSuccess, Settled
      <4>2. circuit'.state = "CLOSED"
        BY <2>2, <3>3 DEF OnSuccess, CircuitInv, CircuitTypes
      <4> QED
        BY <4>1, <4>2
    <3>4. CASE OnFailure(d)
      <4>1. Last(outcomes') = "failed"
        BY <3>2, <3>4 DEF OnFailure, Settled
      <4>2. circuit'.state = "OPEN"
        BY <2>2, <3>4 DEF OnFailure, Opens
      <4> QED
        BY <4>1, <4>2
    <3> QED
      BY <3>1, <3>3, <3>4
  <2>3. ASSUME circuit.state = "OPEN" PROVE circuit'.state # "CLOSED"
    <3>1. ASSUME NEW d \in Deliveries, OnEvent(d) PROVE circuit'.state # "CLOSED"
      BY <2>3, <3>1 DEF OnEvent, Recovered, CircuitInv, CircuitTypes
    <3>2. ASSUME NEW d \in Deliveries, OnSuccess(d) PROVE circuit'.state # "CLOSED"
      BY <2>3, <3>2 DEF OnSuccess, CircuitInv, CircuitTypes
    <3>3. ASSUME NEW d \in Deliveries, OnFailure(d) PROVE circuit'.state # "CLOSED"
      BY <2>3, <3>3 DEF OnFailure
    <3>4. CASE CircuitTick
      BY <2>3, <3>4 DEF CircuitTick, CircuitInv, CircuitTypes
    <3> QED
      BY <3>1, <3>2, <3>3, <3>4 DEF CircuitNext
  <2>4. ASSUME NEW d \in Deliveries, deliveries[d] = "new", deliveries'[d] = "dropped"
        PROVE  circuit.state = "OPEN" /\ circuit.age < RecoveryWindow
    <3>1. OnEvent(d) /\ circuit'.state = "OPEN"
      <4>1. PICK e \in Deliveries : OnEvent(e) \/ OnSuccess(e) \/ OnFailure(e)
        BY <2>4 DEF CircuitNext, CircuitTick
      <4>2. e = d
        BY <2>4, <4>1 DEF OnEvent, OnSuccess, OnFailure, CircuitInv, CircuitTypes
      <4> QED
        BY <2>4, <4>1, <4>2 DEF OnEvent, OnSuccess, OnFailure, CircuitInv, CircuitTypes
    <3> QED
      BY <3>1 DEF OnEvent, Recovered, CircuitInv, CircuitTypes
  <2> QED
    BY <2>1, <2>2, <2>3, <2>4
<1> QED
  BY <1>1, Invariance, PTL DEF CircuitSpec, CircuitHonest
=============================================================================
