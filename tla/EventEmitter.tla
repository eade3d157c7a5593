---------------------------- MODULE EventEmitter ----------------------------
(***************************************************************************)
(* EventEmitter of src/events/emitter.ts: the fan-out of emit(), one        *)
(* delivery per event and subscriber with its retries, the dead-letter path *)
(* and onFailure, the bounded list of pending deliveries, flush() and       *)
(* shutdown().                                                              *)
(*                                                                          *)
(* emit() is synchronous and so is the first part of every handler it       *)
(* calls, which may call the emitter again: stack holds the emit() calls    *)
(* under way.  Everything else happens in a turn of its own, with the stack *)
(* empty.  Of an event only the patterns it matches are kept.  The order of *)
(* _pending and of _subscribers is left out: flush(), the loop of emit()    *)
(* and the dead-letter loop may take their entries in any order.            *)
(***************************************************************************)
EXTENDS Integers, Sequences, FiniteSets

CONSTANTS
  Events,        \* the emit() calls of the instance
  Subscribers,   \* the subscribers, each subscribed at most once
  Matches,       \* <<event, subscriber>>: the eventPattern matches
  DlqListeners,  \* those with an explicit pattern for delivery_failed
  Callbacks,     \* those with an onFailure callback
  MaxAttempts,   \* [Subscribers -> RetryConfig.maxAttempts]
  MaxPending,    \* the constructor's maxPending
  Flushers       \* the flush() calls of the instance

ASSUME EmitterAssumption ==
  /\ IsFiniteSet(Events) /\ IsFiniteSet(Subscribers)
  /\ Matches \subseteq Events \X Subscribers /\ DlqListeners \subseteq Subscribers
  /\ Callbacks \subseteq Subscribers
  /\ MaxAttempts \in [Subscribers -> Nat]
  /\ MaxPending \in Nat
  /\ "shutdown" \notin Flushers

VARIABLES
  subscribers,  \* _subscribers
  emitted,      \* the events emit() has accepted
  stack,        \* the emit() calls under way, the innermost last
  phase,        \* [Ids -> where _deliver or _emitOverflowDLQ is suspended]
  attempt,      \* [Ids -> calls of onEvent so far]
  overflow,     \* the deliveries that found _pending full
  audience,     \* [Ids -> the dead-letter listeners found by _emitDLQ]
  told,         \* [Ids -> those among them that have answered]
  pending,      \* _pending
  closed,       \* _shutdown
  flush,        \* [Waiters -> [phase, timed, left]]
  acked,        \* history: deliveries whose subscriber has accepted
  notified,     \* history: deliveries whose onFailure has been called
  abandoned,    \* history: deliveries a flush() stopped waiting for
  during        \* history: the emit() calls shutdown() was called from

emitVars     == <<subscribers, emitted, stack>>
deliveryVars == <<phase, attempt, overflow, audience, told, acked, notified>>
flushVars    == <<closed, flush, abandoned, during>>
vars == <<emitVars, deliveryVars, pending, flushVars>>

----------------------------------------------------------------------------
(* Vocabulary *)

Ids == Events \X Subscribers
Waiters == Flushers \cup {"shutdown"}
NoId == <<>>

Top == stack[Len(stack)]
Quiet == stack = <<>>
Calling == IF Quiet THEN NoId ELSE Top.id

\* A caller of the emitter: a turn of its own, or the synchronous part of a
\* handler that the innermost emit() is calling.
MayCall == Quiet \/ Calling # NoId

\* A handler of the delivery may come back without a promise, inside emit().
MayReturn(id) == Quiet \/ Calling = id

InFrames  == {stack[i].id : i \in DOMAIN stack} \ {NoId}
Unsettled == {id \in Ids : phase[id] \notin {"none", "settled"}}

----------------------------------------------------------------------------
(* subscribe() and unsubscribe() *)

Subscribe(s) ==
  /\ MayCall
  /\ s \notin subscribers
  /\ subscribers' = subscribers \cup {s}
  /\ UNCHANGED <<emitted, stack, deliveryVars, pending, flushVars>>

Unsubscribe(s) ==
  /\ MayCall
  /\ s \in subscribers
  /\ subscribers' = subscribers \ {s}
  /\ UNCHANGED <<emitted, stack, deliveryVars, pending, flushVars>>

----------------------------------------------------------------------------
(* _deliver: after the last attempt *)

\* What _deliver does when _emitDLQ has returned.
ForgetsCallback(id) == "settled"                                   \* mutant
AfterFailure(id) == IF id[2] \in Callbacks THEN "callback" ELSE "settled"

\* _emitDLQ takes its snapshot of the listeners; with none it returns.
DeadLetter(id, next) ==
  LET listeners == subscribers \cap DlqListeners IN
  /\ audience' = [audience EXCEPT ![id] = listeners]
  /\ phase' = [phase EXCEPT ![id] = IF listeners = {} THEN next
                                    ELSE "deadLetter"]

----------------------------------------------------------------------------
(* emit() *)

\* Dropped after shutdown(), else the matching subscribers are collected.
Emit(e) ==
  /\ MayCall
  /\ e \notin emitted /\ ~closed
  /\ emitted' = emitted \cup {e}
  /\ stack' = Append(stack, [event |-> e, id |-> NoId,
                             rest |-> {s \in subscribers : <<e, s>> \in Matches}])
  /\ UNCHANGED <<subscribers, deliveryVars, pending, flushVars>>

Full == Cardinality(pending) >= MaxPending

Goes(s) ==
  /\ ~Quiet /\ Top.id = NoId /\ s \in Top.rest
  /\ stack' = [stack EXCEPT ![Len(stack)] = [event |-> Top.event,
                                             id |-> <<Top.event, s>>,
                                             rest |-> Top.rest \ {s}]]

\* The loop calls _deliver, which calls onEvent.
Deliver(s) ==
  /\ Goes(s) /\ ~Full
  /\ LET id == <<Top.event, s>> IN
     IF MaxAttempts[s] = 0
       THEN DeadLetter(id, AfterFailure(id)) /\ UNCHANGED attempt
       ELSE /\ phase' = [phase EXCEPT ![id] = "calling"]
            /\ attempt' = [attempt EXCEPT ![id] = 1]
            /\ UNCHANGED audience
  /\ UNCHANGED <<subscribers, emitted, overflow, told, acked, notified,
                 pending, flushVars>>

\* The loop calls _emitOverflowDLQ, which calls the first listener.
Overflow(s) ==
  /\ Goes(s) /\ Full
  /\ overflow' = overflow \cup {<<Top.event, s>>}
  /\ DeadLetter(<<Top.event, s>>, "settled")
  /\ UNCHANGED <<subscribers, emitted, attempt, told, acked, notified,
                 pending, flushVars>>

\* The call has returned its promise, which is tracked.
Tracked == pending \cup {Top.id}

Track ==
  /\ ~Quiet /\ Top.id # NoId
  /\ pending' = Tracked
  /\ stack' = [stack EXCEPT ![Len(stack)].id = NoId]
  /\ UNCHANGED <<subscribers, emitted, deliveryVars, flushVars>>

EmitReturns ==
  /\ ~Quiet /\ Top.id = NoId /\ Top.rest = {}
  /\ stack' = SubSeq(stack, 1, Len(stack) - 1)
  /\ UNCHANGED <<subscribers, emitted, deliveryVars, pending, flushVars>>

----------------------------------------------------------------------------
(* _deliver, once emit() has returned *)

Accepts(id) ==
  /\ Quiet /\ phase[id] = "calling"
  /\ phase' = [phase EXCEPT ![id] = "settled"]
  /\ acked' = acked \cup {id}
  /\ UNCHANGED <<emitVars, attempt, overflow, audience, told, notified,
                 pending, flushVars>>

AttemptLeft(id) == attempt[id] < MaxAttempts[id[2]]

\* onEvent throws or its promise rejects.
Fails(id) ==
  /\ MayReturn(id) /\ phase[id] = "calling"
  /\ IF AttemptLeft(id)
       THEN phase' = [phase EXCEPT ![id] = "sleeping"] /\ UNCHANGED audience
       ELSE DeadLetter(id, AfterFailure(id))
  /\ UNCHANGED <<emitVars, attempt, overflow, told, acked, notified, pending,
                 flushVars>>

Retries(id) ==
  /\ Quiet /\ phase[id] = "sleeping"
  /\ phase' = [phase EXCEPT ![id] = "calling"]
  /\ attempt' = [attempt EXCEPT ![id] = @ + 1]
  /\ UNCHANGED <<emitVars, overflow, audience, told, acked, notified, pending,
                 flushVars>>

\* A dead-letter listener returns or fails, which is the same to _emitDLQ.
DlqAnswers(id) ==
  /\ MayReturn(id) /\ phase[id] = "deadLetter"
  /\ \E s \in audience[id] \ told[id] :
       told' = [told EXCEPT ![id] = @ \cup {s}]
  /\ phase' = [phase EXCEPT ![id] = IF told'[id] # audience[id] THEN @
                                    ELSE IF id \in overflow THEN "settled"
                                    ELSE AfterFailure(id)]
  /\ UNCHANGED <<emitVars, attempt, overflow, audience, acked, notified,
                 pending, flushVars>>

CallbackEnds(id) ==
  /\ MayReturn(id) /\ phase[id] = "callback"
  /\ phase' = [phase EXCEPT ![id] = "settled"]
  /\ notified' = notified \cup {id}
  /\ UNCHANGED <<emitVars, attempt, overflow, audience, told, acked, pending,
                 flushVars>>

\* The then() of the tracked promise takes it out of _pending.
Untrack(id) ==
  /\ Quiet /\ phase[id] = "settled" /\ id \in pending
  /\ pending' = pending \ {id}
  /\ UNCHANGED <<emitVars, deliveryVars, flushVars>>

----------------------------------------------------------------------------
(* flush() and shutdown() *)

\* The pending deliveries are taken over; "timed" is a positive timeoutMs.
Remaining == {}

Takes(f, timed) ==
  /\ flush[f].phase = "idle"
  /\ flush' = [flush EXCEPT ![f] = [phase |-> "waiting", timed |-> timed,
                                    left |-> pending]]
  /\ pending' = Remaining

FlushCall(f) ==
  /\ MayCall
  /\ \E timed \in BOOLEAN : Takes(f, timed)
  /\ UNCHANGED <<emitVars, deliveryVars, closed, abandoned, during>>

\* A second shutdown() returns at once.
ShutdownCall ==
  /\ MayCall
  /\ ~closed /\ closed' = TRUE
  /\ \E timed \in BOOLEAN : Takes("shutdown", timed)
  /\ during' = {stack[i].event : i \in DOMAIN stack}
  /\ UNCHANGED <<emitVars, deliveryVars, abandoned>>

Without(f, id) == flush[f].left \ {id}

FlushSees(f) ==
  /\ Quiet /\ flush[f].phase = "waiting"
  /\ \E id \in flush[f].left :
       /\ phase[id] = "settled"
       /\ flush' = [flush EXCEPT ![f].left = Without(f, id)]
  /\ UNCHANGED <<emitVars, deliveryVars, pending, closed, abandoned, during>>

\* One delivery has had its timeoutMs.
NoTimer(f) == FALSE                                                \* mutant
HasTimer(f) == flush[f].timed

FlushTimesOut(f) ==
  /\ Quiet /\ flush[f].phase = "waiting" /\ HasTimer(f)
  /\ \E id \in flush[f].left :
       /\ phase[id] # "settled"
       /\ flush' = [flush EXCEPT ![f].left = @ \ {id}]
       /\ abandoned' = abandoned \cup {id}
  /\ UNCHANGED <<emitVars, deliveryVars, pending, closed, during>>

FlushReturns(f) ==
  /\ Quiet /\ flush[f].phase = "waiting" /\ flush[f].left = {}
  /\ flush' = [flush EXCEPT ![f].phase = "done"]
  /\ UNCHANGED <<emitVars, deliveryVars, pending, closed, abandoned, during>>

----------------------------------------------------------------------------
(* Specification *)

Init ==
  /\ subscribers = Subscribers
  /\ emitted = {} /\ stack = <<>>
  /\ phase = [id \in Ids |-> "none"]
  /\ attempt = [id \in Ids |-> 0]
  /\ overflow = {} /\ acked = {} /\ notified = {}
  /\ audience = [id \in Ids |-> {}]
  /\ told = [id \in Ids |-> {}]
  /\ pending = {} /\ closed = FALSE
  /\ flush = [f \in Waiters |->
                [phase |-> "idle", timed |-> FALSE, left |-> {}]]
  /\ abandoned = {}
  /\ during = {}

\* What the emitter does by itself once it has been called.
EmitStep == (\E s \in Subscribers : Deliver(s) \/ Overflow(s))
            \/ Track \/ EmitReturns
FlushStep(f) == FlushSees(f) \/ FlushTimesOut(f) \/ FlushReturns(f)

Next ==
  \/ \E e \in Events : Emit(e)
  \/ EmitStep
  \/ \E s \in Subscribers : Subscribe(s) \/ Unsubscribe(s)
  \/ \E id \in Ids :
       \/ Accepts(id) \/ Fails(id) \/ Retries(id) \/ DlqAnswers(id)
       \/ CallbackEnds(id) \/ Untrack(id)
  \/ \E f \in Flushers : FlushCall(f)
  \/ ShutdownCall
  \/ \E f \in Waiters : FlushStep(f)

Spec == Init /\ [][Next]_vars

\* emit() runs to its end, promise callbacks and timers run.  Nothing obliges
\* a subscriber, a dead-letter listener or a callback to answer.
FairSpec ==
  /\ Spec
  /\ WF_vars(EmitStep)
  /\ \A id \in Ids : WF_vars(Retries(id)) /\ WF_vars(Untrack(id))
  /\ \A f \in Waiters : WF_vars(FlushStep(f))

----------------------------------------------------------------------------
(* Properties *)

Phases == {"none", "calling", "sleeping", "deadLetter", "callback", "settled"}

\* Types; a delivery never exceeds its attempts.
TypeOK ==
  /\ subscribers \subseteq Subscribers /\ emitted \subseteq Events
  /\ stack \in Seq([event : Events, id : Ids \cup {NoId},
                    rest : SUBSET Subscribers])
  /\ phase \in [Ids -> Phases]
  /\ attempt \in [Ids -> Nat]
  /\ \A id \in Ids : attempt[id] <= MaxAttempts[id[2]]
  /\ audience \in [Ids -> SUBSET Subscribers]
  /\ told \in [Ids -> SUBSET Subscribers]
  /\ overflow \subseteq Ids /\ acked \subseteq Ids /\ notified \subseteq Ids
  /\ pending \subseteq Ids /\ abandoned \subseteq Ids
  /\ closed \in BOOLEAN
  /\ flush \in [Waiters -> [phase : {"idle", "waiting", "done"},
                             timed : BOOLEAN, left : SUBSET Ids]]
  /\ during \subseteq Events

\* A delivery under way is known to exactly one party, which will wait for it
\* or has given it up: the emit() that is calling it, _pending, one flush().
Keepers(id) ==
  (IF id \in pending THEN {"pending"} ELSE {})
  \cup (IF id \in InFrames THEN {"emit"} ELSE {})
  \cup (IF id \in abandoned THEN {"abandoned"} ELSE {})
  \cup {f \in Waiters : id \in flush[f].left}
Accounted == \A id \in Unsettled : Cardinality(Keepers(id)) = 1

\* "accepted events are never silently lost": a delivery settles because its
\* subscriber accepted it, and then nobody hears of a failure; or after its
\* last attempt, or for overflow without any, and then every dead-letter
\* listener of that moment and, unless overflowed, onFailure have been told.
NeverLost ==
  \A id \in Ids : phase[id] = "settled" =>
    IF id \in acked
      THEN audience[id] = {} /\ id \notin notified \cup overflow
      ELSE /\ told[id] = audience[id]
           /\ attempt[id] = IF id \in overflow THEN 0 ELSE MaxAttempts[id[2]]
           /\ id \in notified <=> id[2] \in Callbacks /\ id \notin overflow

\* When shutdown() returns nothing is under way, except what another flush()
\* had taken over or some flush() gave up for its timeout, and what the
\* emit() calls dispatch from whose handlers shutdown() was called.
ShutdownDrains ==
  flush["shutdown"].phase = "done" =>
    \A id \in Unsettled :
      \/ id[1] \in during
      \/ id \in abandoned
      \/ \E f \in Flushers : id \in flush[f].left

\* A flush() with a timeout returns even if no handler ever answers.
FlushEnds ==
  \A f \in Waiters :
    (flush[f].phase = "waiting" /\ flush[f].timed) ~> flush[f].phase = "done"

\* At every moment an accepted event is in somebody's hands or has been dealt
\* with, and a shutdown leaves nothing behind.
EventsAccounted == TypeOK /\ Accounted /\ NeverLost /\ ShutdownDrains
=============================================================================
